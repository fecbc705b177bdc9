----------------------------- MODULE Controller -----------------------------
(***************************************************************************)
(* The controller of internal/controller: one reconcile loop, the VM       *)
(* operations it starts in the background, and what GitHub's listener      *)
(* reports to it, on top of the runner pool (Pool).                        *)
(*                                                                         *)
(* A pass is not atomic: it lists the VMs once and then looks at the       *)
(* workers one by one, with a GitHub lookup for some, so operations start  *)
(* and finish while its list grows stale.                                  *)
(***************************************************************************)
EXTENDS Pool

CONSTANTS
    Configs,                 \* the sets of scale sets a configuration may name
    MinRunners, MaxRunners,  \* per scale set
    Parallelism,             \* VM operations that may run at once
    MaxAssigned              \* bound: assigned jobs GitHub reports

ASSUME ConfigAssumption ==
    /\ Configs \subseteq (SUBSET ScaleSets) \ {{}}
    /\ MinRunners \in [ScaleSets -> Nat]
    /\ MaxRunners \in [ScaleSets -> Nat \ {0}]
    /\ Parallelism \in Nat \ {0}
    /\ MaxAssigned \in Nat

VARIABLES
    proc,        \* the controller process
    configured,  \* the scale sets in its configuration
    op,          \* Controller.busy: the operation in flight on each VMID, and how far it is
    foreign,     \* VMIDs Proxmox says are taken although the list doesn't show them
    created,     \* the last creation time given to a worker
    known, desired, jobs, backoff,               \* scaleSetState: known, desired, busy, retryAfter
    pc, seen, used, newest, todo, asking, sets   \* the pass: what it listed, and what it has left to do

setVars  == <<known, desired, jobs, backoff>>
passVars == <<pc, seen, used, newest, todo, asking, sets>>
ctlVars  == <<proc, configured, op, foreign, created, setVars, passVars>>
vars     == <<poolVars, faults, ctlVars>>

VMIDs == WorkerIDs \cup TemplateIDs

\* What a list of the VMs says of one.
Listing == [kind : {"none", "clone", "worker"}, ss : ScaleSets \cup {""}, stamp : Name,
            ready : BOOLEAN, status : Status]
NoListing == [kind |-> "none", ss |-> "", stamp |-> 0, ready |-> FALSE, status |-> "unknown"]

\* An operation in flight on a VMID, and the call it is about to make. "wait" is waiting for a slot.
Steps == {"none", "wait", "clone", "configure", "register", "start", "signal", "mark",
          "remove", "stop", "destroy", "removeAfter"}
Op == [kind : {"none", "create", "retire", "prune"}, at : Steps, ss : ScaleSets \cup {""},
       stamp : Name, tpl : TemplateIDs \cup {0}, name : Name, force : BOOLEAN, run : BOOLEAN]
NoOp == [kind |-> "none", at |-> "none", ss |-> "", stamp |-> 0, tpl |-> 0, name |-> 0,
         force |-> FALSE, run |-> FALSE]

\* Type correctness of the whole state.
TypeOK ==
    /\ PoolTypeOK
    /\ proc \in {"up", "stopping", "down"}
    /\ configured \in Configs
    /\ op \in [VMIDs -> Op]
    /\ foreign \subseteq WorkerIDs
    /\ known \subseteq ScaleSets
    /\ desired \in [ScaleSets -> Nat] /\ \A s \in ScaleSets : desired[s] <= MaxRunners[s]
    /\ jobs \subseteq Stamps
    /\ backoff \subseteq ScaleSets
    /\ pc \in {"idle", "workers"}
    /\ seen \in [WorkerIDs -> Listing]
    /\ used \subseteq WorkerIDs
    /\ newest \in TemplateIDs \cup {0}
    /\ todo \subseteq WorkerIDs
    /\ asking \subseteq WorkerIDs
    /\ sets \subseteq ScaleSets
    /\ created \in 0..MaxCreated

-----------------------------------------------------------------------------
(* The parts of the code that only read *)

\* isBusy: an operation is in flight on the VMID.
IsBusy(id) == op[id].kind # "none"

\* creatingFor and creatingAny.
CreatingFor(s) == {v \in WorkerIDs : op[v].kind = "create" /\ op[v].ss = s}
CreatingAny    == \E v \in WorkerIDs : op[v].kind = "create"

\* The operations holding one of Controller.slots.
Holding == {id \in VMIDs : op[id].at \notin {"none", "wait"}}

\* What ListVMs and parseWorker say of VM v.
ListVM(v) == [kind |-> vm[v].kind, ss |-> vm[v].ss, stamp |-> vm[v].stamp, ready |-> vm[v].ready,
              status |-> shown[v]]

\* The n smallest elements of a set of VMIDs, ordered by key.
Lowest(n, S, key(_)) == {x \in S : Cardinality({y \in S : key(y) < key(x)}) < n}

Min2(a, b) == IF a < b THEN a ELSE b

\* A call made with the controller's own context fails: by itself, or because shutdown cancels it.
CallFails == \/ proc = "stopping" /\ UNCHANGED faults
             \/ proc = "up" /\ Fault

CallWorks == proc = "up" /\ UNCHANGED faults

-----------------------------------------------------------------------------
(* startOp: an operation waits for a slot, or is dropped when the controller stops first. *)

\* The operation startRetire starts for a listed worker. It captures what the list said: the runner's name
\* and whether the VM runs. ss is empty for a scale set no longer configured.
RetireOp(l, force) ==
    [NoOp EXCEPT !.kind = "retire", !.at = "wait",
                 !.ss = IF l.ss \in configured THEN l.ss ELSE "",
                 !.name = IF l.kind = "worker" THEN l.stamp ELSE 0,
                 !.force = force, !.run = (l.status = "running")]

CreateOp(s, t) == [NoOp EXCEPT !.kind = "create", !.at = "wait", !.ss = s, !.tpl = t]

PruneOp == [NoOp EXCEPT !.kind = "prune", !.at = "wait"]

\* Where retire goes from its start, and from there to the VM: Stop only if the list said it runs.
DestroyVMStep_AlwaysStops(o) == "stop"
DestroyVMStep(o) == IF o.run THEN "stop" ELSE "destroy"

RetireStep(o) == IF o.name # 0 /\ ~o.force THEN "remove" ELSE DestroyVMStep(o)

\* The creation time, and so the name, that a creation takes.
NextName_SameSecond == IF created = 0 THEN 1 ELSE created
NextName == created + 1

\* The operation on id gets a slot. A creation takes its creation time, and so its name, now.
GetSlot(id) ==
    /\ proc # "down"
    /\ op[id].at = "wait"
    /\ Cardinality(Holding) < Parallelism
    /\ \/ /\ op[id].kind = "create"
          /\ created < MaxCreated
          /\ created' = created + 1
          /\ op' = [op EXCEPT ![id] = [@ EXCEPT !.at = "clone", !.stamp = NextName]]
       \/ /\ op[id].kind = "retire"
          /\ op' = [op EXCEPT ![id].at = RetireStep(op[id])]
          /\ UNCHANGED created
       \/ /\ op[id].kind = "prune"
          /\ op' = [op EXCEPT ![id].at = "destroy"]
          /\ UNCHANGED created
    /\ UNCHANGED <<poolVars, proc, configured, foreign, setVars, passVars, faults>>

\* Shutdown cancels the wait for a slot.
DropWaiting(id) ==
    /\ proc = "stopping"
    /\ op[id].at = "wait"
    /\ op' = [op EXCEPT ![id] = NoOp]
    /\ UNCHANGED <<poolVars, proc, configured, foreign, setVars, passVars, created,
                   faults>>

\* The operation on id is over. A creation that failed by itself, not by shutdown, holds off its scale set.
EndOp(id, failed) ==
    /\ op' = [op EXCEPT ![id] = NoOp]
    /\ backoff' = IF failed /\ op[id].kind = "create" /\ proc = "up"
                  THEN backoff \cup {op[id].ss} ELSE backoff

-----------------------------------------------------------------------------
(* create: clone, configure, register, start, signal, mark. A failure after the clone turns the operation *)
(* into a forced retirement of the half-built worker; it knows the runner only once registered.           *)

\* The order of create's steps.
After_RegistersFirst == [clone |-> "register", register |-> "configure", configure |-> "start",
                         start |-> "signal", signal |-> "mark"]
After_StartsFirst == [clone |-> "configure", configure |-> "start", start |-> "register", register |-> "signal",
                      signal |-> "mark"]
After == [clone |-> "configure", configure |-> "register", register |-> "start", start |-> "signal",
          signal |-> "mark"]

GoOn(v, step) == op' = [op EXCEPT ![v].at = step] /\ UNCHANGED backoff

CleanUp(v) ==
    /\ op' = [op EXCEPT ![v] = [@ EXCEPT !.at = "stop", !.force = TRUE, !.run = TRUE]]
    /\ UNCHANGED backoff

\* IsVMIDInUse: the VMID is never tried again, and the VM on it is not this operation's to clean up.
VMIDInUse(v) == foreign' = foreign \cup {v} /\ EndOp(v, TRUE)

Clone(v) ==
    /\ op[v].kind = "create" /\ op[v].at = "clone"
    /\ \/ /\ CallWorks
          /\ Taken(v)
          /\ VMIDInUse(v)
          /\ UNCHANGED vm
       \/ /\ CallWorks
          /\ ~Taken(v)
          /\ reserved[op[v].tpl].kind = "template"
          /\ Cloned(v, op[v].stamp, op[v].tpl)
          /\ GoOn(v, After.clone)
          /\ UNCHANGED foreign
       \/ /\ CallWorks          \* the template is gone
          /\ ~Taken(v)
          /\ reserved[op[v].tpl].kind # "template"
          /\ EndOp(v, TRUE)
          /\ UNCHANGED <<vm, foreign>>
       \/ /\ CallFails
          /\ EndOp(v, TRUE)
          /\ UNCHANGED <<vm, foreign>>
       \/ /\ CallFails          \* the answer is lost: the clone exists, but nothing cleans it up here
          /\ ~Taken(v)
          /\ reserved[op[v].tpl].kind = "template"
          /\ Cloned(v, op[v].stamp, op[v].tpl)
          /\ EndOp(v, TRUE)
          /\ UNCHANGED foreign
    /\ UNCHANGED <<shown, reserved, runner, expired, proc, configured, known, desired, jobs, passVars,
                   created>>

\* SetConfig with the worker's tags, then GrowDisk. The clone is gone if a template import took it for a failed one.
Configure(v) ==
    /\ op[v].kind = "create" /\ op[v].at = "configure"
    /\ \/ CallWorks /\ vm[v].kind # "none" /\ GoOn(v, After.configure) /\ Tagged(v, op[v].ss)
       \/ CallWorks /\ vm[v].kind = "none" /\ CleanUp(v) /\ UNCHANGED vm
       \/ CallFails /\ CleanUp(v) /\ UNCHANGED vm
       \/ CallFails /\ vm[v].kind # "none" /\ CleanUp(v) /\ Tagged(v, op[v].ss)
    /\ UNCHANGED <<shown, reserved, runner, expired, proc, configured, foreign, known, desired, jobs, passVars,
                   created>>

\* GenerateJITConfig. If its answer is lost, the runner is registered but the cleanup doesn't know.
Register(v) ==
    /\ op[v].kind = "create" /\ op[v].at = "register"
    /\ \/ /\ CallWorks
          /\ runner' = [runner EXCEPT ![op[v].stamp] = "idle"]
          /\ op' = [op EXCEPT ![v] = [@ EXCEPT !.at = After.register, !.name = op[v].stamp]]
          /\ UNCHANGED backoff
       \/ CallFails /\ CleanUp(v) /\ UNCHANGED runner
       \/ CallFails /\ CleanUp(v) /\ runner' = [runner EXCEPT ![op[v].stamp] = "idle"]
    /\ UNCHANGED <<vm, shown, reserved, expired, proc, configured, foreign, known, desired, jobs, passVars, created>>

StartVM(v) ==
    /\ op[v].kind = "create" /\ op[v].at = "start"
    /\ \/ CallWorks /\ GoOn(v, After.start) /\ vm' = [vm EXCEPT ![v] = [@ EXCEPT !.on = TRUE]]
       \/ CallFails /\ CleanUp(v) /\ UNCHANGED vm
       \/ CallFails /\ CleanUp(v) /\ vm' = [vm EXCEPT ![v] = [@ EXCEPT !.on = TRUE]]
    /\ UNCHANGED <<shown, reserved, runner, expired, proc, configured, foreign, known, desired, jobs, passVars,
                   created>>

\* waitForAgent, then the JIT config and the file that tells the runner service to use it. A VM that went
\* down while booting runs into the boot timeout.
Signal(v) ==
    /\ op[v].kind = "create" /\ op[v].at = "signal"
    /\ \/ CallWorks /\ vm[v].on /\ GoOn(v, After.signal) /\ vm' = [vm EXCEPT ![v] = [@ EXCEPT !.jit = TRUE]]
       \/ CallWorks /\ ~vm[v].on /\ CleanUp(v) /\ UNCHANGED vm
       \/ CallFails /\ CleanUp(v) /\ UNCHANGED vm
       \/ CallFails /\ vm[v].on /\ CleanUp(v) /\ vm' = [vm EXCEPT ![v] = [@ EXCEPT !.jit = TRUE]]
    /\ UNCHANGED <<shown, reserved, runner, expired, proc, configured, foreign, known, desired, jobs, passVars,
                   created>>

\* SetConfig with the ready tag, the last step.
Mark(v) ==
    /\ op[v].kind = "create" /\ op[v].at = "mark"
    /\ \/ CallWorks /\ EndOp(v, FALSE) /\ vm' = [vm EXCEPT ![v] = [@ EXCEPT !.ready = TRUE]]
       \/ CallFails /\ CleanUp(v) /\ UNCHANGED vm
       \/ CallFails /\ CleanUp(v) /\ vm' = [vm EXCEPT ![v] = [@ EXCEPT !.ready = TRUE]]
    /\ UNCHANGED <<shown, reserved, runner, expired, proc, configured, foreign, known, desired, jobs, passVars,
                   created>>

-----------------------------------------------------------------------------
(* retire: its calls outlive the controller's context, so shutdown doesn't make them fail. *)

\* removeRunner of a retirement without force. A runner in a job stops it, and counts as busy from then on.
RemoveRunner(v) ==
    /\ proc # "down"
    /\ op[v].at = "remove"
    /\ \/ /\ runner[op[v].name] = "job"
          /\ jobs' = IF op[v].ss # "" THEN jobs \cup {op[v].name} ELSE jobs
          /\ EndOp(v, TRUE)
          /\ UNCHANGED <<runner, faults>>
       \/ /\ runner[op[v].name] # "job"
          /\ Removed(op[v].name)
          /\ jobs' = jobs \ {op[v].name}
          /\ GoOn(v, DestroyVMStep(op[v]))
          /\ UNCHANGED faults
       \/ /\ Fault
          /\ EndOp(v, TRUE)
          /\ UNCHANGED <<runner, jobs>>
       \/ /\ Fault              \* the answer is lost
          /\ runner[op[v].name] # "job"
          /\ Removed(op[v].name)
          /\ EndOp(v, TRUE)
          /\ UNCHANGED jobs
    /\ UNCHANGED <<vm, shown, reserved, expired, proc, configured, foreign, known, desired, passVars, created>>

\* destroyVM's Stop. Its failure is ignored.
Stop(v) ==
    /\ proc # "down"
    /\ op[v].at = "stop"
    /\ GoOn(v, "destroy")
    /\ \/ vm' = [vm EXCEPT ![v] = [@ EXCEPT !.on = FALSE]] /\ UNCHANGED faults
       \/ Fault /\ UNCHANGED vm
    /\ UNCHANGED <<shown, reserved, runner, expired, proc, configured, foreign, known, desired, jobs, passVars,
                   created>>

\* The VM is gone for the operation on v, and a forced one goes on to the runner.
VMGone_KeepsRunner(v) == EndOp(v, TRUE)
VMGone(v) ==
    IF op[v].name # 0 /\ op[v].force
    THEN GoOn(v, "removeAfter")
    ELSE EndOp(v, TRUE)

\* destroy of a VM in the worker range. Proxmox refuses to destroy a VM that runs; a VM that is already gone
\* counts as destroyed.
Destroy(v) ==
    /\ proc # "down"
    /\ op[v].kind \in {"create", "retire"} /\ op[v].at = "destroy"
    /\ \/ ~vm[v].on /\ Destroyed(v) /\ VMGone(v) /\ UNCHANGED faults
       \/ vm[v].on /\ EndOp(v, TRUE) /\ UNCHANGED <<vm, shown, faults>>
       \/ Fault /\ EndOp(v, TRUE) /\ UNCHANGED <<vm, shown>>
       \/ Fault /\ ~vm[v].on /\ Destroyed(v) /\ EndOp(v, TRUE)      \* the answer is lost
    /\ UNCHANGED <<reserved, runner, expired, proc, configured, foreign, known, desired, jobs, passVars, created>>

\* removeRunner of a forced retirement, once the VM is gone. Its failure is only logged.
RemoveRunnerAfter(v) ==
    /\ proc # "down"
    /\ op[v].at = "removeAfter"
    /\ jobs' = jobs \ {op[v].name}
    /\ EndOp(v, TRUE)
    /\ \/ Removed(op[v].name) /\ UNCHANGED faults
       \/ Fault /\ UNCHANGED runner
    /\ UNCHANGED <<vm, shown, reserved, expired, proc, configured, foreign, known, desired, passVars, created>>

-----------------------------------------------------------------------------
(* pruneTemplates' operation *)

PruneDestroy(t) ==
    /\ op[t].kind = "prune" /\ op[t].at = "destroy"
    /\ \/ CallWorks /\ ~HasClones(t) /\ reserved' = [reserved EXCEPT ![t] = NoReserved]
       \/ CallWorks /\ HasClones(t) /\ UNCHANGED reserved
       \/ CallFails /\ UNCHANGED reserved
       \/ CallFails /\ ~HasClones(t) /\ reserved' = [reserved EXCEPT ![t] = NoReserved]
    /\ EndOp(t, TRUE)
    /\ UNCHANGED <<vm, shown, runner, expired, proc, configured, foreign, known, desired, jobs, passVars, created>>

-----------------------------------------------------------------------------
(* reconcile: one pass *)

\* pruneTemplates waits while a worker is being created, or a managed VM doesn't say which template it came from.
PruningWaits_IgnoresCreations ==
    \/ \E v \in WorkerIDs : vm[v].kind = "clone"
    \/ \E t \in TemplateIDs : reserved[t].kind \in {"import", "build"}
PruningWaits ==
    \/ CreatingAny
    \/ \E v \in WorkerIDs : vm[v].kind = "clone"
    \/ \E t \in TemplateIDs : reserved[t].kind \in {"import", "build"}

\* The templates it prunes: all but the newest, once no worker was cloned from them.
ToPrune ==
    IF PruningWaits THEN {}
    ELSE {t \in Templates \ {NewestTemplate} : /\ ~ \E v \in WorkerIDs : vm[v].tpl = t
                                               /\ ~IsBusy(t)}

\* observe's strays: listed VMs in the worker range that still carry the template's tags.
Strays == {v \in WorkerIDs : vm[v].kind = "clone" /\ ~IsBusy(v)}

\* ListVMs and observe, then the templates and the strays: all that happens before the first GitHub call.
BeginPass ==
    /\ proc = "up" /\ pc = "idle"
    /\ pc' = "workers"
    /\ seen' = [v \in WorkerIDs |-> ListVM(v)]
    /\ used' = {v \in WorkerIDs : vm[v].kind # "none"}
    /\ newest' = NewestTemplate
    /\ todo' = {v \in WorkerIDs : vm[v].kind = "worker"} /\ asking' = {}
    /\ sets' = configured
    /\ op' = [id \in VMIDs |-> IF id \in ToPrune THEN PruneOp
                               ELSE IF id \in Strays THEN RetireOp(ListVM(id), TRUE)
                               ELSE op[id]]
    /\ UNCHANGED <<poolVars, proc, configured, foreign, setVars, created, faults>>

\* retireReason's cases. A worker past its lifetime, or one that finished its job and powered off, is forced out.
ForcedOut_OnlyExpired(l) == l.stamp \in expired
ForcedOut_RemovedSet(l) ==
    l.stamp \in expired \/ (l.status = "stopped" /\ l.ready) \/ l.ss \notin configured
ForcedOut(l) == l.stamp \in expired \/ (l.status = "stopped" /\ l.ready)

\* A worker of a removed scale set, or one left half-created, goes when its runner isn't in a job.
Unwanted_OnlyRemovedSet(l) == l.ss \notin configured
Unwanted(l) == l.ss \notin configured \/ ~l.ready

StartRetire(v, force) == op' = [op EXCEPT ![v] = RetireOp(seen[v], force)]

\* One worker of the pass, without a call. Whether runnerCheckDue allows a check is left open: it may have become due
\* at any time.
LookAt(v) ==
    /\ proc # "down" /\ pc = "workers" /\ asking = {} /\ v \in todo
    /\ todo' = todo \ {v}
    /\ \/ IsBusy(v) /\ UNCHANGED op
       \/ ~IsBusy(v) /\ ForcedOut(seen[v]) /\ StartRetire(v, TRUE)
       \/ ~IsBusy(v) /\ ~ForcedOut(seen[v]) /\ Unwanted(seen[v]) /\ StartRetire(v, FALSE)
       \/ ~IsBusy(v) /\ ~ForcedOut(seen[v]) /\ UNCHANGED op    \* kept, or no check due
    /\ UNCHANGED <<poolVars, proc, configured, foreign, setVars, pc, seen, used, newest, asking,
                   sets, created, faults>>

\* The pass asks GitHub for the runner of a ready, running worker, and waits.
Ask(v) ==
    /\ proc # "down" /\ pc = "workers" /\ asking = {} /\ v \in todo
    /\ ~IsBusy(v) /\ ~ForcedOut(seen[v]) /\ ~Unwanted(seen[v]) /\ seen[v].status = "running"
    /\ todo' = todo \ {v} /\ asking' = {v}
    /\ UNCHANGED <<poolVars, proc, configured, op, foreign, setVars, pc, seen, used, newest, sets,
                   created, faults>>

\* The answer, or none: a worker whose runner is gone has nothing left to do.
Answer(v) ==
    /\ proc # "down" /\ v \in asking
    /\ asking' = {}
    /\ \/ CallWorks /\ runner[seen[v].stamp] \in {"idle", "job"} /\ UNCHANGED op
       \/ CallWorks /\ runner[seen[v].stamp] \notin {"idle", "job"} /\ StartRetire(v, FALSE)
       \/ CallFails /\ UNCHANGED op
    /\ UNCHANGED <<poolVars, proc, configured, foreign, setVars, pc, seen, used, newest, todo, sets,
                   created>>

\* scaleSetState.target: whether GitHub has said yet how many workers it wants.
Known_Always(s) == TRUE
Known(s) == s \in known

\* scale's count: creations in flight, and listed workers that are ready, not stopped and not being retired.
Active(s) == {v \in WorkerIDs : /\ seen[v].kind = "worker" /\ seen[v].ss = s
                                /\ ~IsBusy(v) /\ seen[v].status # "stopped" /\ seen[v].ready}
Idle(s)   == {v \in Active(s) : seen[v].stamp \notin jobs}

\* allocateVMID: the VMIDs it may hand out, lowest first.
FreeIDs_IgnoresList == {v \in WorkerIDs : v \notin foreign /\ ~IsBusy(v)}
FreeIDs == {v \in WorkerIDs : v \notin used /\ v \notin foreign /\ ~IsBusy(v)}

\* Creations that still have to take their creation time.
Unstamped == {v \in WorkerIDs : op[v].kind = "create" /\ op[v].at = "wait"}

\* The VMIDs scale starts creations on, and those it retires as more than GitHub wants: the oldest idle ones.
ToCreate(s, n) ==
    IF newest = 0 \/ s \in backoff THEN {}
    ELSE Lowest(Min2(n, MaxCreated - created - Cardinality(Unstamped)), FreeIDs, LAMBDA v : v)

ToRetire_OneLess(s, n) ==
    IF CreatingFor(s) # {} THEN {}
    ELSE Lowest(n - 1, Idle(s), LAMBDA v : seen[v].stamp)
ToRetire(s, n) ==
    IF CreatingFor(s) # {} THEN {}
    ELSE Lowest(n, Idle(s), LAMBDA v : seen[v].stamp)

\* One scale set of the pass; the pass is over after the last. (countWorkers and the status write leave no state
\* the loop reads.)
Scale(s) ==
    /\ proc # "down" /\ pc = "workers" /\ todo = {} /\ asking = {} /\ s \in sets
    /\ LET active == Cardinality(CreatingFor(s)) + Cardinality(Active(s))
           new == IF Known(s) /\ active < desired[s] THEN ToCreate(s, desired[s] - active) ELSE {}
           old == IF Known(s) /\ active > desired[s] THEN ToRetire(s, active - desired[s]) ELSE {}
       IN /\ op' = [id \in VMIDs |-> IF id \in new THEN CreateOp(s, newest)
                                     ELSE IF id \in old THEN RetireOp(seen[id], FALSE)
                                     ELSE op[id]]
          /\ IF sets = {s}
             THEN /\ pc' = "idle" /\ sets' = {} /\ used' = {} /\ newest' = 0
                  /\ seen' = [v \in WorkerIDs |-> NoListing]
             ELSE /\ sets' = sets \ {s} /\ used' = used \cup new
                  /\ UNCHANGED <<pc, seen, newest>>
    /\ UNCHANGED <<poolVars, proc, configured, foreign, setVars, todo, asking, created, faults>>

-----------------------------------------------------------------------------
(* scaleSetState: what the listener reports, also about a message it had when the context ended. Messages may be *)
(* late, repeated or lost. Those about a worker whose VM is gone are left out: names are never reused, so nothing *)
(* reads what they record.                                                                                        *)

\* What DesiredRunners makes of the jobs GitHub assigned.
TargetOf_Uncapped(s, assigned) == MinRunners[s] + assigned
TargetOf(s, assigned) == Min2(MaxRunners[s], MinRunners[s] + assigned)

DesiredRunners(s, assigned) ==
    /\ proc # "down" /\ s \in configured
    /\ desired' = [desired EXCEPT ![s] = TargetOf(s, assigned)]
    /\ known' = known \cup {s}
    /\ UNCHANGED <<poolVars, proc, configured, op, foreign, jobs, backoff, passVars, created,
                   faults>>

JobStarted(r) ==
    /\ proc # "down" /\ runner[r] \in {"job", "done"} /\ HasVM(r)
    /\ jobs' = jobs \cup {r}
    /\ UNCHANGED <<poolVars, proc, configured, op, foreign, known, desired, backoff, passVars,
                   created, faults>>

JobCompleted(r) ==
    /\ proc # "down" /\ runner[r] = "done" /\ HasVM(r)
    /\ jobs' = jobs \ {r}
    /\ UNCHANGED <<poolVars, proc, configured, op, foreign, known, desired, backoff, passVars,
                   created, faults>>

\* retryAfter passes. A pass compares it with the time it began, so within a pass it can't.
BackoffEnds(s) ==
    /\ pc = "idle" /\ s \in backoff
    /\ backoff' = backoff \ {s}
    /\ UNCHANGED <<poolVars, proc, configured, op, foreign, known, desired, jobs, passVars,
                   created, faults>>

-----------------------------------------------------------------------------
(* The process *)

\* What a new process starts with (New): nothing but its configuration.
Forget ==
    /\ op' = [id \in VMIDs |-> NoOp]
    /\ foreign' = {}
    /\ known' = {} /\ desired' = [s \in ScaleSets |-> 0] /\ jobs' = {} /\ backoff' = {}
    /\ pc' = "idle" /\ seen' = [v \in WorkerIDs |-> NoListing]
    /\ used' = {} /\ newest' = 0 /\ todo' = {} /\ asking' = {} /\ sets' = {}

\* The context ends. Passes, listeners and creations stop; retirements run to their end.
Shutdown ==
    /\ proc = "up" /\ Fault
    /\ proc' = "stopping"
    /\ UNCHANGED <<poolVars, configured, op, foreign, setVars, passVars, created>>

\* Run returns once the pass and the operations are over.
Stopped ==
    /\ proc = "stopping" /\ pc = "idle" /\ \A id \in VMIDs : ~IsBusy(id)
    /\ proc' = "down" /\ Forget
    /\ UNCHANGED <<poolVars, configured, created, faults>>

\* The process dies, or gives up waiting for its operations (waitForOps).
Crash ==
    /\ proc # "down" /\ Fault
    /\ proc' = "down" /\ Forget
    /\ UNCHANGED <<poolVars, configured, created>>

\* A new process, possibly with another configuration, registers its scale sets and runs.
Restart(cfg) ==
    /\ proc = "down"
    /\ proc' = "up" /\ configured' = cfg
    /\ UNCHANGED <<poolVars, op, foreign, setVars, passVars, created, faults>>

-----------------------------------------------------------------------------
Init ==
    /\ PoolInit
    /\ proc = "up" /\ configured \in Configs
    /\ op = [id \in VMIDs |-> NoOp]
    /\ foreign = {} /\ created = 0
    /\ known = {} /\ desired = [s \in ScaleSets |-> 0] /\ jobs = {} /\ backoff = {}
    /\ pc = "idle" /\ seen = [v \in WorkerIDs |-> NoListing]
    /\ used = {} /\ newest = 0 /\ todo = {} /\ asking = {} /\ sets = {}

\* The operation on a VMID of the worker range.
WorkerOp(v) ==
    \/ GetSlot(v) \/ DropWaiting(v)
    \/ Clone(v) \/ Configure(v) \/ Register(v) \/ StartVM(v) \/ Signal(v) \/ Mark(v)
    \/ RemoveRunner(v) \/ Stop(v) \/ Destroy(v) \/ RemoveRunnerAfter(v)

TemplateOp(t) == GetSlot(t) \/ DropWaiting(t) \/ PruneDestroy(t)

Pass == \/ BeginPass
        \/ \E v \in WorkerIDs : LookAt(v) \/ Ask(v) \/ Answer(v)
        \/ \E s \in ScaleSets : Scale(s)

Listener ==
    \/ \E s \in ScaleSets, n \in 0..MaxAssigned : DesiredRunners(s, n)
    \/ \E r \in Stamps : JobStarted(r) \/ JobCompleted(r)

Timers == \E s \in ScaleSets : BackoffEnds(s)

Process == Shutdown \/ Stopped \/ Crash \/ (\E cfg \in Configs : Restart(cfg))

\* A pass computes the workers' age at the time it began.
Aging == pc = "idle" /\ \E v \in WorkerIDs : Expire(v)

Next == \/ \E v \in WorkerIDs : WorkerOp(v)
        \/ \E t \in TemplateIDs : TemplateOp(t)
        \/ Pass \/ Listener \/ Timers \/ Process
        \/ UNCHANGED ctlVars /\ Guests
        \/ UNCHANGED ctlVars /\ GitHub
        \/ UNCHANGED ctlVars /\ Installer
        \/ UNCHANGED ctlVars /\ Aging

Spec == Init /\ [][Next]_vars

=============================================================================
