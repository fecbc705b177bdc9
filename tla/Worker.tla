------------------------------- MODULE Worker -------------------------------
(***************************************************************************)
(* What the controller promises of every worker it ever names: a single-   *)
(* use machine. A name is given to one VM, which boots once, with its own  *)
(* runner registered beforehand, runs one job at most, and isn't used      *)
(* again. Controller implements it (ControllerProps).                      *)
(***************************************************************************)
CONSTANT Names

VARIABLES
    life,  \* of the VM under a name: absent, in its setup, live, gone
    reg,   \* its runner in GitHub
    on     \* its VM runs

workerVars == <<life, reg, on>>

\* A step of the worker r and of nothing else about it.
Becomes(r, l, g, o) == life'[r] = l /\ reg'[r] = g /\ on'[r] = o

\* The VM is created. If the creation gives up on it here, or later, others have to destroy it.
Create(r) == life[r] = "absent" /\ \E l \in {"setup", "live"} : Becomes(r, l, reg[r], on[r])

\* There will be no VM under this name.
GiveUp(r) == life[r] = "absent" /\ Becomes(r, "gone", reg[r], on[r])

Abandon(r) == life[r] = "setup" /\ Becomes(r, "live", reg[r], on[r])

\* The runner is registered, once, while the VM is set up.
Register(r) ==
    /\ life[r] = "setup" /\ reg[r] = "new" /\ ~on[r]
    /\ \E l \in {"setup", "live"} : Becomes(r, l, "idle", FALSE)

\* The VM boots, once, with a runner that was registered.
Boot(r) == life[r] = "setup" /\ reg[r] # "new" /\ ~on[r] /\ Becomes(r, "live", reg[r], TRUE)

\* One job at most, on a VM that runs.
StartJob(r) == life[r] = "live" /\ reg[r] = "idle" /\ on[r] /\ Becomes(r, "live", "job", TRUE)

EndJob(r) == reg[r] = "job" /\ Becomes(r, life[r], "done", on[r])

Unregister(r) == reg[r] = "idle" /\ Becomes(r, life[r], "removed", on[r])

GoDown(r) == on[r] /\ Becomes(r, life[r], reg[r], FALSE)

Destroy(r) == life[r] \in {"setup", "live"} /\ ~on[r] /\ Becomes(r, "gone", reg[r], FALSE)

Rests(r) == Becomes(r, life[r], reg[r], on[r])

WorkerInit == \A r \in Names : life[r] = "absent" /\ reg[r] = "new" /\ ~on[r]

\* A crash of the controller abandons several workers at once.
WorkerNext ==
    \A r \in Names :
        \/ Rests(r)
        \/ Create(r) \/ GiveUp(r) \/ Abandon(r) \/ Register(r) \/ Boot(r)
        \/ StartJob(r) \/ EndJob(r) \/ Unregister(r) \/ GoDown(r) \/ Destroy(r)

WorkerSpec == WorkerInit /\ [][WorkerNext]_workerVars

=============================================================================
