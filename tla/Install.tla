------------------------------- MODULE Install -------------------------------
(***************************************************************************)
(* parcon install and parcon uninstall on one node. Each is a sequence of  *)
(* calls, of which any may fail and after any of which the process may be  *)
(* killed; a second run finds what the first one left. Once the install    *)
(* has started the controller, that works on the node at the same time.    *)
(* Commands don't overlap: the lock is modelled in Update.                 *)
(***************************************************************************)
EXTENDS Naturals, Sequences

CONSTANT
    MaxFaults    \* bound: calls that fail, killed commands, system VMs that go down

ASSUME FaultAssumption == MaxFaults \in Nat

VARIABLES
    objs,      \* which of Objects the host and Proxmox have
    up,        \* the VNet is up on the host: it is in the applied SDN config
    others,    \* SDN objects of other people have changes that aren't applied
    app,       \* the GitHub App in the settings file: none, its client ID, or also its installation
    token,     \* the controller's API token exists
    template,  \* the runner template: none, an import that isn't a template yet, or a template
    smoke,     \* the smoke-test clones
    worker,    \* there are workers of the controller
    linked,    \* clones are linked: a template with clones can't be destroyed
    sys,       \* how far the gateway and the controller VM are
    blocks,    \* the gateway keeps workers from the controller VM
    ctl,       \* what is in the controller VM, and its release tag
    scaleSet,  \* the scale set exists in GitHub
    cmd,       \* the command
    warned,    \* what uninstall said that it leaves
    faults

hostVars  == <<objs, up, others, app, token>>
poolVars  == <<template, smoke, worker, linked>>
guestVars == <<sys, blocks, ctl, scaleSet>>
vars      == <<hostVars, poolVars, guestVars, cmd, warned, faults>>

Objects   == {"binary", "settings", "sysPool", "runPool", "role", "user", "acls", "zone", "vnet", "tuning"}
SystemVMs == {"gateway", "controller"}
AppStates == {"none", "client", "installed"}
Running   == {"up", "bare"}

\* A system VM: qm create, its disk, its cloud-init drive, and started; or started without a cloud-init drive; or
\* complete and off.
Stages == {"none", "created", "disk", "cloudinit", "off"} \cup Running

\* The controller VM's files: its config, as far as the App is concerned; the API token's secret and the App's private
\* key, which may be others than the token and the App of the settings; parcon.service; a scale set session,
\* which may be older than the command that waits for it; the release tag.
Controller == [config : {"missing"} \cup AppStates, secret : {"none", "current", "stale"},
               key : {"none", "unsaved", "saved"}, service : BOOLEAN, session : {"none", "old", "new"},
               tag : BOOLEAN]
NewController == [config |-> "missing", secret |-> "none", key |-> "none", service |-> FALSE,
                  session |-> "none", tag |-> FALSE]

InstallPlan_TagEarly ==
    <<"binary", "settings", "sysPool", "runPool", "role", "user", "zone", "vnet", "apply", "vnetUp", "tuning",
      "template", "gateway", "configure", "controller", "block", "push", "token", "acls", "checkProxmox", "app",
      "installation", "checkGitHub", "service", "tag", "smoke", "clone", "start", "checkNetwork", "session">>

\* The steps of install, in their order.
InstallPlan ==
    <<"binary", "settings", "sysPool", "runPool", "role", "user", "zone", "vnet", "apply", "vnetUp", "tuning",
      "template", "gateway", "configure", "controller", "block", "push", "token", "acls", "checkProxmox", "app",
      "installation", "checkGitHub", "service", "smoke", "clone", "start", "checkNetwork", "session", "tag">>

UninstallPlan_ListFirst(running, pools) ==
    <<"list">> \o (IF running THEN <<"stop", "scaleSet">> ELSE <<>>) \o <<"destroy">> \o pools
    \o <<"acls", "token", "user", "role", "vnet", "zone", "unapply", "tuning", "settings", "binary">>

\* The steps of uninstall. Proxmox lists the two pools in some order.
UninstallPlan(running, pools) ==
    (IF running THEN <<"stop", "scaleSet">> ELSE <<>>) \o <<"list", "destroy">> \o pools
    \o <<"acls", "token", "user", "role", "vnet", "zone", "unapply", "tuning", "settings", "binary">>

Steps == {InstallPlan[i] : i \in 1..Len(InstallPlan)}
         \cup {"addToken", "writeSecret", "saveClient", "saveInstallation"}
         \cup {"stop", "scaleSet", "list", "destroy", "unapply"}

\* Type correctness; and the parts depend on each other as on the node: the files of a controller VM need the VM, the
\* App's key in it was stored before its ID was saved, clones come from a template.
TypeOK ==
    /\ objs \subseteq Objects
    /\ <<up, others, token, worker, linked, blocks, scaleSet>> \in [1..7 -> BOOLEAN]
    /\ app \in AppStates
    /\ template \in {"none", "import", "template"}
    /\ smoke \subseteq {"clone", "build", "leaked"}
    /\ sys \in [SystemVMs -> Stages]
    /\ ctl \in Controller
    /\ cmd \in [kind : {"install", "uninstall"}, pc : {"none", "run", "done", "failed", "refused"},
                plan : Seq(Steps), changed : BOOLEAN, made : SUBSET (SystemVMs \cup {"template"}),
                vms : SUBSET (SystemVMs \cup {"worker", "template"} \cup {"clone", "build", "leaked"}),
                hurt : BOOLEAN]
    /\ warned \subseteq {"stop", "scaleSet", "runPool", "sysPool", "sdn"}
    /\ faults \in 0..MaxFaults
    /\ cmd.pc = "run" <=> cmd.plan # <<>>
    /\ sys["controller"] \notin Running \cup {"off"} => ctl = NewController
    /\ ctl.key = "saved" => app # "none"
    /\ linked /\ (worker \/ smoke # {}) => template = "template"

\* A node without an install.
Init ==
    /\ objs = {} /\ up = FALSE /\ others = FALSE /\ app = "none" /\ token = FALSE
    /\ template = "none" /\ smoke = {} /\ worker = FALSE /\ linked \in BOOLEAN
    /\ sys = [x \in SystemVMs |-> "none"] /\ blocks = FALSE
    /\ ctl = NewController /\ scaleSet = FALSE
    /\ cmd = [kind |-> "uninstall", pc |-> "none", plan |-> <<>>, changed |-> FALSE, made |-> {}, vms |-> {},
              hurt |-> FALSE]
    /\ warned = {}
    /\ faults = 0

-----------------------------------------------------------------------------
(* Starting and ending a command *)

Begin(kind, pc, plan) ==
    /\ cmd.pc # "run"
    /\ cmd' = [kind |-> kind, pc |-> pc, plan |-> plan, changed |-> FALSE, made |-> {}, vms |-> {},
               hurt |-> FALSE]
    /\ UNCHANGED <<hostVars, poolVars, guestVars, faults>>

\* Preflight's checkNames: our objects without our pool were made by somebody else, as far as it can tell.
NamesFree == "sysPool" \in objs \/ objs \cap {"runPool", "role", "user", "zone", "vnet"} = {}

\* InstalledRelease: the controller VM has its release tag.
Installed == ctl.tag

\* Preflight, as far as earlier commands and other people's SDN changes decide.
PreflightPasses == NamesFree /\ ~others

\* Install up to the lock.
StartInstall ==
    /\ IF Installed \/ ~PreflightPasses
       THEN Begin("install", "refused", <<>>) /\ UNCHANGED warned
       ELSE Begin("install", "run", InstallPlan) /\ warned' = {}

\* Uninstall up to the lock.
StartUninstall ==
    /\ \E pools \in {<<"runPool", "sysPool">>, <<"sysPool", "runPool">>} :
           Begin("uninstall", "run", UninstallPlan(sys["controller"] \in Running, pools))
    /\ UNCHANGED warned

At(kind, step) == cmd.pc = "run" /\ cmd.kind = kind /\ Head(cmd.plan) = step

Rest == Tail(cmd.plan)

\* The command c, which goes on with plan.
With(c, plan) == [c EXCEPT !.plan = plan, !.pc = IF plan = <<>> THEN "done" ELSE "run"]

\* The command does its next step and goes on.
Do(kind, step) ==
    /\ At(kind, step)
    /\ cmd' = With(cmd, Rest)
    /\ UNCHANGED <<warned, faults>>

Ended == [cmd EXCEPT !.plan = <<>>, !.pc = "failed"]

Fault == faults < MaxFaults /\ faults' = faults + 1

\* A call fails without effect, or the process is killed.
Fail ==
    /\ cmd.pc = "run"
    /\ Fault
    /\ cmd' = Ended
    /\ UNCHANGED <<hostVars, poolVars, guestVars, warned>>

\* --stop-after network or configure.
StopAfter ==
    /\ (At("install", "template") /\ cmd.made = {}) \/ At("install", "app")
    /\ cmd' = [cmd EXCEPT !.plan = <<>>, !.pc = "done"]
    /\ UNCHANGED <<hostVars, poolVars, guestVars, warned, faults>>

-----------------------------------------------------------------------------
(* install: the host, the access objects, the network *)

\* The binary, the pools, the role, the user, the host's tuning and the ACLs: each is made unless it is there.
CreateObject(o) ==
    /\ o \in {"binary", "sysPool", "runPool", "role", "user", "tuning", "acls"}
    /\ Do("install", o)
    /\ objs' = objs \cup {o}
    /\ UNCHANGED <<up, others, app, token, poolVars, guestVars>>

\* The settings, or those of an earlier install.
SaveSettings ==
    /\ Do("install", "settings")
    /\ objs' = objs \cup {"settings"}
    /\ UNCHANGED <<up, others, app, token, poolVars, guestVars>>

\* createNetwork's zone and VNet; what it made itself it applies afterwards.
CreateSDN(o) ==
    /\ o \in {"zone", "vnet"}
    /\ At("install", o)
    /\ objs' = objs \cup {o}
    /\ cmd' = With([cmd EXCEPT !.changed = @ \/ o \notin objs], Rest)
    /\ UNCHANGED <<up, others, app, token, poolVars, guestVars, warned, faults>>

\* pvesh set /cluster/sdn: everybody's changes take effect.
AppliedSDN == up' = ("vnet" \in objs) /\ others' = FALSE

ApplySDN ==
    /\ Do("install", "apply")
    /\ IF cmd.changed THEN AppliedSDN ELSE UNCHANGED <<up, others>>
    /\ UNCHANGED <<objs, app, token, poolVars, guestVars>>

\* A step of install that only waits or checks.
Check(step, ok) ==
    /\ ok
    /\ Do("install", step)
    /\ UNCHANGED <<hostVars, poolVars, guestVars>>

-----------------------------------------------------------------------------
(* install: the template and the system VMs *)

\* importTemplate: an import that another run left is destroyed first. A smoke-test clone that never got its own tags
\* looks like one, and goes too if it is listed before the template.
ImportTemplate ==
    LET next == CASE template = "template" -> "template"
                  [] template = "import" -> IF "template" \in cmd.made THEN "template" ELSE "none"
                  [] template = "none" -> "import"
    IN  /\ At("install", "template")
        /\ template' = next
        /\ smoke' \in IF cmd.made = {} THEN {smoke \ s : s \in SUBSET {"clone", "leaked"}} ELSE {smoke}
        /\ cmd' = IF next = "template" THEN With(cmd, Rest)
                  ELSE IF next = "import" THEN [cmd EXCEPT !.made = @ \cup {"template"}] ELSE cmd
        /\ UNCHANGED <<hostVars, worker, linked, guestVars, warned, faults>>

\* What the next qm command makes of system VM x. existingSystemVM destroys one without a disk that an earlier run
\* left, and starts any other.
NextStage(x) ==
    CASE sys[x] = "none" -> "created"
      [] sys[x] = "created" -> IF x \in cmd.made THEN "disk" ELSE "none"
      [] sys[x] = "disk" -> IF x \in cmd.made THEN "cloudinit" ELSE "bare"
      [] sys[x] \in {"cloudinit", "off"} -> "up"
      [] sys[x] \in Running -> sys[x]

\* createGateway and createController up to waitBooted. A controller VM that starts again starts its service.
BuildVM(x) ==
    LET next == NextStage(x)
    IN  /\ At("install", x)
        /\ sys' = [sys EXCEPT ![x] = next]
        /\ cmd' = IF next \in Running THEN With(cmd, Rest)
                  ELSE IF sys[x] = "none" THEN [cmd EXCEPT !.made = @ \cup {x}] ELSE cmd
        /\ blocks' = (blocks /\ ~(x = "gateway" /\ sys[x] = "none"))
        /\ UNCHANGED <<hostVars, poolVars, ctl, scaleSet, warned, faults>>

\* configureGateway, first without the controller's address, which isn't known yet.
ConfigureGateway(step, block) ==
    /\ Do("install", step)
    /\ blocks' = block
    /\ UNCHANGED <<hostVars, poolVars, sys, ctl, scaleSet>>

-----------------------------------------------------------------------------
(* install: the controller's files *)

\* A step that changes the controller VM's files, its App in the settings, and what is next.
DoController(step, files, plan) ==
    /\ At("install", step)
    /\ ctl' = files
    /\ cmd' = With(cmd, plan)
    /\ UNCHANGED <<objs, up, others, poolVars, sys, blocks, scaleSet, warned, faults>>

PushConfig == DoController("push", [ctl EXCEPT !.config = app], Rest) /\ UNCHANGED <<app, token>>

\* A secret in the VM is worth nothing once its token is gone.
Invalidated == [ctl EXCEPT !.secret = IF @ = "none" THEN "none" ELSE "stale"]

EnsureToken_Keeps ==
    IF token
    THEN DoController("token", ctl, Rest) /\ UNCHANGED <<app, token>>
    ELSE DoController("token", Invalidated, <<"addToken", "writeSecret">> \o Rest) /\ token' = FALSE /\ UNCHANGED app

\* ensureToken: a token whose secret the controller seems to have is kept; another one is removed.
EnsureToken ==
    IF token /\ ctl.secret # "none"
    THEN DoController("token", ctl, Rest) /\ UNCHANGED <<app, token>>
    ELSE DoController("token", Invalidated, <<"addToken", "writeSecret">> \o Rest) /\ token' = FALSE /\ UNCHANGED app

\* The command that looks for the secret fails for another reason than that there is none: the token goes.
TestFails ==
    /\ At("install", "token") /\ token /\ ctl.secret # "none"
    /\ Fault
    /\ ctl' = Invalidated /\ token' = FALSE
    /\ cmd' = With([cmd EXCEPT !.hurt = TRUE], <<"addToken", "writeSecret">> \o Rest)
    /\ UNCHANGED <<objs, up, others, app, poolVars, sys, blocks, scaleSet, warned>>

AddToken == DoController("addToken", Invalidated, Rest) /\ token' = TRUE /\ UNCHANGED app

WriteSecret == DoController("writeSecret", [ctl EXCEPT !.secret = "current"], Rest) /\ UNCHANGED <<app, token>>

\* setupApp: creates the App or takes an existing one, with its key in the VM, unless the settings name one.
SetupApp ==
    /\ IF app = "none"
       THEN DoController("app", [ctl EXCEPT !.key = "unsaved"], <<"saveClient", "push">> \o Rest)
       ELSE DoController("app", ctl, Rest)
    /\ UNCHANGED <<app, token>>

SaveClient ==
    DoController("saveClient", [ctl EXCEPT !.key = "saved"], Rest) /\ app' = "client" /\ UNCHANGED token

\* wait-installation, with the App's key, once the user has installed the App.
WaitInstallation ==
    /\ app = "client" => ctl.key = "saved"
    /\ DoController("installation", ctl, (IF app = "client" THEN <<"saveInstallation", "push">> ELSE <<>>) \o Rest)
    /\ UNCHANGED <<app, token>>

SaveInstallation == DoController("saveInstallation", ctl, Rest) /\ app' = "installed" /\ UNCHANGED token

\* startController: enable --now changes nothing about a service that runs. Sessions opened before are old now.
StartController ==
    /\ DoController("service",
                    [ctl EXCEPT !.service = TRUE, !.session = IF @ = "new" THEN "old" ELSE @], Rest)
    /\ UNCHANGED <<app, token>>

\* The release tag goes on the controller last.
TagController == DoController("tag", [ctl EXCEPT !.tag = TRUE], Rest) /\ UNCHANGED <<app, token>>

ProxmoxOK == ctl.secret = "current" /\ "acls" \in objs
GitHubOK  == ctl.key = "saved" /\ ctl.config = "installed"

-----------------------------------------------------------------------------
(* install: the smoke test *)

DoSmoke(step, clones) ==
    /\ Do("install", step)
    /\ smoke' = clones
    /\ UNCHANGED <<hostVars, template, worker, linked, guestVars>>

\* CheckNetwork: destroyBuildVMs knows a clone by its tag. One that never got it stays.
DestroyBuildVMs == DoSmoke("smoke", {IF k = "clone" THEN "leaked" ELSE k : k \in smoke \ {"build"}})

CloneSmokeTest == template = "template" /\ DoSmoke("clone", smoke \cup {"clone"})

\* qm set, which replaces the template's tags, and qm start.
StartSmokeTest == DoSmoke("start", (smoke \ {"clone"}) \cup {"build"})

CheckNetwork == DoSmoke("checkNetwork", smoke \ {"build"})

\* Something about the worker network is wrong: the clone is destroyed all the same.
NetworkBroken ==
    /\ At("install", "start") \/ At("install", "checkNetwork")
    /\ Fault
    /\ smoke' = smoke \ {"clone", "build"}
    /\ cmd' = Ended
    /\ UNCHANGED <<hostVars, template, worker, linked, guestVars, warned>>

-----------------------------------------------------------------------------
(* install: steps that can't succeed, though no call fails *)

\* The wait in createNetwork, the checks in the controller VM and the wait for a session end with a timeout or an error;
\* a system VM without its cloud-init drive may have no network.
Hopeless ==
    \/ At("install", "vnetUp") /\ ~up
    \/ At("install", "configure") /\ sys["gateway"] = "bare"
    \/ At("install", "block") /\ "bare" \in {sys["gateway"], sys["controller"]}
    \/ At("install", "checkProxmox") /\ ~ProxmoxOK
    \/ At("install", "installation") /\ app = "client" /\ ctl.key # "saved"
    \/ At("install", "checkGitHub") /\ ~GitHubOK
    \/ At("install", "clone") /\ template # "template"
    \/ At("install", "session") /\ ctl.session = "old"

GiveUp ==
    /\ Hopeless
    /\ cmd' = Ended
    /\ UNCHANGED <<hostVars, poolVars, guestVars, warned, faults>>

-----------------------------------------------------------------------------
(* uninstall *)

\* systemctl disable --now parcon.service.
StopController ==
    /\ Do("uninstall", "stop")
    /\ ctl' = [ctl EXCEPT !.service = FALSE, !.session = "none"]
    /\ UNCHANGED <<hostVars, poolVars, sys, blocks, scaleSet>>

\* parcon github scaleset delete, in the controller VM.
DeleteScaleSet ==
    /\ GitHubOK
    /\ Do("uninstall", "scaleSet")
    /\ scaleSet' = FALSE
    /\ UNCHANGED <<hostVars, poolVars, sys, blocks, ctl>>

\* Either of the two fails, or the deletion of a pool, which is only a warning; a controller without an App can't
\* reach GitHub.
OnlyWarns(step) ==
    /\ step \in {"stop", "scaleSet"} \cup (objs \cap {"runPool", "sysPool"})
    /\ At("uninstall", step)
    /\ IF step = "scaleSet" /\ ~GitHubOK THEN UNCHANGED faults ELSE Fault
    /\ cmd' = With([cmd EXCEPT !.hurt = TRUE], Rest)
    /\ warned' = warned \cup {step}
    /\ UNCHANGED <<hostVars, poolVars, guestVars>>

\* managedVMs, listed once the controller has stopped.
ListVMs ==
    /\ At("uninstall", "list")
    /\ cmd' = With([cmd EXCEPT !.vms = {x \in SystemVMs : sys[x] # "none"} \cup smoke
                                       \cup (IF worker THEN {"worker"} ELSE {})
                                       \cup (IF template # "none" THEN {"template"} ELSE {})], Rest)
    /\ UNCHANGED <<hostVars, poolVars, guestVars, warned, faults>>

DestroyOrder_Any(v) == TRUE

\* Clones before templates.
DestroyOrder(v) == v = "template" /\ template = "template" => cmd.vms = {"template"}

\* Proxmox refuses to destroy a template with linked clones.
HasClones == linked /\ (worker \/ smoke # {})

DestroyVM(v) ==
    /\ At("uninstall", "destroy") /\ v \in cmd.vms /\ DestroyOrder(v)
    /\ v = "template" => ~HasClones
    /\ cmd' = [cmd EXCEPT !.vms = @ \ {v}]
    /\ sys' = [x \in SystemVMs |-> IF x = v THEN "none" ELSE sys[x]]
    /\ ctl' = IF v = "controller" THEN NewController ELSE ctl
    /\ blocks' = (blocks /\ v # "gateway")
    /\ smoke' = smoke \ {v}
    /\ worker' = (worker /\ v # "worker")
    /\ template' = IF v = "template" THEN "none" ELSE template
    /\ UNCHANGED <<hostVars, linked, scaleSet, warned, faults>>

DestroyRefused(v) ==
    /\ At("uninstall", "destroy") /\ v \in cmd.vms /\ DestroyOrder(v)
    /\ v = "template" /\ HasClones
    /\ cmd' = Ended
    /\ UNCHANGED <<hostVars, poolVars, guestVars, warned, faults>>

AllDestroyed ==
    /\ cmd.vms = {}
    /\ Do("uninstall", "destroy")
    /\ UNCHANGED <<hostVars, poolVars, guestVars>>

\* The VMs in a pool.
Holds(pool) == IF pool = "sysPool" THEN \E x \in SystemVMs : sys[x] # "none"
               ELSE worker \/ smoke # {} \/ template # "none"

\* removeAccess's pools: one that isn't empty stays, with a warning.
RemovePool(pool) ==
    /\ pool \in {"sysPool", "runPool"}
    /\ At("uninstall", pool)
    /\ cmd' = With(cmd, Rest)
    /\ IF pool \in objs /\ Holds(pool)
       THEN warned' = warned \cup {pool} /\ UNCHANGED objs
       ELSE objs' = objs \ {pool} /\ UNCHANGED warned
    /\ UNCHANGED <<up, others, app, token, poolVars, guestVars, faults>>

\* The user's ACLs, the user and the role, the host's tuning, and parcon itself.
RemoveObject(o) ==
    /\ o \in {"acls", "user", "role", "tuning", "binary"}
    /\ Do("uninstall", o)
    /\ objs' = objs \ {o}
    /\ UNCHANGED <<up, others, app, token, poolVars, guestVars>>

RemoveToken ==
    /\ Do("uninstall", "token")
    /\ token' = FALSE
    /\ ctl' = Invalidated
    /\ UNCHANGED <<objs, up, others, app, poolVars, sys, blocks, scaleSet>>

\* removeNetwork's VNet and zone.
RemoveSDN(o) ==
    /\ o \in {"zone", "vnet"}
    /\ At("uninstall", o)
    /\ objs' = objs \ {o}
    /\ cmd' = With([cmd EXCEPT !.changed = @ \/ o \in objs], Rest)
    /\ UNCHANGED <<up, others, app, token, poolVars, guestVars, warned, faults>>

\* The SDN config is applied if something was removed and nobody else has changes that would be applied too.
UnapplySDN ==
    /\ At("uninstall", "unapply")
    /\ cmd' = With(cmd, Rest)
    /\ IF cmd.changed /\ ~others THEN AppliedSDN ELSE UNCHANGED <<up, others>>
    /\ warned' = warned \cup (IF cmd.changed /\ others THEN {"sdn"} ELSE {})
    /\ UNCHANGED <<objs, app, token, poolVars, guestVars, faults>>

RemoveSettings ==
    /\ Do("uninstall", "settings")
    /\ objs' = objs \ {"settings"}
    /\ app' = "none"
    /\ UNCHANGED <<up, others, token, poolVars, guestVars>>

-----------------------------------------------------------------------------
(* What else happens on the node *)

Serves == sys["controller"] \in Running /\ ctl.service /\ ProxmoxOK /\ GitHubOK /\ token

External == UNCHANGED <<cmd, warned>>

\* The controller registers its scale set and opens a session.
OpenSession ==
    /\ Serves /\ ctl.session = "none"
    /\ ctl' = [ctl EXCEPT !.session = "new"]
    /\ scaleSet' = TRUE
    /\ External /\ UNCHANGED <<hostVars, poolVars, sys, blocks, faults>>

SessionEnds ==
    /\ ctl.session # "none"
    /\ ctl' = [ctl EXCEPT !.session = "none"]
    /\ External /\ UNCHANGED <<hostVars, poolVars, sys, blocks, scaleSet, faults>>

\* The controller creates a worker, or destroys the last one.
WorkersChange ==
    /\ Serves /\ ctl.session # "none"
    /\ template = "template" /\ "runPool" \in objs
    /\ worker' = ~worker
    /\ External /\ UNCHANGED <<hostVars, template, smoke, linked, guestVars, faults>>

\* A system VM goes down, or is started again, while no command runs.
SystemVMStops(x) ==
    /\ cmd.pc # "run" /\ sys[x] = "up"
    /\ Fault
    /\ sys' = [sys EXCEPT ![x] = "off"]
    /\ ctl' = IF x = "controller" THEN [ctl EXCEPT !.session = "none"] ELSE ctl
    /\ External /\ UNCHANGED <<hostVars, poolVars, blocks, scaleSet>>

SystemVMStarts(x) ==
    /\ cmd.pc # "run" /\ sys[x] = "off"
    /\ sys' = [sys EXCEPT ![x] = "up"]
    /\ External /\ UNCHANGED <<hostVars, poolVars, blocks, ctl, scaleSet, faults>>

\* Somebody else changes the SDN config, or applies it.
OthersEdit ==
    /\ ~others /\ others' = TRUE
    /\ External /\ UNCHANGED <<objs, up, app, token, poolVars, guestVars, faults>>

OthersApply ==
    /\ others /\ AppliedSDN
    /\ External /\ UNCHANGED <<objs, app, token, poolVars, guestVars, faults>>

-----------------------------------------------------------------------------

InstallStep ==
    \/ \E o \in Objects : CreateObject(o) \/ CreateSDN(o)
    \/ SaveSettings \/ ApplySDN \/ Check("vnetUp", up)
    \/ ImportTemplate
    \/ \E x \in SystemVMs : BuildVM(x)
    \/ ConfigureGateway("configure", FALSE) \/ ConfigureGateway("block", TRUE)
    \/ PushConfig \/ EnsureToken \/ TestFails \/ AddToken \/ WriteSecret \/ Check("checkProxmox", ProxmoxOK)
    \/ SetupApp \/ SaveClient \/ WaitInstallation \/ SaveInstallation \/ Check("checkGitHub", GitHubOK)
    \/ StartController
    \/ DestroyBuildVMs \/ CloneSmokeTest \/ StartSmokeTest \/ CheckNetwork \/ NetworkBroken
    \/ Check("session", ctl.session = "new")
    \/ TagController
    \/ GiveUp \/ StopAfter

UninstallStep ==
    \/ StopController \/ DeleteScaleSet
    \/ \E step \in Steps : OnlyWarns(step)
    \/ ListVMs \/ AllDestroyed
    \/ \E v \in cmd.vms : DestroyVM(v) \/ DestroyRefused(v)
    \/ \E o \in Objects : RemovePool(o) \/ RemoveObject(o) \/ RemoveSDN(o)
    \/ RemoveToken \/ UnapplySDN \/ RemoveSettings

Next ==
    \/ StartInstall \/ StartUninstall
    \/ InstallStep \/ UninstallStep \/ Fail
    \/ OpenSession \/ SessionEnds \/ WorkersChange
    \/ \E x \in SystemVMs : SystemVMStops(x) \/ SystemVMStarts(x)
    \/ OthersEdit \/ OthersApply

Spec == Init /\ [][Next]_vars

-----------------------------------------------------------------------------
(* What the commands promise *)

\* Everything an install sets up is there, and fits together.
Complete ==
    /\ objs = Objects /\ up
    /\ template = "template" /\ "build" \notin smoke
    /\ \A x \in SystemVMs : sys[x] \in Running
    /\ blocks
    /\ token /\ ctl.secret = "current"
    /\ app = "installed" /\ ctl.config = app /\ ctl.key = "saved"
    /\ ctl.service /\ scaleSet

\* The release tag marks a finished install: when the controller VM gets it, everything is in place, however many
\* runs of install and uninstall stopped before, and wherever they did.
TagMeansComplete == [][~ctl.tag /\ ctl'.tag => Complete']_vars

\* The command fails though none of its calls did.
FailsUnhurt(kind) == cmd.kind = kind /\ cmd.pc = "run" /\ cmd'.pc = "failed" /\ ~cmd.hurt /\ faults' = faults

\* An install in which no call fails continues whatever earlier commands left and ends well, except after four
\* kinds of interruption: before the SDN config was applied, between a system VM's disk and its cloud-init drive,
\* with a secret or key in the controller VM that isn't the current one, and with a controller that already runs.
InstallContinues ==
    [][FailsUnhurt("install") =>
           \/ {"zone", "vnet"} \subseteq objs /\ ~up /\ ~cmd.changed
           \/ \E x \in SystemVMs : sys[x] = "bare"
           \/ ctl.secret = "stale" \/ (app # "none" /\ ctl.key # "saved")
           \/ ctl.service /\ ctl.session = "old"]_vars

\* An uninstall in which no call fails ends well, whatever earlier commands left.
UninstallContinues == [][~FailsUnhurt("uninstall")]_vars

\* After an uninstall that ended well nothing of an install is left in Proxmox or on the host, wherever earlier
\* commands stopped, but for pools that it said it leaves, and workers that a controller created which couldn't be
\* stopped. If nothing ever failed the pools and the scale set are gone too, and the VNet is down unless it was said
\* that the SDN config isn't applied.
UninstallRemoves ==
    cmd.pc = "done" /\ cmd.kind = "uninstall" =>
        /\ objs \subseteq {"runPool", "sysPool"} \cap warned
        /\ template = "none" /\ smoke = {} /\ ~token /\ app = "none"
        /\ \A x \in SystemVMs : sys[x] = "none"
        /\ worker => "stop" \in warned
        /\ faults = 0 => objs = {} /\ ~scaleSet /\ (up => "sdn" \in warned)

-----------------------------------------------------------------------------
(* What the repository says of the commands that doesn't hold *)

\* docs/install.md: "fix the cause and run `parcon install` again to continue from there". A run in which no call
\* fails would end well, whatever an earlier one left; createNetwork, for one, doesn't apply what it finds.
SecondInstallContinues == [][~FailsUnhurt("install")]_vars
=============================================================================
