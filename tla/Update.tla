------------------------------- MODULE Update -------------------------------
(***************************************************************************)
(* parcon update, parcon install of a newer release, and parcon config     *)
(* set and apply, on a node with a finished install: what they replace,    *)
(* in which order, and what they read before they take the lock.           *)
(*                                                                         *)
(* A command may be stopped or fail anywhere, and then be run again.       *)
(***************************************************************************)
EXTENDS Integers, Sequences

CONSTANTS
    Cmds,         \* parcon processes that may run at the same time
    None,         \* no process
    MaxRelease,   \* bound: releases are 1..MaxRelease
    Format,       \* the format of the controller's config, per release
    Keys, Values, \* the settings
    OldScripts,   \* whether the install.sh of a release that isn't the newest may be run
    MaxFaults,    \* bound: commands that are stopped, declined or fail
    MaxOutages    \* bound: the controller VM stops, the gateway VM is lost

Releases == 1..MaxRelease
Settings == [Keys -> Values]

ASSUME UpdateAssumption ==
    /\ None \notin Cmds
    /\ MaxRelease \in Nat \ {0}
    /\ Format \in [Releases -> Nat]
    /\ \A v, w \in Releases : v <= w => Format[v] <= Format[w]
    /\ Values # {}
    /\ OldScripts \in BOOLEAN
    /\ MaxFaults \in Nat /\ MaxOutages \in Nat

VARIABLES
    published,  \* the newest release on GitHub
    host,       \* on the host: /usr/local/bin/parcon, the settings file, and the tuning that is set
    images,     \* releases with a runner template, and the one imported last, which new workers get
    gw,         \* the gateway VM: how far it is, and its release tag
    ctl,        \* the controller VM: its parcon, its config, what parcon.service runs, its release tag
    lock,       \* /run/lock/parcon.lock
    cmd,        \* the parcon commands
    faults, outages

nodeVars == <<host, images, gw, ctl>>
vars     == <<published, nodeVars, lock, cmd, faults, outages>>

Tunings == {"offloads", "asyncPF"}
Config  == [settings : Settings, format : Nat]

\* RenderConfig: what release v makes of the settings.
Render(s, v) == [settings |-> s, format |-> Format[v]]

\* The steps of an upgrade and of config set and apply.
Steps == {"binary", "template", "find", "destroy", "create", "disk", "start", "configure",
          "upgrade", "push", "save", "restart", "apply", "tag"} \cup Tunings

\* A command. self is the release of the running parcon, to the release it found on GitHub, installed the release
\* tag it read, s the settings it loaded; script says that it runs from install.sh's download; keys is what a config
\* set changes; plan is what it still has to do.
Command == [pc : {"idle", "self", "replace", "exec", "plan", "lock", "run", "done", "failed"},
            kind : {"update", "set", "apply"}, self : Releases, to : Releases, installed : Releases,
            script : BOOLEAN, force : BOOLEAN, s : Settings, keys : SUBSET Keys, plan : Seq(Steps)]

\* Type correctness of the whole state; and the lock is held by the one command that changes the node, and by nobody
\* once that has ended, however it ended.
TypeOK ==
    /\ published \in Releases
    /\ host \in [bin : Releases, settings : Settings, tuned : SUBSET Tunings]
    /\ images \in [have : SUBSET Releases, newest : Releases]
    /\ gw \in [at : {"none", "created", "disk", "booted", "up"}, release : Releases]
    /\ ctl \in [up : BOOLEAN, bin : Releases, config : Config, tag : Releases,
                service : [bin : Releases, config : Config]]
    /\ lock \in Cmds \cup {None}
    /\ cmd \in [Cmds -> Command]
    /\ \A c \in Cmds : lock = c <=> cmd[c].pc \in {"replace", "run"}
    /\ faults \in 0..MaxFaults
    /\ outages \in 0..MaxOutages

\* A finished install of release 1, which may not have tuned the host.
Init ==
    /\ published = 1
    /\ \E s \in Settings, t \in SUBSET Tunings :
        /\ host = [bin |-> 1, settings |-> s, tuned |-> t]
        /\ ctl = [up |-> TRUE, bin |-> 1, config |-> Render(s, 1), tag |-> 1,
                  service |-> [bin |-> 1, config |-> Render(s, 1)]]
        /\ cmd = [c \in Cmds |-> [pc |-> "idle", kind |-> "apply", self |-> 1, to |-> 1, installed |-> 1,
                                  script |-> FALSE, force |-> FALSE, s |-> s, keys |-> {}, plan |-> <<>>]]
    /\ images = [have |-> {1}, newest |-> 1]
    /\ gw = [at |-> "up", release |-> 1]
    /\ lock = None
    /\ faults = 0 /\ outages = 0

-----------------------------------------------------------------------------
(* Starting a command: what it reads before it has the lock *)

Ended(c) == cmd[c].pc \in {"idle", "done", "failed"}

\* A new process in slot c.
Start(c, pc, kind, self, script, force, s, keys, plan) ==
    /\ Ended(c)
    /\ cmd' = [cmd EXCEPT ![c] = [pc |-> pc, kind |-> kind, self |-> self, to |-> published,
                                  installed |-> ctl.tag, script |-> script, force |-> force,
                                  s |-> s, keys |-> keys, plan |-> plan]]
    /\ UNCHANGED <<published, nodeVars, lock, faults, outages>>

\* parcon update [--force]: reads the installed release and looks for a newer one.
Update(c, force) ==
    Start(c, IF published > host.bin THEN "self" ELSE "plan", "update", host.bin, FALSE, force, host.settings,
          {}, <<>>)

\* install.sh of a release newer than the install. Install refuses an older one, or the same.
Install(c, v) ==
    /\ IF OldScripts THEN v <= published ELSE v = published
    /\ ctl.tag < v
    /\ Start(c, "plan", "update", v, TRUE, FALSE, host.settings, {}, <<>>)

\* parcon config set: loads the settings and sets the key; an unchanged value ends it.
SetConfig(c, k, x) ==
    Start(c, IF x = host.settings[k] THEN "done" ELSE "lock", "set", host.bin, FALSE, FALSE,
          [host.settings EXCEPT ![k] = x], {k}, IF x = host.settings[k] THEN <<>> ELSE <<"apply">>)

\* parcon config apply.
ApplyConfig(c) ==
    Start(c, "lock", "apply", host.bin, FALSE, FALSE, host.settings, {}, <<"apply">>)

When(condition, steps) == IF condition THEN steps ELSE <<>>

CreateSteps == <<"create", "disk", "start", "configure">>

GatewaySteps_NotForced(force, v) ==
    IF gw.at = "none" THEN <<"find">> \o CreateSteps
    ELSE When(gw.release # v, <<"destroy">> \o CreateSteps)

\* createGateway if there is no gateway VM, replaceGateway if it has another release's tag.
GatewaySteps(force, v) ==
    IF gw.at = "none" THEN <<"find">> \o CreateSteps
    ELSE When(force \/ gw.release # v, <<"destroy">> \o CreateSteps)

ControllerSteps_NoDrift(force, s, v) ==
    When(force \/ ctl.bin # v, <<"upgrade", "push", "restart">>)

\* The controller's parcon, and its config if that or the parcon differs.
ControllerSteps(force, s, v) ==
    LET binary == force \/ ctl.bin # v
    IN  When(binary, <<"upgrade">>) \o When(binary \/ ctl.config # Render(s, v), <<"push", "restart">>)

Pieces(c, s) ==
    LET m == cmd[c]
    IN  When(m.script /\ host.bin # m.self, <<"binary">>)
        \o When(m.force \/ m.self \notin images.have, <<"template">>)
        \o GatewaySteps(m.force, m.self)
        \o ControllerSteps(m.force, s, m.self)
        \o When(m.force \/ "offloads" \notin host.tuned, <<"offloads">>)
        \o When(m.force \/ "asyncPF" \notin host.tuned, <<"asyncPF">>)

UpgradeSteps_TagFirst(c, s) ==
    LET pieces == Pieces(c, s)
    IN  IF pieces = <<>> /\ ctl.tag = cmd[c].self THEN <<>> ELSE <<"tag">> \o pieces

\* upgradeSteps: the release tag goes on the controller last.
UpgradeSteps(c, s) ==
    LET pieces == Pieces(c, s)
    IN  IF pieces = <<>> /\ ctl.tag = cmd[c].self THEN <<>> ELSE Append(pieces, "tag")

\* Why Upgrade and upgradeSteps give up before they change anything.
Refuses(c) ==
    \/ cmd[c].installed > cmd[c].self
    \/ ~ctl.up
    \/ gw.at = "none" /\ ~cmd[c].force

\* Upgrade up to the question: plans from the node and the settings as they are now.
Plan(c) ==
    LET steps == UpgradeSteps(c, host.settings)
    IN  /\ cmd[c].pc = "plan"
        /\ cmd' = [cmd EXCEPT ![c].pc = IF Refuses(c) THEN "failed" ELSE IF steps = <<>> THEN "done" ELSE "lock",
                              ![c].s = host.settings,
                              ![c].plan = IF Refuses(c) THEN <<>> ELSE steps]
        /\ UNCHANGED <<published, nodeVars, lock, faults, outages>>

-----------------------------------------------------------------------------
(* The lock, and replacing the host's own parcon *)

\* Lock, once the question is answered: it doesn't wait for another holder.
Lock(c) ==
    /\ cmd[c].pc \in {"self", "lock"}
    /\ IF lock # None
       THEN cmd' = [cmd EXCEPT ![c].pc = "failed", ![c].plan = <<>>] /\ UNCHANGED lock
       ELSE /\ lock' = c
            /\ cmd' = [cmd EXCEPT ![c].pc = IF @ = "self" THEN "replace" ELSE "run"]
    /\ UNCHANGED <<published, nodeVars, faults, outages>>

ReplaceSelf_KeepsLock(c) ==
    /\ cmd[c].pc = "replace"
    /\ host' = [host EXCEPT !.bin = cmd[c].to]
    /\ cmd' = [cmd EXCEPT ![c].pc = "exec"]
    /\ UNCHANGED <<published, images, gw, ctl, lock, faults, outages>>

\* updateSelf: the verified parcon of the new release replaces the host's, and the lock goes.
ReplaceSelf(c) ==
    /\ cmd[c].pc = "replace"
    /\ host' = [host EXCEPT !.bin = cmd[c].to]
    /\ lock' = None
    /\ cmd' = [cmd EXCEPT ![c].pc = "exec"]
    /\ UNCHANGED <<published, images, gw, ctl, faults, outages>>

\* execBinary: whatever parcon is on the host now runs as update --continue, without looking for a release.
Exec(c) ==
    /\ cmd[c].pc = "exec"
    /\ cmd' = [cmd EXCEPT ![c].pc = "plan", ![c].self = host.bin, ![c].installed = ctl.tag]
    /\ UNCHANGED <<published, nodeVars, lock, faults, outages>>

-----------------------------------------------------------------------------
(* The steps of a plan, under the lock *)

GuestSteps == {"upgrade", "push", "restart"}

Accepts_Anything(c, step) == TRUE

\* The controller's parcon reads what this one renders: sameVersion before anything else of an apply, and its own
\* check of the config in pushConfig.
Accepts(c, step) ==
    /\ step = "apply" => ~ctl.up \/ ctl.bin = cmd[c].self
    /\ step = "push" => Format[cmd[c].self] <= Format[ctl.bin]

\* The calls of the next step can succeed: a VM is there and up, a VMID is free, a config is accepted.
Possible(c) ==
    LET step == Head(cmd[c].plan)
    IN  /\ step \in GuestSteps => ctl.up
        /\ Accepts(c, step)
        /\ step = "destroy" => gw.at # "none"
        /\ step = "create" => gw.at = "none"
        /\ step = "disk" => gw.at = "created"
        /\ step = "start" => gw.at = "disk"
        /\ step = "configure" => gw.at \in {"booted", "up"}

\* Command c does step, and goes on with rest; at the end of the plan it is done and unlocks.
Do(c, step, rest) ==
    /\ cmd[c].pc = "run" /\ Head(cmd[c].plan) = step /\ Possible(c)
    /\ cmd' = [cmd EXCEPT ![c].plan = rest, ![c].pc = IF rest = <<>> THEN "done" ELSE @]
    /\ lock' = IF rest = <<>> THEN None ELSE lock
    /\ UNCHANGED <<published, faults, outages>>

DoNext(c, step) == Do(c, step, Tail(cmd[c].plan))

InstallBinary(c) ==
    /\ DoNext(c, "binary")
    /\ host' = [host EXCEPT !.bin = cmd[c].self]
    /\ UNCHANGED <<images, gw, ctl>>

\* importTemplate, unless there is one of this release and it isn't forced.
ImportTemplate(c) ==
    /\ DoNext(c, "template")
    /\ images' = IF cmd[c].self \in images.have /\ ~cmd[c].force THEN images
                 ELSE [have |-> images.have \cup {cmd[c].self}, newest |-> cmd[c].self]
    /\ UNCHANGED <<host, gw, ctl>>

\* createGateway's existingSystemVM: a gateway that appeared since the plan. One without a disk is destroyed, another
\* one started and kept.
FindGateway(c) ==
    /\ IF gw.at \in {"none", "created"}
       THEN DoNext(c, "find") /\ gw' = [gw EXCEPT !.at = "none"]
       ELSE /\ Do(c, "find", SubSeq(cmd[c].plan, 1 + Len(CreateSteps), Len(cmd[c].plan)))
            /\ gw' = [gw EXCEPT !.at = IF @ = "disk" THEN "booted" ELSE @]
    /\ UNCHANGED <<host, images, ctl>>

\* replaceGateway: stop and destroy the old one.
DestroyGateway(c) ==
    /\ DoNext(c, "destroy")
    /\ gw' = [gw EXCEPT !.at = "none"]
    /\ UNCHANGED <<host, images, ctl>>

\* createSystemVM, one qm command after the other; the release tag comes with the first.
CreateVM(c) ==
    /\ DoNext(c, "create")
    /\ gw' = [at |-> "created", release |-> cmd[c].self]
    /\ UNCHANGED <<host, images, ctl>>

ImportDisk(c) ==
    /\ DoNext(c, "disk")
    /\ gw' = [gw EXCEPT !.at = "disk"]
    /\ UNCHANGED <<host, images, ctl>>

\* createSystemVM's last command, and waitBooted.
StartGateway(c) ==
    /\ DoNext(c, "start")
    /\ gw' = [gw EXCEPT !.at = "booted"]
    /\ UNCHANGED <<host, images, ctl>>

ConfigureGateway(c) ==
    /\ DoNext(c, "configure")
    /\ gw' = [gw EXCEPT !.at = "up"]
    /\ UNCHANGED <<host, images, ctl>>

UpgradeControllerBinary(c) ==
    /\ DoNext(c, "upgrade")
    /\ ctl' = [ctl EXCEPT !.bin = cmd[c].self]
    /\ UNCHANGED <<host, images, gw>>

\* pushConfig: the controller's own parcon must accept the new config.
PushConfig(c) ==
    /\ DoNext(c, "push")
    /\ ctl' = [ctl EXCEPT !.config = Render(cmd[c].s, cmd[c].self)]
    /\ UNCHANGED <<host, images, gw>>

\* What parcon.service runs once it is started again.
Started == [ctl EXCEPT !.service = [bin |-> ctl.bin, config |-> ctl.config]]

\* restartController's try-restart; waiting for the session may still fail.
RestartController(c) ==
    /\ DoNext(c, "restart")
    /\ ctl' = Started
    /\ UNCHANGED <<host, images, gw>>

\* tuneOffloads and tuneAsyncPF.
Tune(c, t) ==
    /\ DoNext(c, t)
    /\ host' = [host EXCEPT !.tuned = @ \cup {t}]
    /\ UNCHANGED <<images, gw, ctl>>

TagController(c) ==
    /\ DoNext(c, "tag")
    /\ ctl' = [ctl EXCEPT !.tag = cmd[c].self]
    /\ UNCHANGED <<host, images, gw>>

Apply_RestartsFirst(c) ==
    /\ Do(c, "apply", IF ctl.up THEN <<"restart", "push", "save">> ELSE <<"save">>)
    /\ UNCHANGED nodeVars

\* apply looks at the controller: without a running one, only the settings change.
Apply(c) ==
    /\ Do(c, "apply", IF ctl.up THEN <<"push", "save", "restart">> ELSE <<"save">>)
    /\ UNCHANGED nodeVars

SaveSettings(c) ==
    /\ DoNext(c, "save")
    /\ host' = [host EXCEPT !.settings = cmd[c].s]
    /\ UNCHANGED <<images, gw, ctl>>

\* The command ends early; the kernel or the deferred unlock frees the lock.
Stop(c) ==
    /\ cmd' = [cmd EXCEPT ![c].pc = "failed", ![c].plan = <<>>]
    /\ lock' = IF lock = c THEN None ELSE lock
    /\ UNCHANGED <<published, nodeVars, outages>>

\* The next step can't be done on this node.
Refused(c) ==
    /\ cmd[c].pc = "run" /\ ~Possible(c)
    /\ Stop(c)
    /\ UNCHANGED faults

\* A call fails, the user declines, or the process is killed.
Fail(c) ==
    /\ ~Ended(c)
    /\ faults < MaxFaults /\ faults' = faults + 1
    /\ Stop(c)

-----------------------------------------------------------------------------
(* The rest of the world *)

Publish ==
    /\ published < MaxRelease /\ published' = published + 1
    /\ UNCHANGED <<nodeVars, lock, cmd, faults, outages>>

\* The controller prunes templates that aren't the newest.
Prune(v) ==
    /\ v \in images.have \ {images.newest}
    /\ images' = [images EXCEPT !.have = @ \ {v}]
    /\ UNCHANGED <<published, host, gw, ctl, lock, cmd, faults, outages>>

Outage == outages < MaxOutages /\ outages' = outages + 1

ControllerStops ==
    /\ Outage
    /\ ctl.up /\ ctl' = [ctl EXCEPT !.up = FALSE]
    /\ UNCHANGED <<published, host, images, gw, lock, cmd, faults>>

\* Booting starts parcon.service from what is on disk.
ControllerStarts ==
    /\ ~ctl.up /\ ctl' = [Started EXCEPT !.up = TRUE]
    /\ UNCHANGED <<published, host, images, gw, lock, cmd, faults, outages>>

\* Someone deletes the gateway VM, while no command runs.
GatewayLost ==
    /\ Outage
    /\ \A c \in Cmds : Ended(c)
    /\ gw.at # "none" /\ gw' = [gw EXCEPT !.at = "none"]
    /\ UNCHANGED <<published, host, images, ctl, lock, cmd, faults>>

PlanStep(c) ==
    \/ InstallBinary(c) \/ ImportTemplate(c)
    \/ FindGateway(c) \/ DestroyGateway(c) \/ CreateVM(c) \/ ImportDisk(c) \/ StartGateway(c) \/ ConfigureGateway(c)
    \/ UpgradeControllerBinary(c) \/ PushConfig(c) \/ RestartController(c)
    \/ \E t \in Tunings : Tune(c, t)
    \/ TagController(c) \/ Apply(c) \/ SaveSettings(c)

CommandStep(c) ==
    \/ \E force \in BOOLEAN : Update(c, force)
    \/ \E v \in Releases : Install(c, v)
    \/ \E k \in Keys, x \in Values : SetConfig(c, k, x)
    \/ ApplyConfig(c)
    \/ Plan(c) \/ Lock(c) \/ ReplaceSelf(c) \/ Exec(c)
    \/ PlanStep(c) \/ Refused(c) \/ Fail(c)

Next ==
    \/ \E c \in Cmds : CommandStep(c)
    \/ Publish \/ ControllerStops \/ ControllerStarts \/ GatewayLost
    \/ \E v \in Releases : Prune(v)

Spec == Init /\ [][Next]_vars

-----------------------------------------------------------------------------
(* What the commands promise *)

\* Command c ends without an error.
Finishes(c) == cmd'[c] # cmd[c] /\ cmd'[c].pc = "done"

\* Every piece of the node is at command c's release, and the controller's config follows the settings.
AtItsRelease(c) ==
    LET v == cmd[c].self
    IN  /\ host.bin = v /\ host.tuned = Tunings
        /\ v \in images.have /\ images.newest = v
        /\ gw.at # "none" /\ gw.release = v
        /\ ctl.bin = v /\ ctl.config = Render(host.settings, v) /\ ctl.tag = v

\* An update that ends without an error has brought every piece to its release, wherever earlier ones stopped: the
\* checks of upgradeSteps, which skip what is done, together miss nothing that is on disk.
UpdateInstalls == [][\A c \in Cmds : Finishes(c) /\ cmd'[c].kind = "update" => AtItsRelease(c)']_vars

\* parcon.service runs the parcon and the config that are on the controller's disk.
ServiceCurrent == ctl.up => ctl.service = [bin |-> ctl.bin, config |-> ctl.config]

\* An update --force that ends without an error leaves a configured gateway and a service that runs what is on
\* disk, whatever stopped before it.
ForceRepairs ==
    [][\A c \in Cmds : Finishes(c) /\ cmd'[c].kind = "update" /\ cmd'[c].force
           => (gw.at = "up" /\ ServiceCurrent)']_vars

\* The release tag never promises more than there is: no piece is older than the tag, also while an update is
\* replacing them or after it stopped, so InstalledRelease can be trusted.
TagIsHonest ==
    /\ host.bin >= ctl.tag /\ ctl.bin >= ctl.tag
    /\ images.newest >= ctl.tag /\ images.newest \in images.have
    /\ gw.at # "none" => gw.release >= ctl.tag

\* The controller's parcon can read its config file at any time, so the controller VM may restart at any time: an
\* update puts the new parcon in place before the config only that one can read.
ConfigReadable == ctl.config.format <= Format[ctl.bin]

\* When config set or apply restarts parcon.service, it comes back with the settings that are on the host, those the
\* command sets included: however the config and the settings drifted apart before, and though they are
\* rendered, checked, written and saved by calls that may each be the last.
AppliedConfigRuns ==
    [][\A c \in Cmds : RestartController(c) /\ cmd[c].kind \in {"set", "apply"}
           => /\ ctl'.service.config = Render(host'.settings, cmd[c].self)
              /\ \A k \in cmd[c].keys : host'.settings[k] = cmd[c].s[k]]_vars

-----------------------------------------------------------------------------
(* What the repository says of the commands that doesn't hold *)

\* docs/install.md: running parcon update again continues an update that stopped; one that then ends without an
\* error would leave the service running the new release.
ContinuedUpdateRuns ==
    [][\A c \in Cmds : Finishes(c) /\ cmd'[c].kind = "update" => ServiceCurrent']_vars

\* docs/install.md: parcon config set changes a setting, the one it names; saving the settings would leave the
\* other keys as they are.
SetKeepsOtherKeys ==
    [][\A c \in Cmds : SaveSettings(c) => \A k \in Keys \ cmd[c].keys : host'.settings[k] = host.settings[k]]_vars
=============================================================================
