----------------------------- MODULE HostTuning -----------------------------
(***************************************************************************)
(* The host tuning of a node that is itself a VM on KVM: the LAN NIC's     *)
(* offloads are turned off, and the node boots with no-kvm-apf. install    *)
(* and update tune it, uninstall takes it back; each may stop anywhere and *)
(* be run again.                                                           *)
(***************************************************************************)
EXTENDS Naturals, Sequences

CONSTANT
    MaxFaults    \* bound: commands that fail or are killed

ASSUME FaultAssumption == MaxFaults \in Nat

VARIABLES
    node,     \* how the node boots, see Nodes
    dropIn,   \* parcon's file in /etc/default/grub.d is there
    grubCfg,  \* /boot/grub/grub.cfg has no-kvm-apf
    cmdline,  \* /etc/kernel/cmdline has it
    esp,      \* the ESPs boot with it
    running,  \* the running kernel has it
    rule,     \* the udev rule is there
    off,      \* the NIC's offloads are off
    cmd,      \* the command: what is left of it, and how it ended
    warned,   \* an uninstall warned that it couldn't turn the offloads back on
    faults

bootVars == <<dropIn, grubCfg, cmdline, esp>>
nicVars  == <<rule, off>>
vars     == <<node, bootVars, nicVars, running, cmd, warned, faults>>

\* The boot loader in use, which settings files there are, its own among them, and whether
\* proxmox-boot-tool keeps ESPs in sync.
Nodes == {n \in [loader : {"grub", "systemd-boot"}, grub : BOOLEAN, cmdline : BOOLEAN, esps : BOOLEAN] :
             IF n.loader = "grub" THEN n.grub ELSE n.cmdline}

Steps == {"dropIn", "grub", "cmdline", "refresh", "rule", "off"}

\* Type correctness; a command that ended has nothing left to do.
TypeOK ==
    /\ node \in Nodes
    /\ <<dropIn, grubCfg, cmdline, esp, running, rule, off, warned>> \in [1..8 -> BOOLEAN]
    /\ cmd \in [kind : {"tune", "remove"}, pc : {"none", "run", "done", "failed"}, plan : Seq(Steps)]
    /\ cmd.pc = "run" <=> cmd.plan # <<>>
    /\ faults \in 0..MaxFaults

\* What the ESPs, or without them the boot loader, take the kernel command line from.
Source == IF node.loader = "grub" THEN grubCfg ELSE cmdline

\* The next boot has no-kvm-apf.
NextBoot == IF node.esps THEN esp ELSE Source

\* Nothing is tuned, except that the user may have put no-kvm-apf in /etc/kernel/cmdline.
Init ==
    /\ node \in Nodes
    /\ dropIn = FALSE /\ grubCfg = FALSE
    /\ cmdline \in BOOLEAN /\ (cmdline => node.cmdline)
    /\ esp = (node.loader = "systemd-boot" /\ cmdline)
    /\ running = NextBoot
    /\ rule = FALSE /\ off = FALSE
    /\ cmd = [kind |-> "remove", pc |-> "none", plan |-> <<>>]
    /\ warned = FALSE
    /\ faults = 0

-----------------------------------------------------------------------------
(* What a command does, from what it finds *)

When(condition, steps) == IF condition THEN steps ELSE <<>>

TuneOffloads_RuleIsEnough == When(~rule, <<"rule", "off">>)

\* Offloads and tuneOffloads.
TuneOffloads == When(~rule, <<"rule">>) \o When(~off, <<"off">>)

GrubPending_OnlyDropIn == node.grub /\ ~dropIn

\* AsyncPF: which of the two boot loaders' settings lack no-kvm-apf.
GrubPending == node.grub /\ (~dropIn \/ ~grubCfg)

CmdlinePending == node.cmdline /\ ~cmdline

TuneAsyncPF_RefreshFirst ==
    When(GrubPending, When(~dropIn, <<"dropIn">>) \o <<"grub">>)
    \o When((GrubPending \/ CmdlinePending) /\ node.esps, <<"refresh">>)
    \o When(CmdlinePending, <<"cmdline">>)

\* tuneAsyncPF.
TuneAsyncPF ==
    When(GrubPending, When(~dropIn, <<"dropIn">>) \o <<"grub">>)
    \o When(CmdlinePending, <<"cmdline">>)
    \o When((GrubPending \/ CmdlinePending) /\ node.esps, <<"refresh">>)

RemoveOffloads_RuleFirst == When(rule, <<"rule", "off">>)

\* removeOffloads: the rule, which says that there is something to undo, goes last.
RemoveOffloads == When(rule, <<"off", "rule">>)

RemoveAsyncPF_RefreshFirst ==
    When((dropIn \/ cmdline) /\ node.esps, <<"refresh">>)
    \o When(dropIn, <<"dropIn">> \o When(node.grub, <<"grub">>))
    \o When(cmdline, <<"cmdline">>)

\* removeAsyncPF.
RemoveAsyncPF ==
    When(dropIn, <<"dropIn">> \o When(node.grub, <<"grub">>))
    \o When(cmdline, <<"cmdline">>)
    \o When((dropIn \/ cmdline) /\ node.esps, <<"refresh">>)

\* A command starts; one with nothing to do has ended.
Begin(kind, plan) ==
    /\ cmd.pc # "run"
    /\ cmd' = [kind |-> kind, pc |-> IF plan = <<>> THEN "done" ELSE "run", plan |-> plan]
    /\ UNCHANGED <<node, bootVars, nicVars, running, warned, faults>>

\* The part of install and update that tunes the host. An update without --force runs it only if something is
\* pending, which comes to the same.
Tune == Begin("tune", TuneOffloads \o TuneAsyncPF)

\* The part of uninstall that takes the tuning back.
Remove == Begin("remove", RemoveOffloads \o RemoveAsyncPF)

Tuning == cmd.kind = "tune"

\* The command goes on after its next step.
Advance(step) ==
    /\ cmd.pc = "run" /\ Head(cmd.plan) = step
    /\ cmd' = [cmd EXCEPT !.plan = Tail(@), !.pc = IF Tail(cmd.plan) = <<>> THEN "done" ELSE @]

Do(step) == Advance(step) /\ UNCHANGED <<node, running, warned, faults>>

\* Write or remove the GRUB drop-in.
WriteDropIn == Do("dropIn") /\ dropIn' = Tuning /\ UNCHANGED <<grubCfg, cmdline, esp, nicVars>>

\* update-grub (external): grub.cfg follows the drop-ins.
UpdateGrub == Do("grub") /\ grubCfg' = dropIn /\ UNCHANGED <<dropIn, cmdline, esp, nicVars>>

\* editCmdline.
EditCmdline == Do("cmdline") /\ cmdline' = Tuning /\ UNCHANGED <<dropIn, grubCfg, esp, nicVars>>

\* proxmox-boot-tool refresh (external).
Refresh == Do("refresh") /\ esp' = Source /\ UNCHANGED <<dropIn, grubCfg, cmdline, nicVars>>

WriteRule == Do("rule") /\ rule' = Tuning /\ UNCHANGED <<bootVars, off>>

\* ethtool -K, off or on.
SwitchOffloads == Do("off") /\ off' = Tuning /\ UNCHANGED <<bootVars, rule>>

Fault == faults < MaxFaults /\ faults' = faults + 1

\* removeOffloads only warns when ethtool fails.
SwitchFails ==
    /\ Advance("off") /\ ~Tuning
    /\ Fault
    /\ warned' = TRUE
    /\ UNCHANGED <<node, bootVars, nicVars, running>>

\* A step fails, or the process is killed.
Fail ==
    /\ cmd.pc = "run"
    /\ Fault
    /\ cmd' = [cmd EXCEPT !.pc = "failed", !.plan = <<>>]
    /\ UNCHANGED <<node, bootVars, nicVars, running, warned>>

\* The node reboots: the kernel gets what the boot loader has, udev applies the rule.
Boot ==
    /\ cmd.pc # "run"
    /\ running' = NextBoot
    /\ off' = rule
    /\ UNCHANGED <<node, bootVars, rule, cmd, warned, faults>>

Next ==
    \/ Tune \/ Remove
    \/ WriteDropIn \/ UpdateGrub \/ EditCmdline \/ Refresh \/ WriteRule \/ SwitchOffloads
    \/ SwitchFails \/ Fail \/ Boot

Spec == Init /\ [][Next]_vars

-----------------------------------------------------------------------------
(* What the commands promise *)

Finished(kind) == cmd.pc = "done" /\ cmd.kind = kind

\* After an install or update that ended without an error the offloads are off, and stay so over any number of
\* reboots, wherever earlier ones stopped.
OffloadsTuned == Finished("tune") => rule /\ off

\* After an uninstall that ended without an error nothing turns the offloads off again, and they are on unless
\* it was said that they aren't: a first uninstall that stopped between ethtool and the rule leaves enough for the second.
OffloadsRestored == Finished("remove") => ~rule /\ (off => warned)

\* After an install or update that ended without an error the next boot has no-kvm-apf, whatever boot loader and
\* files the node has, and though earlier commands stopped anywhere. With ESPs that is so only if none stopped: one
\* that stopped before the refresh leaves settings that look complete to the next, and the ESPs as they were.
AsyncPFTuned == Finished("tune") /\ (node.esps => faults = 0) => NextBoot

\* After an uninstall that ended without an error the next boot hasn't no-kvm-apf, though earlier commands stopped
\* anywhere, if systemd-boot reads /etc/kernel/cmdline itself. With GRUB or ESPs that is so only if none stopped: an
\* uninstall that stopped before update-grub or the refresh isn't completed by the next.
AsyncPFRestored ==
    Finished("remove") /\ (node.loader = "grub" \/ node.esps => faults = 0) => ~NextBoot
=============================================================================
