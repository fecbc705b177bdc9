-------------------------- MODULE HostTuningProofs --------------------------
(***************************************************************************)
(* Proofs that the host tuning and its removal keep their promises,        *)
(* wherever earlier commands stopped and however often the node reboots.   *)
(***************************************************************************)
EXTENDS HostTuning, Plans

\* The order of a command's steps.
Rank(kind) ==
    [s \in Steps |->
        CASE s = "rule"    -> IF kind = "tune" THEN 1 ELSE 2
          [] s = "off"     -> IF kind = "tune" THEN 2 ELSE 1
          [] s = "dropIn"  -> 3
          [] s = "grub"    -> 4
          [] s = "cmdline" -> 5
          [] s = "refresh" -> 6]

\* The command still has this step to do.
ToDo(step) == step \in Left(cmd.plan)

\* A command of this kind is running, or was the last and ended without an error.
Current(kind) == cmd.kind = kind /\ cmd.pc \in {"run", "done"}

\* The offloads: what isn't as the command wants it, it still has to do; and they are off only under the rule that
\* says so, or with a warning.
NicInv ==
    /\ off => rule \/ warned
    /\ Current("tune") => (rule \/ ToDo("rule")) /\ (off \/ ToDo("off"))
    /\ Current("remove") => (rule => ToDo("rule")) /\ (off => ToDo("off") \/ warned)

\* The boot settings, likewise; update-grub and the refresh come after whatever they must pick up.
BootInv ==
    /\ dropIn => node.grub
    /\ ToDo("grub") => node.grub
    /\ ToDo("dropIn") => ToDo("grub")
    /\ node.esps /\ (ToDo("grub") \/ ToDo("cmdline")) => ToDo("refresh")
    /\ Current("tune") =>
        /\ node.grub => (dropIn \/ ToDo("dropIn")) /\ (grubCfg \/ ToDo("grub"))
        /\ node.cmdline => cmdline \/ ToDo("cmdline")
    /\ Current("remove") => (dropIn => ToDo("dropIn")) /\ (cmdline => ToDo("cmdline"))

\* As long as no command stopped early, what is generated from the settings is up to date or about to be.
FreshInv ==
    faults = 0 => /\ ToDo("grub") \/ (grubCfg <=> dropIn)
                  /\ node.esps => ToDo("refresh") \/ (esp <=> Source)

PlanInv == Ordered(cmd.plan, Rank(cmd.kind))

HostInv == TypeOK /\ PlanInv /\ NicInv /\ BootInv /\ FreshInv

-----------------------------------------------------------------------------
(* Types *)

\* The rank of every step.
LEMMA Ranks ==
    ASSUME NEW kind
    PROVE  /\ Rank(kind) \in [Steps -> Int]
           /\ kind = "tune" => Rank(kind)["rule"] = 1 /\ Rank(kind)["off"] = 2
           /\ kind # "tune" => Rank(kind)["rule"] = 2 /\ Rank(kind)["off"] = 1
           /\ Rank(kind)["dropIn"] = 3 /\ Rank(kind)["grub"] = 4
           /\ Rank(kind)["cmdline"] = 5 /\ Rank(kind)["refresh"] = 6
BY DEF Rank, Steps

\* The Boolean state is kept as one tuple in the type invariant.
LEMMA EightBooleans ==
    ASSUME NEW a, NEW b, NEW c, NEW d, NEW e, NEW f, NEW g, NEW h
    PROVE  <<a, b, c, d, e, f, g, h>> \in [1..8 -> BOOLEAN]
             <=> /\ a \in BOOLEAN /\ b \in BOOLEAN /\ c \in BOOLEAN /\ d \in BOOLEAN
                 /\ e \in BOOLEAN /\ f \in BOOLEAN /\ g \in BOOLEAN /\ h \in BOOLEAN
<1> DEFINE t == <<a, b, c, d, e, f, g, h>>
<1>1. t[1] = a /\ t[2] = b /\ t[3] = c /\ t[4] = d /\ t[5] = e /\ t[6] = f /\ t[7] = g /\ t[8] = h  OBVIOUS
<1>2. t = [i \in 1..8 |-> t[i]]  OBVIOUS
<1> HIDE DEF t
<1>3. t \in [1..8 -> BOOLEAN] <=> \A i \in 1..8 : t[i] \in BOOLEAN  BY <1>2
<1>4. (\A i \in 1..8 : t[i] \in BOOLEAN)
        <=> /\ t[1] \in BOOLEAN /\ t[2] \in BOOLEAN /\ t[3] \in BOOLEAN /\ t[4] \in BOOLEAN
            /\ t[5] \in BOOLEAN /\ t[6] \in BOOLEAN /\ t[7] \in BOOLEAN /\ t[8] \in BOOLEAN
    <2>1. \A i \in 1..8 : i = 1 \/ i = 2 \/ i = 3 \/ i = 4 \/ i = 5 \/ i = 6 \/ i = 7 \/ i = 8  OBVIOUS
    <2>2. 1 \in 1..8 /\ 2 \in 1..8 /\ 3 \in 1..8 /\ 4 \in 1..8 /\ 5 \in 1..8 /\ 6 \in 1..8 /\ 7 \in 1..8 /\ 8 \in 1..8
        OBVIOUS
    <2> QED  BY <2>1, <2>2, Zenon
<1>5. t \in [1..8 -> BOOLEAN] <=>
            /\ a \in BOOLEAN /\ b \in BOOLEAN /\ c \in BOOLEAN /\ d \in BOOLEAN
            /\ e \in BOOLEAN /\ f \in BOOLEAN /\ g \in BOOLEAN /\ h \in BOOLEAN
    BY <1>1, <1>3, <1>4, Zenon
<1> QED  BY <1>5, Zenon DEF t

Commands == [kind : {"tune", "remove"}, pc : {"none", "run", "done", "failed"}, plan : Seq(Steps)]

\* The types of the single variables.
LEMMA TypeParts ==
    ASSUME TypeOK
    PROVE  /\ node \in Nodes /\ node.grub \in BOOLEAN /\ node.cmdline \in BOOLEAN /\ node.esps \in BOOLEAN
           /\ dropIn \in BOOLEAN /\ grubCfg \in BOOLEAN /\ cmdline \in BOOLEAN /\ esp \in BOOLEAN
           /\ running \in BOOLEAN /\ rule \in BOOLEAN /\ off \in BOOLEAN /\ warned \in BOOLEAN
           /\ faults \in Nat
<1>1. /\ dropIn \in BOOLEAN /\ grubCfg \in BOOLEAN /\ cmdline \in BOOLEAN /\ esp \in BOOLEAN
      /\ running \in BOOLEAN /\ rule \in BOOLEAN /\ off \in BOOLEAN /\ warned \in BOOLEAN
    BY EightBooleans DEF TypeOK
<1>2. node \in Nodes /\ node.grub \in BOOLEAN /\ node.cmdline \in BOOLEAN /\ node.esps \in BOOLEAN
    BY DEF TypeOK, Nodes
<1>3. faults \in Nat  BY FaultAssumption DEF TypeOK
<1> QED  BY <1>1, <1>2, <1>3

\* The fields of the command.
LEMMA CmdParts ==
    ASSUME TypeOK
    PROVE  /\ cmd \in Commands
           /\ cmd.kind \in {"tune", "remove"} /\ cmd.pc \in {"none", "run", "done", "failed"}
           /\ cmd.plan \in Seq(Steps) /\ Left(cmd.plan) \subseteq Steps
           /\ cmd.pc # "run" => \A x \in Steps : ~ToDo(x)
           /\ cmd.pc = "run" => cmd.plan # <<>>
<1>1. cmd \in Commands /\ (cmd.pc = "run" <=> cmd.plan # <<>>)  BY DEF TypeOK, Commands
<1>2. cmd.plan \in Seq(Steps)  BY <1>1 DEF Commands
<1>3. Left(cmd.plan) \subseteq Steps /\ (cmd.plan = <<>> <=> Left(cmd.plan) = {})  BY <1>2, LeftEmpty
<1> QED  BY <1>1, <1>2, <1>3 DEF ToDo, Commands

\* What the type invariant asks of the next state.
LEMMA NextType ==
    ASSUME /\ node' \in Nodes
           /\ dropIn' \in BOOLEAN /\ grubCfg' \in BOOLEAN /\ cmdline' \in BOOLEAN /\ esp' \in BOOLEAN
           /\ running' \in BOOLEAN /\ rule' \in BOOLEAN /\ off' \in BOOLEAN /\ warned' \in BOOLEAN
           /\ cmd' \in Commands
           /\ cmd'.pc = "run" <=> cmd'.plan # <<>>
           /\ faults' \in 0..MaxFaults
    PROVE  TypeOK'
<1>1. <<dropIn', grubCfg', cmdline', esp', running', rule', off', warned'>> \in [1..8 -> BOOLEAN]
    BY EightBooleans
<1> QED  BY <1>1, Zenon DEF TypeOK, Commands

-----------------------------------------------------------------------------
(* What a command plans *)

\* A conditional part of a plan.
LEMMA WhenLeft ==
    ASSUME NEW rank \in [Steps -> Int], NEW c \in BOOLEAN, NEW p \in Seq(Steps), Ordered(p, rank)
    PROVE  /\ When(c, p) \in Seq(Steps) /\ Ordered(When(c, p), rank)
           /\ Left(When(c, p)) = IF c THEN Left(p) ELSE {}
BY LeftNone DEF When

\* Two parts of a plan.
LEMMA Join ==
    ASSUME NEW rank \in [Steps -> Int],
           NEW p \in Seq(Steps), NEW q \in Seq(Steps), Ordered(p, rank), Ordered(q, rank),
           \A x \in Left(p), y \in Left(q) : rank[x] < rank[y]
    PROVE  p \o q \in Seq(Steps) /\ Ordered(p \o q, rank) /\ Left(p \o q) = Left(p) \cup Left(q)
<1>1. p \o q \in Seq(Steps)  OBVIOUS
<1>3. Left(p \o q) = Left(p) \cup Left(q)  BY LeftConcat, SMT
<1>2. Ordered(p, rank) /\ Ordered(q, rank) /\ (\A x \in Left(p), y \in Left(q) : rank[x] < rank[y])
      => Ordered(p \o q, rank)
    BY LeftConcat, Zenon
<1> QED  BY <1>1, <1>2, <1>3, Zenon

\* The steps of an install or update, in their order, from what it finds.
LEMMA TunePlan ==
    ASSUME TypeOK
    PROVE  LET p == TuneOffloads \o TuneAsyncPF IN
           /\ p \in Seq(Steps) /\ Ordered(p, Rank("tune"))
           /\ "rule" \in Left(p) <=> ~rule
           /\ "off" \in Left(p) <=> ~off
           /\ "dropIn" \in Left(p) <=> node.grub /\ ~dropIn
           /\ "grub" \in Left(p) <=> GrubPending
           /\ "cmdline" \in Left(p) <=> CmdlinePending
           /\ "refresh" \in Left(p) <=> (GrubPending \/ CmdlinePending) /\ node.esps
<1> DEFINE R == Rank("tune")
           pr == When(~rule, <<"rule">>)
           po == When(~off, <<"off">>)
           pd == When(~dropIn, <<"dropIn">>)
           pg == When(GrubPending, pd \o <<"grub">>)
           pc == When(CmdlinePending, <<"cmdline">>)
           pf == When((GrubPending \/ CmdlinePending) /\ node.esps, <<"refresh">>)
<1>1. /\ R \in [Steps -> Int] /\ R["rule"] = 1 /\ R["off"] = 2
      /\ R["dropIn"] = 3 /\ R["grub"] = 4 /\ R["cmdline"] = 5 /\ R["refresh"] = 6
    BY Ranks
<1> HIDE DEF R
<1>2. GrubPending \in BOOLEAN /\ CmdlinePending \in BOOLEAN /\ ((GrubPending \/ CmdlinePending) /\ node.esps) \in BOOLEAN
      /\ (~rule) \in BOOLEAN /\ (~off) \in BOOLEAN /\ (~dropIn) \in BOOLEAN
    BY TypeParts DEF GrubPending, CmdlinePending
<1>3. \A x \in Steps : <<x>> \in Seq(Steps) /\ Left(<<x>>) = {x} /\ Ordered(<<x>>, R)  BY <1>1, LeftOne
<1>4. /\ "rule" \in Steps /\ "off" \in Steps /\ "dropIn" \in Steps /\ "grub" \in Steps
      /\ "cmdline" \in Steps /\ "refresh" \in Steps
    BY DEF Steps
<1>5. pr \in Seq(Steps) /\ Ordered(pr, R) /\ Left(pr) = IF ~rule THEN {"rule"} ELSE {}
    BY <1>1, <1>2, <1>3, <1>4, WhenLeft
<1>6. po \in Seq(Steps) /\ Ordered(po, R) /\ Left(po) = IF ~off THEN {"off"} ELSE {}
    BY <1>1, <1>2, <1>3, <1>4, WhenLeft
<1>7. pd \in Seq(Steps) /\ Ordered(pd, R) /\ Left(pd) = IF ~dropIn THEN {"dropIn"} ELSE {}
    BY <1>1, <1>2, <1>3, <1>4, WhenLeft
<1>8. pd \o <<"grub">> \in Seq(Steps) /\ Ordered(pd \o <<"grub">>, R)
      /\ Left(pd \o <<"grub">>) = (IF ~dropIn THEN {"dropIn"} ELSE {}) \cup {"grub"}
    <2>0. <<"grub">> \in Seq(Steps) /\ Ordered(<<"grub">>, R) /\ Left(<<"grub">>) = {"grub"}  BY <1>3, <1>4
    <2>1. \A x \in Left(pd), y \in Left(<<"grub">>) : R[x] < R[y]  BY <1>1, <1>3, <1>4, <1>7
    <2>2. pd \o <<"grub">> \in Seq(Steps) /\ Ordered(pd \o <<"grub">>, R)
          /\ Left(pd \o <<"grub">>) = Left(pd) \cup Left(<<"grub">>)
        BY <2>0, <2>1, <1>1, <1>7, Join, Zenon
    <2> QED  BY <2>2, <1>3, <1>4, <1>7
<1>9. pg \in Seq(Steps) /\ Ordered(pg, R)
      /\ Left(pg) = IF GrubPending THEN (IF ~dropIn THEN {"dropIn"} ELSE {}) \cup {"grub"} ELSE {}
    BY <1>1, <1>2, <1>8, WhenLeft
<1>10. pc \in Seq(Steps) /\ Ordered(pc, R) /\ Left(pc) = IF CmdlinePending THEN {"cmdline"} ELSE {}
    BY <1>1, <1>2, <1>3, <1>4, WhenLeft
<1>11. pf \in Seq(Steps) /\ Ordered(pf, R)
       /\ Left(pf) = IF (GrubPending \/ CmdlinePending) /\ node.esps THEN {"refresh"} ELSE {}
    BY <1>1, <1>2, <1>3, <1>4, WhenLeft
<1>12. TuneOffloads = pr \o po /\ TuneAsyncPF = (pg \o pc) \o pf  BY DEF TuneOffloads, TuneAsyncPF
<1> HIDE DEF pr, po, pd, pg, pc, pf
<1>13. TuneOffloads \in Seq(Steps) /\ Ordered(TuneOffloads, R) /\ Left(TuneOffloads) = Left(pr) \cup Left(po)
    <2>1. \A x \in Left(pr), y \in Left(po) : R[x] < R[y]  BY <1>1, <1>5, <1>6
    <2>2. pr \o po \in Seq(Steps) /\ Ordered(pr \o po, R)
          /\ Left(pr \o po) = Left(pr) \cup Left(po)
        BY <2>1, <1>1, <1>5, <1>6, Join, Zenon
    <2> QED  BY <2>2, <1>12
<1>14. pg \o pc \in Seq(Steps) /\ Ordered(pg \o pc, R) /\ Left(pg \o pc) = Left(pg) \cup Left(pc)
    <2>1. \A x \in Left(pg), y \in Left(pc) : R[x] < R[y]  BY <1>1, <1>9, <1>10
    <2>2. pg \o pc \in Seq(Steps) /\ Ordered(pg \o pc, R)
          /\ Left(pg \o pc) = Left(pg) \cup Left(pc)
        BY <2>1, <1>1, <1>9, <1>10, Join, Zenon
    <2> QED  BY <2>2, Zenon
<1>15. TuneAsyncPF \in Seq(Steps) /\ Ordered(TuneAsyncPF, R)
       /\ Left(TuneAsyncPF) = (Left(pg) \cup Left(pc)) \cup Left(pf)
    <2>1. \A x \in Left(pg \o pc), y \in Left(pf) : R[x] < R[y]  BY <1>1, <1>9, <1>10, <1>11, <1>14
    <2>2. (pg \o pc) \o pf \in Seq(Steps) /\ Ordered((pg \o pc) \o pf, R)
          /\ Left((pg \o pc) \o pf) = Left(pg \o pc) \cup Left(pf)
        BY <2>1, <1>1, <1>11, <1>14, Join, Zenon
    <2> QED  BY <2>2, <1>12, <1>14
<1>16. LET p == TuneOffloads \o TuneAsyncPF IN
       p \in Seq(Steps) /\ Ordered(p, R)
       /\ Left(p) = Left(pr) \cup Left(po) \cup Left(pg) \cup Left(pc) \cup Left(pf)
    <2>1. \A x \in Left(TuneOffloads), y \in Left(TuneAsyncPF) : R[x] < R[y]  BY <1>1, <1>5, <1>6, <1>9, <1>10, <1>11, <1>13, <1>15
    <2>2. TuneOffloads \o TuneAsyncPF \in Seq(Steps) /\ Ordered(TuneOffloads \o TuneAsyncPF, R)
          /\ Left(TuneOffloads \o TuneAsyncPF) = Left(TuneOffloads) \cup Left(TuneAsyncPF)
        BY <2>1, <1>1, <1>13, <1>15, Join, Zenon
    <2> QED  BY <2>2, <1>13, <1>15
<1> QED  BY <1>5, <1>6, <1>9, <1>10, <1>11, <1>16, <1>2, TypeParts DEF GrubPending, R

\* The steps of an uninstall.
LEMMA RemovePlan ==
    ASSUME TypeOK
    PROVE  LET p == RemoveOffloads \o RemoveAsyncPF IN
           /\ p \in Seq(Steps) /\ Ordered(p, Rank("remove"))
           /\ "rule" \in Left(p) <=> rule
           /\ "off" \in Left(p) <=> rule
           /\ "dropIn" \in Left(p) <=> dropIn
           /\ "grub" \in Left(p) <=> dropIn /\ node.grub
           /\ "cmdline" \in Left(p) <=> cmdline
           /\ "refresh" \in Left(p) <=> (dropIn \/ cmdline) /\ node.esps
<1> DEFINE R == Rank("remove")
           po == When(rule, <<"off", "rule">>)
           pg == When(node.grub, <<"grub">>)
           pd == When(dropIn, <<"dropIn">> \o pg)
           pc == When(cmdline, <<"cmdline">>)
           pf == When((dropIn \/ cmdline) /\ node.esps, <<"refresh">>)
<1>1. /\ R \in [Steps -> Int] /\ R["rule"] = 2 /\ R["off"] = 1
      /\ R["dropIn"] = 3 /\ R["grub"] = 4 /\ R["cmdline"] = 5 /\ R["refresh"] = 6
    BY Ranks
<1> HIDE DEF R
<1>2. rule \in BOOLEAN /\ dropIn \in BOOLEAN /\ cmdline \in BOOLEAN /\ node.grub \in BOOLEAN
      /\ ((dropIn \/ cmdline) /\ node.esps) \in BOOLEAN
    BY TypeParts
<1>3. \A x \in Steps : <<x>> \in Seq(Steps) /\ Left(<<x>>) = {x} /\ Ordered(<<x>>, R)  BY <1>1, LeftOne
<1>4. /\ "rule" \in Steps /\ "off" \in Steps /\ "dropIn" \in Steps /\ "grub" \in Steps
      /\ "cmdline" \in Steps /\ "refresh" \in Steps
    BY DEF Steps
<1>5. <<"off", "rule">> \in Seq(Steps) /\ Ordered(<<"off", "rule">>, R) /\ Left(<<"off", "rule">>) = {"off", "rule"}
    BY <1>1, <1>4, LeftTwo
<1>6. po \in Seq(Steps) /\ Ordered(po, R) /\ Left(po) = IF rule THEN {"off", "rule"} ELSE {}
    BY <1>1, <1>2, <1>5, WhenLeft
<1>7. pg \in Seq(Steps) /\ Ordered(pg, R) /\ Left(pg) = IF node.grub THEN {"grub"} ELSE {}
    BY <1>1, <1>2, <1>3, <1>4, WhenLeft
<1>8. <<"dropIn">> \o pg \in Seq(Steps) /\ Ordered(<<"dropIn">> \o pg, R)
      /\ Left(<<"dropIn">> \o pg) = {"dropIn"} \cup (IF node.grub THEN {"grub"} ELSE {})
    <2>1. <<"dropIn">> \in Seq(Steps) /\ Ordered(<<"dropIn">>, R) /\ Left(<<"dropIn">>) = {"dropIn"}  BY <1>3, <1>4
    <2>2. \A x \in Left(<<"dropIn">>), y \in Left(pg) : R[x] < R[y]  BY <1>1, <1>7, <2>1
    <2>3. <<"dropIn">> \o pg \in Seq(Steps) /\ Ordered(<<"dropIn">> \o pg, R)
          /\ Left(<<"dropIn">> \o pg) = Left(<<"dropIn">>) \cup Left(pg)
        BY <1>1, <1>7, <2>1, <2>2, Join, Zenon
    <2> QED  BY <1>7, <2>1, <2>3
<1>9. pd \in Seq(Steps) /\ Ordered(pd, R)
      /\ Left(pd) = IF dropIn THEN {"dropIn"} \cup (IF node.grub THEN {"grub"} ELSE {}) ELSE {}
    BY <1>1, <1>2, <1>8, WhenLeft
<1>10. pc \in Seq(Steps) /\ Ordered(pc, R) /\ Left(pc) = IF cmdline THEN {"cmdline"} ELSE {}
    BY <1>1, <1>2, <1>3, <1>4, WhenLeft
<1>11. pf \in Seq(Steps) /\ Ordered(pf, R)
       /\ Left(pf) = IF (dropIn \/ cmdline) /\ node.esps THEN {"refresh"} ELSE {}
    BY <1>1, <1>2, <1>3, <1>4, WhenLeft
<1>12. RemoveOffloads = po /\ RemoveAsyncPF = (pd \o pc) \o pf  BY DEF RemoveOffloads, RemoveAsyncPF
<1> HIDE DEF po, pd, pg, pc, pf
<1>13. pd \o pc \in Seq(Steps) /\ Ordered(pd \o pc, R) /\ Left(pd \o pc) = Left(pd) \cup Left(pc)
    <2>1. \A x \in Left(pd), y \in Left(pc) : R[x] < R[y]  BY <1>1, <1>9, <1>10
    <2> QED  BY <2>1, <1>1, <1>9, <1>10, Join, Zenon
<1>14. RemoveAsyncPF \in Seq(Steps) /\ Ordered(RemoveAsyncPF, R)
       /\ Left(RemoveAsyncPF) = (Left(pd) \cup Left(pc)) \cup Left(pf)
    <2>1. \A x \in Left(pd \o pc), y \in Left(pf) : R[x] < R[y]  BY <1>1, <1>9, <1>10, <1>11, <1>13
    <2>2. (pd \o pc) \o pf \in Seq(Steps) /\ Ordered((pd \o pc) \o pf, R)
          /\ Left((pd \o pc) \o pf) = Left(pd \o pc) \cup Left(pf)
        BY <2>1, <1>1, <1>11, <1>13, Join, Zenon
    <2> QED  BY <2>2, <1>12, <1>13
<1>15. LET p == RemoveOffloads \o RemoveAsyncPF IN
       p \in Seq(Steps) /\ Ordered(p, R)
       /\ Left(p) = Left(po) \cup Left(pd) \cup Left(pc) \cup Left(pf)
    <2>1. \A x \in Left(RemoveOffloads), y \in Left(RemoveAsyncPF) : R[x] < R[y]
        <3>1. \A x \in Left(RemoveOffloads) : x = "off" \/ x = "rule"  BY <1>6, <1>12
        <3>2. \A y \in Left(RemoveAsyncPF) : y \in {"dropIn", "grub", "cmdline", "refresh"}
            BY <1>9, <1>10, <1>11, <1>14
        <3> QED  BY <1>1, <3>1, <3>2
    <2>2. RemoveOffloads \in Seq(Steps) /\ Ordered(RemoveOffloads, R)  BY <1>6, <1>12
    <2>3. RemoveOffloads \o RemoveAsyncPF \in Seq(Steps) /\ Ordered(RemoveOffloads \o RemoveAsyncPF, R)
          /\ Left(RemoveOffloads \o RemoveAsyncPF) = Left(RemoveOffloads) \cup Left(RemoveAsyncPF)
        BY <2>1, <2>2, <1>1, <1>14, Join, Zenon
    <2> QED  BY <2>3, <1>12, <1>14
<1> QED  BY <1>6, <1>9, <1>10, <1>11, <1>15, <1>2, TypeParts DEF R

-----------------------------------------------------------------------------
(* Steps of a command *)

\* A step is the first of those that are left, and is then done.
LEMMA AdvanceStep ==
    ASSUME TypeOK, PlanInv, NEW step \in Steps, Advance(step)
    PROVE  /\ cmd' \in Commands /\ (cmd'.pc = "run" <=> cmd'.plan # <<>>)
           /\ PlanInv'
           /\ cmd'.kind = cmd.kind /\ cmd.pc = "run" /\ cmd'.pc \in {"run", "done"}
           /\ ToDo(step)
           /\ \A x : ToDo(x)' <=> ToDo(x) /\ x # step
           /\ \A x \in Steps : ToDo(x) => x = step \/ Rank(cmd.kind)[step] < Rank(cmd.kind)[x]
<1> DEFINE R == Rank(cmd.kind)
<1>1. cmd \in Commands /\ cmd.plan \in Seq(Steps) /\ cmd.plan # <<>> /\ Head(cmd.plan) = step /\ cmd.pc = "run"
    BY CmdParts DEF Advance
<1>2. R \in [Steps -> Int] /\ Ordered(cmd.plan, R)  BY Ranks DEF PlanInv
<1>3. cmd' = [cmd EXCEPT !.plan = Tail(cmd.plan), !.pc = IF Tail(cmd.plan) = <<>> THEN "done" ELSE cmd.pc]
    BY DEF Advance
<1> HIDE DEF R
<1>4. /\ Tail(cmd.plan) \in Seq(Steps) /\ Ordered(Tail(cmd.plan), R)
      /\ Head(cmd.plan) \in Left(cmd.plan)
      /\ Left(Tail(cmd.plan)) = Left(cmd.plan) \ {Head(cmd.plan)}
      /\ \A x \in Left(cmd.plan) : x = Head(cmd.plan) \/ R[Head(cmd.plan)] < R[x]
    BY <1>1, <1>2, LeftTail
<1>5. /\ cmd' \in Commands /\ cmd'.kind = cmd.kind /\ cmd'.plan = Tail(cmd.plan)
      /\ cmd'.pc = IF Tail(cmd.plan) = <<>> THEN "done" ELSE "run"
    BY <1>1, <1>3, <1>4 DEF Commands
<1>6. PlanInv'  BY <1>4, <1>5 DEF PlanInv, R
<1>7. \A x : ToDo(x)' <=> ToDo(x) /\ x # step  BY <1>1, <1>4, <1>5 DEF ToDo
<1>8. \A x \in Steps : ToDo(x) => x = step \/ R[step] < R[x]  BY <1>1, <1>4 DEF ToDo
<1>9. ToDo(step)  BY <1>1, <1>4 DEF ToDo
<1>10. (cmd'.pc = "run" <=> cmd'.plan # <<>>) /\ cmd'.pc \in {"run", "done"}  BY <1>5
<1> QED  BY <1>1, <1>5, <1>6, <1>7, <1>8, <1>9, <1>10 DEF R

\* The types after a step that changes one of the settings.
LEMMA DoType ==
    ASSUME TypeOK, PlanInv, NEW step \in Steps, Advance(step), UNCHANGED <<node, running>>,
           faults' \in 0..MaxFaults, warned' \in BOOLEAN,
           dropIn' \in BOOLEAN, grubCfg' \in BOOLEAN, cmdline' \in BOOLEAN, esp' \in BOOLEAN,
           rule' \in BOOLEAN, off' \in BOOLEAN
    PROVE  TypeOK'
<1>1. cmd' \in Commands /\ (cmd'.pc = "run" <=> cmd'.plan # <<>>)  BY AdvanceStep
<1>2. node' \in Nodes /\ running' \in BOOLEAN  BY TypeParts
<1> QED  BY <1>1, <1>2, NextType

\* The facts about the plan that each step uses.
PlanStep(step) ==
    /\ ToDo(step) /\ cmd'.kind = cmd.kind
    /\ \A kind \in {"tune", "remove"} : (Current(kind) <=> cmd.kind = kind) /\ (Current(kind)' <=> cmd.kind = kind)
    /\ \A x \in Steps : ToDo(x)' <=> ToDo(x) /\ x # step
    /\ "dropIn" \in Steps /\ "grub" \in Steps /\ "cmdline" \in Steps /\ "refresh" \in Steps
    /\ "rule" \in Steps /\ "off" \in Steps
    /\ step = "grub" => ~ToDo("dropIn")
    /\ step = "refresh" => ~ToDo("grub") /\ ~ToDo("cmdline") /\ ~ToDo("dropIn")
    /\ step = "off" /\ cmd.kind = "tune" => ~ToDo("rule")
    /\ step = "rule" /\ cmd.kind = "remove" => ~ToDo("off")
    /\ cmd.kind \in {"tune", "remove"}

LEMMA Planned ==
    ASSUME TypeOK, PlanInv, NEW step \in Steps, Advance(step)
    PROVE  PlanStep(step) /\ PlanInv'
<1>1. /\ cmd'.kind = cmd.kind /\ cmd.pc = "run" /\ cmd'.pc \in {"run", "done"} /\ PlanInv'
      /\ ToDo(step)
      /\ \A x : ToDo(x)' <=> ToDo(x) /\ x # step
      /\ \A x \in Steps : ToDo(x) => x = step \/ Rank(cmd.kind)[step] < Rank(cmd.kind)[x]
    BY AdvanceStep
<1>2. cmd.kind \in {"tune", "remove"}  BY CmdParts
<1>3. \A kind \in {"tune", "remove"} : (Current(kind) <=> cmd.kind = kind) /\ (Current(kind)' <=> cmd.kind = kind)
    BY <1>1 DEF Current
<1>4. /\ "dropIn" \in Steps /\ "grub" \in Steps /\ "cmdline" \in Steps /\ "refresh" \in Steps
      /\ "rule" \in Steps /\ "off" \in Steps
    BY DEF Steps
<1>5. /\ step = "grub" => ~ToDo("dropIn")
      /\ step = "refresh" => ~ToDo("grub") /\ ~ToDo("cmdline") /\ ~ToDo("dropIn")
      /\ step = "off" /\ cmd.kind = "tune" => ~ToDo("rule")
      /\ step = "rule" /\ cmd.kind = "remove" => ~ToDo("off")
    BY <1>1, <1>2, <1>4, Ranks
<1> QED  BY <1>1, <1>2, <1>3, <1>4, <1>5 DEF PlanStep

\* Writing or removing the drop-in: update-grub and the refresh follow.
LEMMA WriteDropInInv ==
    ASSUME HostInv, WriteDropIn
    PROVE  HostInv'
<1>1. "dropIn" \in Steps /\ Advance("dropIn")  BY DEF WriteDropIn, Do, Steps
<1>2. PlanStep("dropIn") /\ PlanInv'  BY <1>1, Planned DEF HostInv
<1>3. TypeOK'  BY <1>1, TypeParts, DoType DEF HostInv, WriteDropIn, Do, TypeOK, nicVars, Tuning
<1>4. NicInv'  BY <1>2 DEF HostInv, NicInv, WriteDropIn, Do, PlanStep, nicVars
<1>5. BootInv'  BY <1>2, TypeParts DEF HostInv, BootInv, WriteDropIn, Do, PlanStep, Tuning
<1>6. FreshInv'  BY <1>2 DEF HostInv, BootInv, FreshInv, WriteDropIn, Do, PlanStep, Source
<1> QED  BY <1>2, <1>3, <1>4, <1>5, <1>6 DEF HostInv

\* update-grub runs when the drop-in is as the command wants it.
LEMMA UpdateGrubInv ==
    ASSUME HostInv, UpdateGrub
    PROVE  HostInv'
<1>1. "grub" \in Steps /\ Advance("grub")  BY DEF UpdateGrub, Do, Steps
<1>2. PlanStep("grub") /\ PlanInv'  BY <1>1, Planned DEF HostInv
<1>3. TypeOK'  BY <1>1, TypeParts, DoType DEF HostInv, UpdateGrub, Do, TypeOK, nicVars
<1>4. NicInv'  BY <1>2 DEF HostInv, NicInv, UpdateGrub, Do, PlanStep, nicVars
<1>5. BootInv'  BY <1>2, TypeParts DEF HostInv, BootInv, UpdateGrub, Do, PlanStep
<1>6. FreshInv'  BY <1>2, TypeParts DEF HostInv, BootInv, FreshInv, UpdateGrub, Do, PlanStep, Source
<1> QED  BY <1>2, <1>3, <1>4, <1>5, <1>6 DEF HostInv

\* Editing /etc/kernel/cmdline: the refresh follows.
LEMMA EditCmdlineInv ==
    ASSUME HostInv, EditCmdline
    PROVE  HostInv'
<1>1. "cmdline" \in Steps /\ Advance("cmdline")  BY DEF EditCmdline, Do, Steps
<1>2. PlanStep("cmdline") /\ PlanInv'  BY <1>1, Planned DEF HostInv
<1>3. TypeOK'  BY <1>1, TypeParts, DoType DEF HostInv, EditCmdline, Do, TypeOK, nicVars, Tuning
<1>4. NicInv'  BY <1>2 DEF HostInv, NicInv, EditCmdline, Do, PlanStep, nicVars
<1>5. BootInv'  BY <1>2, TypeParts DEF HostInv, BootInv, EditCmdline, Do, PlanStep, Tuning
<1>6. FreshInv'  BY <1>2, TypeParts DEF HostInv, BootInv, FreshInv, EditCmdline, Do, PlanStep, Source
<1> QED  BY <1>2, <1>3, <1>4, <1>5, <1>6 DEF HostInv

\* The refresh is the last step.
LEMMA RefreshInv ==
    ASSUME HostInv, Refresh
    PROVE  HostInv'
<1>1. "refresh" \in Steps /\ Advance("refresh")  BY DEF Refresh, Do, Steps
<1>2. PlanStep("refresh") /\ PlanInv'  BY <1>1, Planned DEF HostInv
<1>3. TypeOK'  BY <1>1, TypeParts, DoType DEF HostInv, Refresh, Do, TypeOK, nicVars, Source
<1>4. NicInv'  BY <1>2 DEF HostInv, NicInv, Refresh, Do, PlanStep, nicVars
<1>5. BootInv'  BY <1>2, TypeParts DEF HostInv, BootInv, Refresh, Do, PlanStep
<1>6. FreshInv'  BY <1>2, TypeParts DEF HostInv, BootInv, FreshInv, Refresh, Do, PlanStep, Source
<1> QED  BY <1>2, <1>3, <1>4, <1>5, <1>6 DEF HostInv

\* The udev rule: an uninstall removes it after it turned the offloads on, or warned.
LEMMA WriteRuleInv ==
    ASSUME HostInv, WriteRule
    PROVE  HostInv'
<1>1. "rule" \in Steps /\ Advance("rule")  BY DEF WriteRule, Do, Steps
<1>2. PlanStep("rule") /\ PlanInv'  BY <1>1, Planned DEF HostInv
<1>3. TypeOK'  BY <1>1, TypeParts, DoType DEF HostInv, WriteRule, Do, TypeOK, bootVars, Tuning
<1>4. NicInv'  BY <1>2, TypeParts DEF HostInv, NicInv, WriteRule, Do, PlanStep, Tuning
<1>5. BootInv'  BY <1>2, TypeParts DEF HostInv, BootInv, WriteRule, Do, PlanStep, bootVars
<1>6. FreshInv'  BY <1>2, TypeParts DEF HostInv, FreshInv, WriteRule, Do, PlanStep, Source, bootVars
<1> QED  BY <1>2, <1>3, <1>4, <1>5, <1>6 DEF HostInv

\* ethtool: an install turns the offloads off under the rule.
LEMMA SwitchOffloadsInv ==
    ASSUME HostInv, SwitchOffloads
    PROVE  HostInv'
<1>1. "off" \in Steps /\ Advance("off")  BY DEF SwitchOffloads, Do, Steps
<1>2. PlanStep("off") /\ PlanInv'  BY <1>1, Planned DEF HostInv
<1>3. TypeOK'  BY <1>1, TypeParts, DoType DEF HostInv, SwitchOffloads, Do, TypeOK, bootVars, Tuning
<1>4. NicInv'  BY <1>2, TypeParts DEF HostInv, NicInv, SwitchOffloads, Do, PlanStep, Tuning
<1>5. BootInv'  BY <1>2, TypeParts DEF HostInv, BootInv, SwitchOffloads, Do, PlanStep, bootVars
<1>6. FreshInv'  BY <1>2, TypeParts DEF HostInv, FreshInv, SwitchOffloads, Do, PlanStep, Source, bootVars
<1> QED  BY <1>2, <1>3, <1>4, <1>5, <1>6 DEF HostInv

\* ethtool fails under an uninstall, which warns and goes on.
LEMMA SwitchFailsInv ==
    ASSUME HostInv, SwitchFails
    PROVE  HostInv'
<1>1. "off" \in Steps /\ Advance("off")  BY DEF SwitchFails, Steps
<1>2. PlanStep("off") /\ PlanInv'  BY <1>1, Planned DEF HostInv
<1>3. faults' \in 0..MaxFaults /\ faults' # 0  BY FaultAssumption DEF HostInv, TypeOK, SwitchFails, Fault
<1>4. TypeOK'  BY <1>1, <1>3, TypeParts, DoType DEF HostInv, SwitchFails, bootVars, nicVars
<1>5. NicInv'  BY <1>2, TypeParts DEF HostInv, NicInv, SwitchFails, PlanStep, Tuning, nicVars
<1>6. BootInv'  BY <1>2, TypeParts DEF HostInv, BootInv, SwitchFails, PlanStep, bootVars
<1>7. FreshInv'  BY <1>3 DEF FreshInv
<1> QED  BY <1>2, <1>4, <1>5, <1>6, <1>7 DEF HostInv

-----------------------------------------------------------------------------
(* A command begins, or stops early; the node reboots *)

\* A command begins with the plan it made, and nothing has changed yet.
LEMMA Begun ==
    ASSUME TypeOK, NEW kind \in {"tune", "remove"}, NEW plan \in Seq(Steps), Ordered(plan, Rank(kind)), Begin(kind, plan)
    PROVE  /\ TypeOK' /\ PlanInv'
           /\ \A x \in Steps : ~ToDo(x)
           /\ \A x : ToDo(x)' <=> x \in Left(plan)
           /\ \A k : Current(k)' <=> k = kind
           /\ UNCHANGED <<node, dropIn, grubCfg, cmdline, esp, running, rule, off, warned, faults>>
<1>1. cmd' = [kind |-> kind, pc |-> IF plan = <<>> THEN "done" ELSE "run", plan |-> plan]  BY DEF Begin
<1>2. /\ cmd' \in Commands /\ cmd'.kind = kind /\ cmd'.plan = plan /\ cmd'.pc \in {"run", "done"}
      /\ (cmd'.pc = "run" <=> cmd'.plan # <<>>)
    BY <1>1 DEF Commands
<1>3. UNCHANGED <<node, dropIn, grubCfg, cmdline, esp, running, rule, off, warned, faults>>
    BY DEF Begin, bootVars, nicVars
<1>4. faults' \in 0..MaxFaults  BY <1>3 DEF TypeOK
<1>5. TypeOK'  BY <1>2, <1>3, <1>4, TypeParts, NextType
<1>6. \A x \in Steps : ~ToDo(x)  BY CmdParts DEF Begin
<1> QED  BY <1>2, <1>3, <1>5, <1>6 DEF PlanInv, ToDo, Current

\* An install or update begins.
LEMMA TuneInv ==
    ASSUME HostInv, Tune
    PROVE  HostInv'
<1> DEFINE p == TuneOffloads \o TuneAsyncPF
<1>1. /\ p \in Seq(Steps) /\ Ordered(p, Rank("tune"))
      /\ "rule" \in Left(p) <=> ~rule
      /\ "off" \in Left(p) <=> ~off
      /\ "dropIn" \in Left(p) <=> node.grub /\ ~dropIn
      /\ "grub" \in Left(p) <=> GrubPending
      /\ "cmdline" \in Left(p) <=> CmdlinePending
      /\ "refresh" \in Left(p) <=> (GrubPending \/ CmdlinePending) /\ node.esps
    BY TunePlan DEF HostInv
<1>2. Begin("tune", p)  BY DEF Tune
<1> HIDE DEF p
<1>3. /\ TypeOK' /\ PlanInv'
      /\ \A x \in Steps : ~ToDo(x)
      /\ \A x : ToDo(x)' <=> x \in Left(p)
      /\ \A k : Current(k)' <=> k = "tune"
      /\ UNCHANGED <<node, dropIn, grubCfg, cmdline, esp, running, rule, off, warned, faults>>
    BY <1>1, <1>2, Begun DEF HostInv
<1>4. NicInv'  BY <1>1, <1>3 DEF HostInv, NicInv
<1>5. BootInv'  BY <1>1, <1>3 DEF HostInv, BootInv, GrubPending, CmdlinePending
<1>6. FreshInv'  BY <1>3 DEF HostInv, FreshInv, Source, Steps
<1> QED  BY <1>3, <1>4, <1>5, <1>6 DEF HostInv

\* An uninstall begins.
LEMMA RemoveInv ==
    ASSUME HostInv, Remove
    PROVE  HostInv'
<1> DEFINE p == RemoveOffloads \o RemoveAsyncPF
<1>1. /\ p \in Seq(Steps) /\ Ordered(p, Rank("remove"))
      /\ "rule" \in Left(p) <=> rule
      /\ "off" \in Left(p) <=> rule
      /\ "dropIn" \in Left(p) <=> dropIn
      /\ "grub" \in Left(p) <=> dropIn /\ node.grub
      /\ "cmdline" \in Left(p) <=> cmdline
      /\ "refresh" \in Left(p) <=> (dropIn \/ cmdline) /\ node.esps
    BY RemovePlan DEF HostInv
<1>2. Begin("remove", p)  BY DEF Remove
<1> HIDE DEF p
<1>3. /\ TypeOK' /\ PlanInv'
      /\ \A x \in Steps : ~ToDo(x)
      /\ \A x : ToDo(x)' <=> x \in Left(p)
      /\ \A k : Current(k)' <=> k = "remove"
      /\ UNCHANGED <<node, dropIn, grubCfg, cmdline, esp, running, rule, off, warned, faults>>
    BY <1>1, <1>2, Begun DEF HostInv
<1>4. NicInv'  BY <1>1, <1>3 DEF HostInv, NicInv
<1>5. BootInv'  BY <1>1, <1>3 DEF HostInv, BootInv
<1>6. FreshInv'  BY <1>3 DEF HostInv, FreshInv, Source, Steps
<1> QED  BY <1>3, <1>4, <1>5, <1>6 DEF HostInv

\* A command stops early, and leaves what it had done.
LEMMA FailInv ==
    ASSUME HostInv, Fail
    PROVE  HostInv'
<1>1. cmd \in Commands /\ cmd' = [cmd EXCEPT !.pc = "failed", !.plan = <<>>]  BY CmdParts DEF HostInv, Fail
<1>2. cmd' \in Commands /\ cmd'.pc = "failed" /\ cmd'.plan = <<>>
    <2>1. <<>> \in Seq(Steps)  OBVIOUS
    <2>2. cmd'.pc = "failed" /\ cmd'.plan = <<>> /\ cmd'.kind = cmd.kind  BY <1>1 DEF Commands
    <2> QED  BY <1>1, <2>1, <2>2 DEF Commands
<1>3. UNCHANGED <<node, dropIn, grubCfg, cmdline, esp, running, rule, off, warned>>
    BY DEF Fail, bootVars, nicVars
<1>4. faults' \in 0..MaxFaults /\ faults' # 0  BY FaultAssumption DEF HostInv, TypeOK, Fail, Fault
<1>5. TypeOK'  BY <1>2, <1>3, <1>4, TypeParts, NextType DEF HostInv
<1>6. PlanInv' /\ Left(cmd'.plan) = {}  BY <1>2, LeftNone DEF PlanInv
<1>7. \A x : ~ToDo(x)'  BY <1>6 DEF ToDo
<1>8. \A k : ~Current(k)'  BY <1>2 DEF Current
<1>9. NicInv' /\ BootInv'  BY <1>3, <1>7, <1>8 DEF HostInv, NicInv, BootInv
<1>10. FreshInv'  BY <1>4 DEF FreshInv
<1> QED  BY <1>5, <1>6, <1>9, <1>10 DEF HostInv

\* A reboot: no command is running, and udev turns the offloads off exactly under the rule.
LEMMA BootKeepsInv ==
    ASSUME HostInv, Boot
    PROVE  HostInv'
<1>1. UNCHANGED <<node, dropIn, grubCfg, cmdline, esp, rule, cmd, warned, faults>>  BY DEF Boot, bootVars
<1>2. off' = rule /\ running' \in BOOLEAN /\ off' \in BOOLEAN
    BY TypeParts DEF HostInv, Boot, NextBoot, Source
<1>3. cmd' \in Commands /\ (cmd'.pc = "run" <=> cmd'.plan # <<>>) /\ faults' \in 0..MaxFaults
    BY <1>1 DEF HostInv, TypeOK, Commands
<1>4. TypeOK'  BY <1>1, <1>2, <1>3, TypeParts, NextType DEF HostInv
<1>5. PlanInv'  BY <1>1 DEF HostInv, PlanInv
<1>6. \A x : ToDo(x)' <=> ToDo(x)  BY <1>1 DEF ToDo
<1>7. \A k : Current(k)' <=> Current(k)  BY <1>1 DEF Current
<1>8. \A x \in Steps : ~ToDo(x)  BY CmdParts DEF HostInv, Boot
<1>9. NicInv'  BY <1>1, <1>2, <1>6, <1>7, <1>8 DEF HostInv, NicInv, Steps
<1>10. BootInv'  BY <1>1, <1>6, <1>7 DEF HostInv, BootInv
<1>11. FreshInv'  BY <1>1, <1>6 DEF HostInv, FreshInv, Source
<1> QED  BY <1>4, <1>5, <1>9, <1>10, <1>11 DEF HostInv

\* A node with nothing tuned.
LEMMA InitInv == Init => HostInv
<1> SUFFICES ASSUME Init PROVE HostInv
    OBVIOUS
<1>1. cmd \in Commands /\ cmd.pc = "none" /\ cmd.plan = <<>>  BY DEF Init, Commands
<1>2. /\ node \in Nodes /\ cmdline \in BOOLEAN /\ dropIn = FALSE /\ grubCfg = FALSE /\ rule = FALSE /\ off = FALSE
      /\ warned = FALSE /\ faults = 0
    BY DEF Init
<1>3. esp \in BOOLEAN /\ (esp <=> Source)  BY <1>2 DEF Init, Source, Nodes
<1>4. running \in BOOLEAN  BY <1>2, <1>3 DEF Init, NextBoot, Source
<1>5. <<dropIn, grubCfg, cmdline, esp, running, rule, off, warned>> \in [1..8 -> BOOLEAN]
    <2>1. /\ dropIn \in BOOLEAN /\ grubCfg \in BOOLEAN /\ cmdline \in BOOLEAN /\ esp \in BOOLEAN
          /\ running \in BOOLEAN /\ rule \in BOOLEAN /\ off \in BOOLEAN /\ warned \in BOOLEAN
        BY <1>2, <1>3, <1>4
    <2> QED  BY <2>1, EightBooleans
<1>6. faults \in 0..MaxFaults  BY <1>2, FaultAssumption
<1>7. TypeOK  BY <1>1, <1>2, <1>5, <1>6 DEF TypeOK, Commands
<1>8. PlanInv /\ Left(cmd.plan) = {}  BY <1>1, LeftNone DEF PlanInv
<1>9. \A x : ~ToDo(x)  BY <1>8 DEF ToDo
<1>10. \A k : ~Current(k)  BY <1>1 DEF Current
<1>11. NicInv /\ BootInv  BY <1>2, <1>9, <1>10 DEF NicInv, BootInv
<1>12. FreshInv  BY <1>2, <1>3 DEF FreshInv
<1> QED  BY <1>7, <1>8, <1>11, <1>12 DEF HostInv

\* Every step keeps the invariant.
LEMMA NextInv == HostInv /\ [Next]_vars => HostInv'
<1> SUFFICES ASSUME HostInv, [Next]_vars PROVE HostInv'
    OBVIOUS
<1>1. CASE UNCHANGED vars
    <2>1. UNCHANGED <<node, dropIn, grubCfg, cmdline, esp, running, rule, off, cmd, warned, faults>>
        BY <1>1 DEF vars, bootVars, nicVars
    <2> QED  BY <2>1 DEF HostInv, TypeOK, PlanInv, NicInv, BootInv, FreshInv, ToDo, Current, Source
<1> QED  BY <1>1, TuneInv, RemoveInv, WriteDropInInv, UpdateGrubInv, EditCmdlineInv, RefreshInv, WriteRuleInv,
            SwitchOffloadsInv, SwitchFailsInv, FailInv, BootKeepsInv DEF Next

-----------------------------------------------------------------------------
(* The promises *)

\* The inductive invariant holds in every state.
THEOREM HostInvHolds == Spec => []HostInv
BY InitInv, NextInv, PTL DEF Spec

\* Every state is well typed, and a command that ended has nothing left to do.
THEOREM HostTypes == Spec => []TypeOK
<1>1. HostInv => TypeOK  BY DEF HostInv
<1> QED  BY <1>1, HostInvHolds, PTL

\* An install or update that ended without an error leaves the offloads off for good, wherever earlier ones stopped.
THEOREM OffloadsStayOff == Spec => []OffloadsTuned
<1>1. HostInv => OffloadsTuned
    BY CmdParts, TypeParts DEF HostInv, NicInv, OffloadsTuned, Finished, Current, Steps
<1> QED  BY <1>1, HostInvHolds, PTL

\* An uninstall that ended without an error gives the offloads back, or has said that it couldn't.
THEOREM OffloadsGivenBack == Spec => []OffloadsRestored
<1>1. HostInv => OffloadsRestored
    BY CmdParts, TypeParts DEF HostInv, NicInv, OffloadsRestored, Finished, Current, Steps
<1> QED  BY <1>1, HostInvHolds, PTL

\* An install or update that ended without an error leaves a next boot with no-kvm-apf, whatever boot loader and
\* files the node has.
THEOREM NextBootTuned == Spec => []AsyncPFTuned
<1>1. HostInv => AsyncPFTuned
    <2> SUFFICES ASSUME HostInv, Finished("tune"), node.esps => faults = 0 PROVE NextBoot
        BY DEF AsyncPFTuned
    <2>1. \A x \in Steps : ~ToDo(x)  BY CmdParts DEF HostInv, Finished
    <2>2. Current("tune")  BY DEF Finished, Current
    <2>3. node.grub => grubCfg  BY <2>1, <2>2 DEF HostInv, BootInv, Steps
    <2>4. node.cmdline => cmdline  BY <2>1, <2>2 DEF HostInv, BootInv, Steps
    <2>5. Source  BY <2>3, <2>4, TypeParts DEF Source, Nodes, HostInv
    <2>6. node.esps => esp  BY <2>1, <2>5 DEF HostInv, FreshInv, Steps
    <2> QED  BY <2>5, <2>6 DEF NextBoot
<1> QED  BY <1>1, HostInvHolds, PTL

\* An uninstall that ended without an error leaves a next boot without no-kvm-apf.
THEOREM NextBootRestored == Spec => []AsyncPFRestored
<1>1. HostInv => AsyncPFRestored
    <2> SUFFICES ASSUME HostInv, Finished("remove"), node.loader = "grub" \/ node.esps => faults = 0 PROVE ~NextBoot
        BY DEF AsyncPFRestored
    <2>1. \A x \in Steps : ~ToDo(x)  BY CmdParts DEF HostInv, Finished
    <2>2. Current("remove")  BY DEF Finished, Current
    <2>3. ~dropIn /\ ~cmdline  BY <2>1, <2>2 DEF HostInv, BootInv, Steps
    <2>4. faults = 0 => ~grubCfg  BY <2>1, <2>3, TypeParts DEF HostInv, FreshInv, Steps
    <2>5. node.esps \/ node.loader = "grub" => ~Source  BY <2>3, <2>4, TypeParts DEF Source, HostInv
    <2>6. ~node.esps => ~Source  BY <2>3, <2>4, <2>5, TypeParts DEF Source, HostInv
    <2>7. node.esps => ~esp  BY <2>1, <2>5, TypeParts DEF HostInv, FreshInv, Steps
    <2> QED  BY <2>6, <2>7 DEF NextBoot
<1> QED  BY <1>1, HostInvHolds, PTL
=============================================================================
