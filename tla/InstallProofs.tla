---------------------------- MODULE InstallProofs ----------------------------
(***************************************************************************)
(* What install and uninstall promise, for any number of commands and      *)
(* failures: the type invariant, what an uninstall that ended well has     *)
(* removed, what the release tag says, and when a command without a failed *)
(* call fails. A command's plan is given by the position of its next step, *)
(* and the invariant says what has been done at each position.             *)
(***************************************************************************)
EXTENDS Install, SequenceTheorems, TLAPS

-----------------------------------------------------------------------------
(* Positions *)

\* The steps of install, with those that it inserts as it finds the token, the App or its installation missing.
Full ==
    <<"binary", "settings", "sysPool", "runPool", "role", "user", "zone", "vnet", "apply", "vnetUp", "tuning",
      "template", "gateway", "configure", "controller", "block", "push", "token", "addToken", "writeSecret",
      "acls", "checkProxmox", "app", "saveClient", "push", "installation", "saveInstallation", "push",
      "checkGitHub", "service", "smoke", "clone", "start", "checkNetwork", "session", "tag">>

\* The position after k, if nothing is inserted.
Goes == [k \in 1..36 |-> IF k = 18 THEN 21 ELSE IF k = 23 THEN 26 ELSE IF k = 26 THEN 29 ELSE k + 1]

\* The end of install's plan from its j-th step on.
From == [j \in 1..31 |-> SubSeq(InstallPlan, j, 30)]

\* What is left of install at position k.
PlanAt == [k \in 1..37 |->
    IF k <= 18 THEN From[k]
    ELSE IF k = 19 THEN <<"addToken", "writeSecret">> \o From[19]
    ELSE IF k = 20 THEN <<"writeSecret">> \o From[19]
    ELSE IF k <= 23 THEN From[k - 2]
    ELSE IF k = 24 THEN <<"saveClient", "push">> \o From[22]
    ELSE IF k = 25 THEN <<"push">> \o From[22]
    ELSE IF k = 26 THEN From[22]
    ELSE IF k = 27 THEN <<"saveInstallation", "push">> \o From[23]
    ELSE IF k = 28 THEN <<"push">> \o From[23]
    ELSE From[k - 6]]

Orders == {<<"runPool", "sysPool">>, <<"sysPool", "runPool">>}

\* The steps of uninstall, with the pools in order o.
Removal(o) ==
    <<"stop", "scaleSet", "list", "destroy", o[1], o[2], "acls", "token", "user", "role", "vnet", "zone",
      "unapply", "tuning", "settings", "binary">>

\* What is left of uninstall at position k.
RemovalAt(o, k) == SubSeq(Removal(o), k, 16)

-----------------------------------------------------------------------------
(* The inductive invariant *)

Clean == \A x \in SystemVMs : sys[x] = "none"

\* The objects that install makes before position k are there.
Made(k, os) == \A i \in 1..36 : i < k /\ Full[i] \in Objects => Full[i] \in os

\* install at position k: what the other steps before it have done is still so.
Built(k) ==
    /\ k = 10 /\ cmd.changed => up
    /\ k > 10 => up
    /\ k > 12 => template = "template"
    /\ k > 13 => sys["gateway"] \in Running
    /\ k > 15 => sys["controller"] \in Running
    /\ k > 16 => blocks
    /\ k > 17 /\ k # 25 /\ k # 28 => ctl.config = app
    /\ k > 18 /\ k # 19 => token
    /\ k > 20 => ctl.secret # "none"
    /\ k > 22 => ctl.secret = "current"
    /\ k = 24 => app = "none" /\ ctl.key = "unsaved"
    /\ k > 24 => app # "none"
    /\ k = 27 => app = "client" /\ ctl.key = "saved"
    /\ k > 27 => app = "installed"
    /\ k > 29 => ctl.key = "saved"
    /\ k > 30 => ctl.service /\ (ctl.session = "new" => scaleSet)
    /\ k > 34 => "build" \notin smoke
    /\ k > 35 => scaleSet

\* The objects that uninstall removes before position k are gone, but for pools that it said it leaves.
Dropped(o, k) ==
    \A i \in 5..16 : i < k /\ Removal(o)[i] \in objs => i \in 5..6 /\ Removal(o)[i] \in warned

\* uninstall at position k: what the other steps before it have removed, and that the controller can't undo it.
Gone(k) ==
    /\ k < 3 => sys["controller"] \in Running
    /\ k > 1 => (cmd.hurt /\ "stop" \in warned) \/ ~ctl.service \/ sys["controller"] \notin Running
    /\ k > 2 /\ faults = 0 => ~scaleSet
    /\ k = 4 => /\ {x \in SystemVMs : sys[x] # "none"} \cup smoke \subseteq cmd.vms
                /\ template # "none" => "template" \in cmd.vms
                /\ worker => "worker" \in cmd.vms \/ (cmd.hurt /\ "stop" \in warned)
    /\ k > 4 => Clean /\ smoke = {} /\ template = "none" /\ (worker => "stop" \in warned)
    /\ k > 8 => ~token
    /\ k > 15 => app = "none"

InstallShape ==
    cmd.pc = "run" /\ cmd.kind = "install" => \E k \in 1..36 : cmd.plan = PlanAt[k] /\ Made(k, objs) /\ Built(k)

UninstallShape ==
    cmd.pc = "run" /\ cmd.kind = "uninstall" =>
        \E k \in 1..16, o \in Orders : cmd.plan = RemovalAt(o, k) /\ Dropped(o, k) /\ Gone(k)

\* An uninstall that ended well has removed everything.
Removed ==
    cmd.pc = "done" /\ cmd.kind = "uninstall" =>
        /\ objs \subseteq {"runPool", "sysPool"} \cap warned
        /\ template = "none" /\ smoke = {} /\ ~token /\ app = "none"
        /\ Clean
        /\ worker => "stop" \in warned
        /\ faults = 0 => ~scaleSet

\* uninstall has removed the VNet, and has still to apply that.
Unapplied == cmd.pc = "run" /\ cmd.kind = "uninstall" /\ cmd.changed /\ Head(cmd.plan) \in {"zone", "unapply"}

\* As long as nothing failed: uninstall had no reason to leave a pool or a running controller, GitHub's scale set is one
\* that the controller can still delete, and the VNet is up only if it exists or it was said that it stays.
Flawless ==
    faults = 0 =>
        /\ warned \cap {"stop", "runPool", "sysPool"} = {}
        /\ scaleSet => GitHubOK /\ sys["controller"] \in Running
        /\ up => "vnet" \in objs \/ (others /\ "sdn" \in warned) \/ Unapplied

\* A config with the App's installation has it from the settings.
ConfigInv == ctl.config = "installed" => app = "installed"

InstInv ==
    /\ TypeOK
    /\ InstallShape
    /\ UninstallShape
    /\ Removed
    /\ Flawless
    /\ ConfigInv
-----------------------------------------------------------------------------
(* Lemmas about positions *)

\* The end of a sequence from its m-th element on.
LEMMA SuffixOf ==
    ASSUME NEW S, NEW s \in Seq(S), NEW m \in 1..Len(s)
    PROVE  /\ SubSeq(s, m, Len(s)) \in Seq(S) /\ SubSeq(s, m, Len(s)) # <<>>
           /\ Head(SubSeq(s, m, Len(s))) = s[m]
           /\ Tail(SubSeq(s, m, Len(s))) = SubSeq(s, m + 1, Len(s))
<1>1. Len(s) \in Nat /\ m \in Int /\ m <= Len(s) /\ Len(s) \in m..Len(s)  BY LenProperties
<1>2. \A i \in m..Len(s) : s[i] \in S  BY <1>1, ElementOfSeq
<1>3. /\ SubSeq(s, m, Len(s)) \in Seq(S)
      /\ Len(SubSeq(s, m, Len(s))) = Len(s) - m + 1
    BY <1>1, <1>2, SubSeqProperties
<1>4. SubSeq(s, m, Len(s)) # <<>>  BY <1>1, <1>3, EmptySeq
<1>5. /\ Head(SubSeq(s, m, Len(s))) = s[m]
      /\ Tail(SubSeq(s, m, Len(s))) = SubSeq(s, m + 1, Len(s))
    BY <1>1, HeadTailOfSubSeq
<1> QED  BY <1>3, <1>4, <1>5

\* One step in front of a plan.
LEMMA StepBefore ==
    ASSUME NEW S, NEW x \in S, NEW q \in Seq(S)
    PROVE  /\ <<x>> \o q \in Seq(S) /\ <<x>> \o q # <<>>
           /\ Head(<<x>> \o q) = x
           /\ Tail(<<x>> \o q) = q
<1> DEFINE r == <<x>> \o q
<1>1. <<x>> \in Seq(S) /\ Len(<<x>>) = 1 /\ <<x>>[1] = x  OBVIOUS
<1>2. r \in Seq(S) /\ Len(r) = 1 + Len(q) /\ \A i \in 1..(1 + Len(q)) : r[i] = IF i <= 1 THEN x ELSE q[i - 1]
    BY <1>1, ConcatProperties
<1>3. Len(q) \in Nat  BY LenProperties
<1> HIDE DEF r
<1>4. r # <<>>  BY <1>2, <1>3, EmptySeq
<1>5. Head(r) = x
    <2>1. Head(r) = r[1]  OBVIOUS
    <2>2. 1 \in 1..(1 + Len(q))  BY <1>3
    <2> QED  BY <2>1, <2>2, <1>2
<1>6. Tail(r) \in Seq(S) /\ Len(Tail(r)) = Len(q) /\ \A i \in 1..Len(q) : Tail(r)[i] = q[i]
    <2>1. Tail(r) \in Seq(S) /\ Len(Tail(r)) = Len(q)
        BY <1>2, <1>3, <1>4, HeadTailProperties
    <2>2. \A i \in 1..Len(q) : Tail(r)[i] = r[i + 1]
        BY <2>1, <1>2, <1>4, HeadTailProperties
    <2>3. \A i \in 1..Len(q) : r[i + 1] = q[i]
        <3> SUFFICES ASSUME NEW i \in 1..Len(q) PROVE r[i + 1] = q[i]
            OBVIOUS
        <3>1. i + 1 \in 1..(1 + Len(q)) /\ ~(i + 1 <= 1) /\ (i + 1) - 1 = i  BY <1>3
        <3> QED  BY <3>1, <1>2
    <2> QED  BY <2>1, <2>2, <2>3
<1>7. Tail(r) = q  BY <1>6, SeqEqual
<1> QED  BY <1>2, <1>4, <1>5, <1>7 DEF r

\* Two steps in front of a plan.
LEMMA TwoBefore ==
    ASSUME NEW S, NEW x \in S, NEW y \in S, NEW q \in Seq(S), NEW p, NEW r, p = <<x, y>> \o q, r = <<y>> \o q
    PROVE  /\ p \in Seq(S) /\ p # <<>> /\ Head(p) = x /\ Tail(p) = r
           /\ r \in Seq(S) /\ r # <<>> /\ Head(r) = y /\ Tail(r) = q
<1>1. /\ <<x>> \in Seq(S) /\ <<y>> \in Seq(S) /\ <<x, y>> \in Seq(S)
      /\ Len(<<x>>) = 1 /\ Len(<<y>>) = 1 /\ Len(<<x, y>>) = 2
      /\ <<x>>[1] = x /\ <<y>>[1] = y /\ <<x, y>>[1] = x /\ <<x, y>>[2] = y
    OBVIOUS
<1>2. <<x>> \o <<y>> \in Seq(S) /\ Len(<<x>> \o <<y>>) = 2 /\ (<<x>> \o <<y>>)[1] = x /\ (<<x>> \o <<y>>)[2] = y
    OBVIOUS
<1>3. <<x, y>> = <<x>> \o <<y>>
    <2> DEFINE u == <<x>> \o <<y>>
               t == <<x, y>>
    <2>1. u \in Seq(S) /\ t \in Seq(S) /\ Len(u) = 2 /\ Len(t) = 2 /\ u[1] = t[1] /\ u[2] = t[2]
        BY <1>1, <1>2
    <2> HIDE DEF u, t
    <2>2. \A i \in 1..2 : i = 1 \/ i = 2  OBVIOUS
    <2>3. u = t  BY <2>1, <2>2, SeqEqual
    <2> QED  BY <2>3 DEF u, t
<1>4. p = <<x>> \o r  BY <1>1, <1>3, ConcatAssociative
<1>5. r \in Seq(S) /\ r # <<>> /\ Head(r) = y /\ Tail(r) = q  BY StepBefore
<1> QED  BY <1>4, <1>5, StepBefore

\* The names of the steps.
LEMMA StepNames ==
    /\ InstallPlan \in Seq(Steps) /\ Len(InstallPlan) = 30
    /\ {"addToken", "writeSecret", "saveClient", "saveInstallation", "push"} \subseteq Steps
    /\ {"stop", "scaleSet", "list", "destroy", "unapply"} \subseteq Steps
    /\ Objects \subseteq Steps /\ "token" \in Steps
<1>1. Len(InstallPlan) = 30  BY DEF InstallPlan
<1>2. \A i \in 1..30 : InstallPlan[i] \in Steps  BY <1>1 DEF Steps
<1>3. InstallPlan \in Seq(Steps)
    <2> DEFINE p == InstallPlan
    <2>1. DOMAIN p = 1..30 /\ p = [i \in 1..30 |-> p[i]]  BY DEF InstallPlan
    <2>2. p \in [1..30 -> Steps]
        <3>1. \A i \in 1..30 : p[i] \in Steps  BY <1>2
        <3> HIDE DEF p
        <3> QED  BY <2>1, <3>1
    <2> HIDE DEF p
    <2> QED  BY <2>2, SeqDef DEF p
<1>4. /\ InstallPlan[17] = "push" /\ InstallPlan[1] = "binary" /\ InstallPlan[2] = "settings"
      /\ InstallPlan[3] = "sysPool" /\ InstallPlan[4] = "runPool" /\ InstallPlan[5] = "role"
      /\ InstallPlan[6] = "user" /\ InstallPlan[7] = "zone" /\ InstallPlan[8] = "vnet"
      /\ InstallPlan[11] = "tuning" /\ InstallPlan[18] = "token" /\ InstallPlan[19] = "acls"
    BY DEF InstallPlan
<1>5. {"push", "binary", "settings", "sysPool", "runPool", "role", "user", "zone", "vnet", "tuning", "token", "acls"}
        \subseteq Steps
    BY <1>2, <1>4
<1>6. {"addToken", "writeSecret", "saveClient", "saveInstallation"} \subseteq Steps  BY DEF Steps
<1>7. {"stop", "scaleSet", "list", "destroy", "unapply"} \subseteq Steps  BY SMTT(30) DEF Steps
<1> QED  BY <1>1, <1>3, <1>5, <1>6, <1>7 DEF Objects

\* install at position k is about to do Full[k], and goes on at Goes[k], or at k + 1 if it inserts steps.
LEMMA Positions ==
    /\ InstallPlan = PlanAt[1]
    /\ PlanAt[37] = <<>>
    /\ \A k \in 1..36 : /\ PlanAt[k] \in Seq(Steps) /\ PlanAt[k] # <<>>
                        /\ Head(PlanAt[k]) = Full[k]
                        /\ Tail(PlanAt[k]) = PlanAt[Goes[k]]
    /\ <<"addToken", "writeSecret">> \o Tail(PlanAt[18]) = PlanAt[19]
    /\ <<"saveClient", "push">> \o Tail(PlanAt[23]) = PlanAt[24]
    /\ <<"saveInstallation", "push">> \o Tail(PlanAt[26]) = PlanAt[27]
<1>1. \A j \in 1..30 : /\ From[j] \in Seq(Steps) /\ From[j] # <<>>
                       /\ Head(From[j]) = InstallPlan[j]
                       /\ Tail(From[j]) = From[j + 1]
    <2> DEFINE p == InstallPlan
    <2>1. p \in Seq(Steps) /\ Len(p) = 30  BY StepNames
    <2> HIDE DEF p
    <2>2. \A j \in 1..Len(p) : /\ SubSeq(p, j, Len(p)) \in Seq(Steps) /\ SubSeq(p, j, Len(p)) # <<>>
                               /\ Head(SubSeq(p, j, Len(p))) = p[j]
                               /\ Tail(SubSeq(p, j, Len(p))) = SubSeq(p, j + 1, Len(p))
        BY <2>1, SuffixOf
    <2>3. \A j \in 1..31 : From[j] = SubSeq(p, j, Len(p))  BY <2>1 DEF From, p
    <2>4. \A j \in 1..30 : j \in 1..31 /\ j + 1 \in 1..31  OBVIOUS
    <2> QED  BY <2>1, <2>2, <2>3, <2>4, ZenonT(40) DEF p
<1>2. From[1] = InstallPlan  BY StepNames, SubSeqFull DEF From
<1>3. From[31] = <<>>  BY SubSeqEmpty DEF From
<1> DEFINE Fits(k) == /\ PlanAt[k] \in Seq(Steps) /\ PlanAt[k] # <<>>
                      /\ Head(PlanAt[k]) = Full[k]
                      /\ Tail(PlanAt[k]) = PlanAt[Goes[k]]
<1>6. ASSUME NEW k \in 1..18 PROVE Fits(k)
    <2>0. k \in 1..37 /\ k <= 18  OBVIOUS
    <2>1. PlanAt[k] = From[k]  BY <2>0, Zenon DEF PlanAt
    <2>2. Full[k] = InstallPlan[k]  BY DEF Full, InstallPlan
    <2>3. CASE k # 18
        <3>1. Goes[k] = k + 1  BY <2>3 DEF Goes
        <3>2. k + 1 \in 1..37 /\ k + 1 <= 18  BY <2>3
        <3>3. PlanAt[k + 1] = From[k + 1]  BY <3>2, Zenon DEF PlanAt
        <3>4. k \in 1..30  OBVIOUS
        <3> QED  BY <2>1, <2>2, <3>1, <3>3, <3>4, <1>1
    <2>4. CASE k = 18
        <3>1. Goes[18] = 21 /\ PlanAt[21] = From[19]  BY DEF Goes, PlanAt
        <3>2. From[18] = PlanAt[18] /\ Full[18] = InstallPlan[18]  BY <2>1, <2>2, <2>4
        <3>3. /\ From[18] \in Seq(Steps) /\ From[18] # <<>> /\ Head(From[18]) = InstallPlan[18]
              /\ Tail(From[18]) = From[19]
            <4>1. 18 \in 1..30 /\ 18 + 1 = 19  OBVIOUS
            <4> QED  BY <4>1, <1>1, ZenonT(40)
        <3>4. Fits(18)  BY <3>1, <3>2, <3>3
        <3> HIDE DEF Fits
        <3> QED  BY <2>4, <3>4
    <2> QED  BY <2>3, <2>4
<1>7. /\ PlanAt[19] = <<"addToken", "writeSecret">> \o From[19]
      /\ PlanAt[20] = <<"writeSecret">> \o From[19]
      /\ PlanAt[21] = From[19] /\ PlanAt[22] = From[20] /\ PlanAt[23] = From[21]
    BY DEF PlanAt
<1>8. /\ PlanAt[24] = <<"saveClient", "push">> \o From[22]
      /\ PlanAt[25] = <<"push">> \o From[22]
      /\ PlanAt[26] = From[22]
      /\ PlanAt[27] = <<"saveInstallation", "push">> \o From[23]
      /\ PlanAt[28] = <<"push">> \o From[23]
      /\ PlanAt[29] = From[23]
    BY SMTT(30) DEF PlanAt
<1>9. /\ Goes[19] = 20 /\ Goes[20] = 21 /\ Goes[21] = 22 /\ Goes[22] = 23 /\ Goes[23] = 26
      /\ Goes[24] = 25 /\ Goes[25] = 26 /\ Goes[26] = 29 /\ Goes[27] = 28 /\ Goes[28] = 29
    BY DEF Goes
<1>10. /\ Full[19] = "addToken" /\ Full[20] = "writeSecret"
       /\ Full[21] = InstallPlan[19] /\ Full[22] = InstallPlan[20] /\ Full[23] = InstallPlan[21]
       /\ Full[24] = "saveClient" /\ Full[25] = "push" /\ Full[26] = InstallPlan[22]
       /\ Full[27] = "saveInstallation" /\ Full[28] = "push"
    BY DEF Full, InstallPlan
<1>11. From[19] \in Seq(Steps) /\ From[22] \in Seq(Steps) /\ From[23] \in Seq(Steps)  BY <1>1
<1>12. Fits(19) /\ Fits(20)
    <2> DEFINE x == "addToken"
               y == "writeSecret"
               q == From[19]
    <2>1. x \in Steps /\ y \in Steps /\ q \in Seq(Steps)  BY <1>11, StepNames
    <2>2. PlanAt[19] = <<x, y>> \o q /\ PlanAt[20] = <<y>> \o q  BY <1>7
    <2> HIDE DEF x, y, q
    <2>3. /\ PlanAt[19] \in Seq(Steps) /\ PlanAt[19] # <<>> /\ Head(PlanAt[19]) = x /\ Tail(PlanAt[19]) = PlanAt[20]
          /\ PlanAt[20] \in Seq(Steps) /\ PlanAt[20] # <<>> /\ Head(PlanAt[20]) = y /\ Tail(PlanAt[20]) = q
        BY <2>1, <2>2, TwoBefore
    <2> QED  BY <2>3, <1>7, <1>8, <1>9, <1>10, ZenonT(40) DEF x, y, q
<1>13. Fits(24) /\ Fits(25)
    <2> DEFINE x == "saveClient"
               y == "push"
               q == From[22]
    <2>1. x \in Steps /\ y \in Steps /\ q \in Seq(Steps)  BY <1>11, StepNames
    <2>2. PlanAt[24] = <<x, y>> \o q /\ PlanAt[25] = <<y>> \o q  BY <1>8
    <2> HIDE DEF x, y, q
    <2>3. /\ PlanAt[24] \in Seq(Steps) /\ PlanAt[24] # <<>> /\ Head(PlanAt[24]) = x /\ Tail(PlanAt[24]) = PlanAt[25]
          /\ PlanAt[25] \in Seq(Steps) /\ PlanAt[25] # <<>> /\ Head(PlanAt[25]) = y /\ Tail(PlanAt[25]) = q
        BY <2>1, <2>2, TwoBefore
    <2> QED  BY <2>3, <1>7, <1>8, <1>9, <1>10, ZenonT(40) DEF x, y, q
<1>14. Fits(27) /\ Fits(28)
    <2> DEFINE x == "saveInstallation"
               y == "push"
               q == From[23]
    <2>1. x \in Steps /\ y \in Steps /\ q \in Seq(Steps)  BY <1>11, StepNames
    <2>2. PlanAt[27] = <<x, y>> \o q /\ PlanAt[28] = <<y>> \o q  BY <1>8
    <2> HIDE DEF x, y, q
    <2>3. /\ PlanAt[27] \in Seq(Steps) /\ PlanAt[27] # <<>> /\ Head(PlanAt[27]) = x /\ Tail(PlanAt[27]) = PlanAt[28]
          /\ PlanAt[28] \in Seq(Steps) /\ PlanAt[28] # <<>> /\ Head(PlanAt[28]) = y /\ Tail(PlanAt[28]) = q
        BY <2>1, <2>2, TwoBefore
    <2> QED  BY <2>3, <1>7, <1>8, <1>9, <1>10, ZenonT(40) DEF x, y, q
<1>15. Fits(21) /\ Fits(22) /\ Fits(23) /\ Fits(26)
    BY <1>1, <1>7, <1>8, <1>9, <1>10
<1>16. ASSUME NEW k \in 29..37 PROVE PlanAt[k] = From[k - 6]
    <2>1. k \in 1..37 /\ ~(k <= 23)  OBVIOUS
    <2>2. ~(k <= 18) /\ k # 19 /\ k # 20 /\ k # 24 /\ k # 25 /\ k # 26 /\ k # 27 /\ k # 28  OBVIOUS
    <2> QED  BY <2>1, <2>2, Zenon DEF PlanAt
<1>17. ASSUME NEW k \in 29..36 PROVE Fits(k)
    <2>1. PlanAt[k] = From[k - 6] /\ PlanAt[k + 1] = From[k - 5]  BY <1>16
    <2>2. Goes[k] = k + 1  BY DEF Goes
    <2>3. Full[k] = InstallPlan[k - 6]  BY DEF Full, InstallPlan
    <2>4. k - 6 \in 1..30 /\ (k - 6) + 1 = k - 5  OBVIOUS
    <2>5. /\ From[k - 6] \in Seq(Steps) /\ From[k - 6] # <<>>
          /\ Head(From[k - 6]) = InstallPlan[k - 6] /\ Tail(From[k - 6]) = From[k - 5]
        BY <1>1, <2>4
    <2> QED  BY <2>1, <2>2, <2>3, <2>5
<1>18. ASSUME NEW k \in 1..36 PROVE Fits(k)
    <2>1. k \in 1..18 \/ k = 19 \/ k = 20 \/ k = 21 \/ k = 22 \/ k = 23 \/ k = 24 \/ k = 25 \/ k = 26
          \/ k = 27 \/ k = 28 \/ k \in 29..36
        OBVIOUS
    <2> HIDE DEF Fits
    <2> QED  BY <2>1, <1>6, <1>12, <1>13, <1>14, <1>15, <1>17
<1>19. InstallPlan = PlanAt[1]  BY <1>2 DEF PlanAt
<1>20. PlanAt[37] = <<>>  BY <1>16, <1>3
<1>21. /\ Tail(PlanAt[18]) = From[19] /\ Tail(PlanAt[23]) = From[22] /\ Tail(PlanAt[26]) = From[23]
    <2>1. Goes[18] = 21  BY DEF Goes
    <2>2. Fits(18)  BY <1>6
    <2> QED  BY <2>1, <2>2, <1>15, <1>7, <1>8, <1>9
<1> QED  BY <1>18, <1>19, <1>20, <1>21, <1>7, <1>8

\* Which step is where.
LEMMA Where ==
    ASSUME NEW k \in 1..36
    PROVE  /\ Full[k] = "binary" => k = 1
           /\ Full[k] = "settings" => k = 2
           /\ Full[k] = "sysPool" => k = 3
           /\ Full[k] = "runPool" => k = 4
           /\ Full[k] = "role" => k = 5
           /\ Full[k] = "user" => k = 6
           /\ Full[k] = "zone" => k = 7
           /\ Full[k] = "vnet" => k = 8
           /\ Full[k] = "apply" => k = 9
           /\ Full[k] = "vnetUp" => k = 10
           /\ Full[k] = "tuning" => k = 11
           /\ Full[k] = "template" => k = 12
           /\ Full[k] = "gateway" => k = 13
           /\ Full[k] = "configure" => k = 14
           /\ Full[k] = "controller" => k = 15
           /\ Full[k] = "block" => k = 16
           /\ Full[k] = "push" => k \in {17, 25, 28}
           /\ Full[k] = "token" => k = 18
           /\ Full[k] = "addToken" => k = 19
           /\ Full[k] = "writeSecret" => k = 20
           /\ Full[k] = "acls" => k = 21
           /\ Full[k] = "checkProxmox" => k = 22
           /\ Full[k] = "app" => k = 23
           /\ Full[k] = "saveClient" => k = 24
           /\ Full[k] = "installation" => k = 26
           /\ Full[k] = "saveInstallation" => k = 27
           /\ Full[k] = "checkGitHub" => k = 29
           /\ Full[k] = "service" => k = 30
           /\ Full[k] = "smoke" => k = 31
           /\ Full[k] = "clone" => k = 32
           /\ Full[k] = "start" => k = 33
           /\ Full[k] = "checkNetwork" => k = 34
           /\ Full[k] = "session" => k = 35
           /\ Full[k] = "tag" => k = 36
<1>1. /\ k = 1 => Full[k] = "binary"
      /\ k = 2 => Full[k] = "settings"
      /\ k = 3 => Full[k] = "sysPool"
      /\ k = 4 => Full[k] = "runPool"
      /\ k = 5 => Full[k] = "role"
      /\ k = 6 => Full[k] = "user"
      /\ k = 7 => Full[k] = "zone"
      /\ k = 8 => Full[k] = "vnet"
      /\ k = 9 => Full[k] = "apply"
      /\ k = 10 => Full[k] = "vnetUp"
      /\ k = 11 => Full[k] = "tuning"
      /\ k = 12 => Full[k] = "template"
      /\ k = 13 => Full[k] = "gateway"
      /\ k = 14 => Full[k] = "configure"
      /\ k = 15 => Full[k] = "controller"
      /\ k = 16 => Full[k] = "block"
      /\ k = 17 => Full[k] = "push"
      /\ k = 18 => Full[k] = "token"
      /\ k = 19 => Full[k] = "addToken"
      /\ k = 20 => Full[k] = "writeSecret"
      /\ k = 21 => Full[k] = "acls"
      /\ k = 22 => Full[k] = "checkProxmox"
      /\ k = 23 => Full[k] = "app"
      /\ k = 24 => Full[k] = "saveClient"
      /\ k = 25 => Full[k] = "push"
      /\ k = 26 => Full[k] = "installation"
      /\ k = 27 => Full[k] = "saveInstallation"
      /\ k = 28 => Full[k] = "push"
      /\ k = 29 => Full[k] = "checkGitHub"
      /\ k = 30 => Full[k] = "service"
      /\ k = 31 => Full[k] = "smoke"
      /\ k = 32 => Full[k] = "clone"
      /\ k = 33 => Full[k] = "start"
      /\ k = 34 => Full[k] = "checkNetwork"
      /\ k = 35 => Full[k] = "session"
      /\ k = 36 => Full[k] = "tag"
    BY DEF Full
<1>2. k \in 1..9 \/ k \in 10..18 \/ k \in 19..27 \/ k \in 28..36  OBVIOUS
<1>3. ASSUME k \in 1..9 PROVE k = 1 \/ k = 2 \/ k = 3 \/ k = 4 \/ k = 5 \/ k = 6 \/ k = 7 \/ k = 8 \/ k = 9
    BY <1>3
<1>4. ASSUME k \in 10..18 PROVE k = 10 \/ k = 11 \/ k = 12 \/ k = 13 \/ k = 14 \/ k = 15 \/ k = 16 \/ k = 17 \/ k = 18
    BY <1>4
<1>5. ASSUME k \in 19..27 PROVE k = 19 \/ k = 20 \/ k = 21 \/ k = 22 \/ k = 23 \/ k = 24 \/ k = 25 \/ k = 26 \/ k = 27
    BY <1>5
<1>6. ASSUME k \in 28..36 PROVE k = 28 \/ k = 29 \/ k = 30 \/ k = 31 \/ k = 32 \/ k = 33 \/ k = 34 \/ k = 35 \/ k = 36
    BY <1>6
<1> QED  BY <1>1, <1>2, <1>3, <1>4, <1>5, <1>6

\* The objects are made at these positions.
LEMMA MadeGrows ==
    ASSUME NEW k \in 1..36, NEW os, NEW new, Made(k, os), os \subseteq new,
           Full[k] \in Objects => Full[k] \in new
    PROVE  Made(Goes[k], new) /\ (k < 36 => Made(k + 1, new)) /\ Goes[k] \in 1..37
<1>1. /\ Full[19] \notin Objects /\ Full[20] \notin Objects /\ Full[24] \notin Objects
      /\ Full[25] \notin Objects /\ Full[27] \notin Objects /\ Full[28] \notin Objects
    BY DEF Full, Objects
<1>2. /\ Goes[k] = k + 1 \/ (k = 18 /\ Goes[k] = 21) \/ (k = 23 /\ Goes[k] = 26) \/ (k = 26 /\ Goes[k] = 29)
    BY DEF Goes
<1>3. ASSUME NEW i \in 1..36, i < k + 1, Full[i] \in Objects PROVE Full[i] \in new
    <2>1. i < k \/ i = k  BY <1>3
    <2> QED  BY <2>1, <1>3 DEF Made
<1>4. ASSUME NEW i \in 1..36, i < Goes[k], Full[i] \in Objects PROVE Full[i] \in new
    <2>1. i < k + 1 \/ i = 19 \/ i = 20 \/ i = 24 \/ i = 25 \/ i = 27 \/ i = 28  BY <1>2, <1>4
    <2>2. i < k + 1  BY <2>1, <1>1, <1>4
    <2> QED  BY <2>2, <1>3, <1>4
<1> QED  BY <1>2, <1>3, <1>4 DEF Made

\* Seven truth values.
LEMMA Seven ==
    ASSUME NEW a, NEW b, NEW c, NEW d, NEW e, NEW f, NEW g
    PROVE  <<a, b, c, d, e, f, g>> \in [1..7 -> BOOLEAN] <=>
               a \in BOOLEAN /\ b \in BOOLEAN /\ c \in BOOLEAN /\ d \in BOOLEAN /\ e \in BOOLEAN /\ f \in BOOLEAN
               /\ g \in BOOLEAN
<1> DEFINE t == <<a, b, c, d, e, f, g>>
<1>1. DOMAIN t = 1..7 /\ t = [i \in 1..7 |-> t[i]]  OBVIOUS
<1>2. t[1] = a /\ t[2] = b /\ t[3] = c /\ t[4] = d /\ t[5] = e /\ t[6] = f /\ t[7] = g  OBVIOUS
<1>3. 1..7 = {1, 2, 3, 4, 5, 6, 7}  OBVIOUS
<1> HIDE DEF t
<1>4. t \in [1..7 -> BOOLEAN] <=> \A i \in 1..7 : t[i] \in BOOLEAN  BY <1>1
<1>5. (\A i \in 1..7 : t[i] \in BOOLEAN) <=> \A i \in {1, 2, 3, 4, 5, 6, 7} : t[i] \in BOOLEAN  BY <1>3
<1>6. (\A i \in {1, 2, 3, 4, 5, 6, 7} : t[i] \in BOOLEAN) <=>
          a \in BOOLEAN /\ b \in BOOLEAN /\ c \in BOOLEAN /\ d \in BOOLEAN /\ e \in BOOLEAN /\ f \in BOOLEAN
          /\ g \in BOOLEAN
    BY <1>2, Zenon
<1> QED  BY <1>4, <1>5, <1>6 DEF t

-----------------------------------------------------------------------------
(* The parts of the invariant *)

Commands == [kind : {"install", "uninstall"}, pc : {"none", "run", "done", "failed", "refused"},
             plan : Seq(Steps), changed : BOOLEAN, made : SUBSET (SystemVMs \cup {"template"}),
             vms : SUBSET (SystemVMs \cup {"worker", "template"} \cup {"clone", "build", "leaked"}),
             hurt : BOOLEAN]

CmdOK == cmd \in Commands /\ (cmd.pc = "run" <=> cmd.plan # <<>>)

\* The types of everything but the command.
NodeOK ==
    /\ objs \subseteq Objects
    /\ up \in BOOLEAN /\ others \in BOOLEAN /\ token \in BOOLEAN /\ worker \in BOOLEAN /\ linked \in BOOLEAN
    /\ blocks \in BOOLEAN /\ scaleSet \in BOOLEAN
    /\ app \in AppStates
    /\ template \in {"none", "import", "template"}
    /\ smoke \subseteq {"clone", "build", "leaked"}
    /\ sys \in [SystemVMs -> Stages]
    /\ ctl \in Controller
    /\ warned \subseteq {"stop", "scaleSet", "runPool", "sysPool", "sdn"}
    /\ faults \in 0..MaxFaults
    /\ sys["controller"] \notin Running \cup {"off"} => ctl = NewController
    /\ ctl.key = "saved" => app # "none"
    /\ linked /\ (worker \/ smoke # {}) => template = "template"

CmdInv == CmdOK /\ InstallShape /\ UninstallShape /\ Removed

NodeInv == NodeOK /\ Flawless /\ ConfigInv

LEMMA TypeParts == TypeOK <=> CmdOK /\ NodeOK
<1>1. <<up, others, token, worker, linked, blocks, scaleSet>> \in [1..7 -> BOOLEAN] <=>
          up \in BOOLEAN /\ others \in BOOLEAN /\ token \in BOOLEAN /\ worker \in BOOLEAN /\ linked \in BOOLEAN
          /\ blocks \in BOOLEAN /\ scaleSet \in BOOLEAN
    BY Seven
<1> QED  BY <1>1, Zenon DEF TypeOK, CmdOK, NodeOK, Commands

\* The invariant in two parts: the command and the node.
LEMMA InvParts == InstInv <=> CmdInv /\ NodeInv
BY TypeParts DEF InstInv, CmdInv, NodeInv

LEMMA InvParts2 == InstInv' <=> CmdInv' /\ NodeInv'
BY InvParts, PTL

\* The command c with a new plan.
LEMMA WithPlan ==
    ASSUME NEW c \in Commands, NEW p \in Seq(Steps)
    PROVE  /\ With(c, p) \in Commands
           /\ With(c, p).kind = c.kind /\ With(c, p).plan = p /\ With(c, p).changed = c.changed
           /\ With(c, p).made = c.made /\ With(c, p).vms = c.vms /\ With(c, p).hurt = c.hurt
           /\ With(c, p).pc = (IF p = <<>> THEN "done" ELSE "run")
           /\ With(c, p).pc = "run" <=> p # <<>>
<1> DEFINE pc == IF p = <<>> THEN "done" ELSE "run"
<1>1. pc \in {"none", "run", "done", "failed", "refused"} /\ (pc = "run" <=> p # <<>>)  OBVIOUS
<1>2. With(c, p) = [c EXCEPT !.plan = p, !.pc = pc]  BY DEF With
<1> HIDE DEF pc
<1>3. [c EXCEPT !.plan = p, !.pc = pc] \in Commands  BY <1>1 DEF Commands
<1>4. /\ With(c, p).kind = c.kind /\ With(c, p).plan = p /\ With(c, p).changed = c.changed
      /\ With(c, p).made = c.made /\ With(c, p).vms = c.vms /\ With(c, p).hurt = c.hurt
      /\ With(c, p).pc = pc
    BY <1>2 DEF Commands
<1> QED  BY <1>1, <1>2, <1>3, <1>4 DEF pc

\* A command that ends before its plan does.
LEMMA EndsEarly ==
    ASSUME CmdInv, cmd.pc = "run", NEW pc \in {"failed", "done"}, cmd' = [cmd EXCEPT !.plan = <<>>, !.pc = pc],
           pc = "done" => cmd.kind = "install"
    PROVE  CmdInv' /\ ~Unapplied'
<1>1. cmd \in Commands  BY DEF CmdInv, CmdOK
<1>2. <<>> \in Seq(Steps)  OBVIOUS
<1>3. cmd' \in Commands /\ cmd'.pc = pc /\ cmd'.plan = <<>> /\ cmd'.kind = cmd.kind
    BY <1>1, <1>2 DEF Commands
<1> QED  BY <1>3 DEF CmdInv, CmdOK, InstallShape, UninstallShape, Removed, Unapplied

\* install goes on at position j.
LEMMA InstallGoesOn ==
    ASSUME NEW c \in Commands, c.kind = "install", NEW j \in 1..37, cmd' = With(c, PlanAt[j]),
           j # 37 => Made(j, objs') /\ Built(j)'
    PROVE  CmdInv' /\ ~Unapplied' /\ cmd'.changed = c.changed
<1>1. PlanAt[j] \in Seq(Steps) /\ (j = 37 <=> PlanAt[j] = <<>>)
    <2>1. CASE j = 37
        <3>1. <<>> \in Seq(Steps)  OBVIOUS
        <3> QED  BY <2>1, <3>1, Positions
    <2>2. CASE j # 37
        <3>1. j \in 1..36  BY <2>2
        <3> QED  BY <2>2, <3>1, Positions
    <2> QED  BY <2>1, <2>2
<1>2. cmd' \in Commands /\ cmd'.kind = "install" /\ cmd'.plan = PlanAt[j] /\ cmd'.changed = c.changed
      /\ (cmd'.pc = "run" <=> cmd'.plan # <<>>)
    BY <1>1, WithPlan
<1>3. InstallShape'
    <2> SUFFICES ASSUME cmd'.pc = "run"
                 PROVE  \E k \in 1..36 : cmd'.plan = PlanAt[k] /\ Made(k, objs') /\ Built(k)'
        BY DEF InstallShape
    <2>1. j \in 1..36 /\ j # 37  BY <1>1, <1>2
    <2>2. cmd'.plan = PlanAt[j] /\ Made(j, objs') /\ Built(j)'  BY <2>1, <1>2
    <2> j \in 1..36  BY <2>1
    <2> WITNESS j \in 1..36
    <2> QED  BY <2>2
<1> QED  BY <1>2, <1>3 DEF CmdInv, CmdOK, UninstallShape, Removed, Unapplied

\* install before a step.
LEMMA AtInstall ==
    ASSUME CmdInv, NEW step, At("install", step)
    PROVE  /\ cmd \in Commands /\ cmd.pc = "run" /\ cmd.kind = "install" /\ ~Unapplied
           /\ \E k \in 1..36 : /\ Made(k, objs) /\ Built(k)
                               /\ Full[k] = step
                               /\ cmd.plan = PlanAt[k] /\ Rest = PlanAt[Goes[k]]
<1>1. cmd \in Commands /\ cmd.pc = "run" /\ cmd.kind = "install" /\ Head(cmd.plan) = step
    BY DEF CmdInv, CmdOK, At
<1>2. PICK k \in 1..36 : cmd.plan = PlanAt[k] /\ Made(k, objs) /\ Built(k)
    BY <1>1 DEF CmdInv, InstallShape
<1>3. Head(PlanAt[k]) = Full[k] /\ Tail(PlanAt[k]) = PlanAt[Goes[k]]  BY Positions
<1> QED  BY <1>1, <1>2, <1>3 DEF Rest, Unapplied

-----------------------------------------------------------------------------
(* install: the host, the access objects, the network *)

LEMMA CreateObjectKeeps ==
    ASSUME CmdInv, NodeInv, NEW o, CreateObject(o)
    PROVE  CmdInv' /\ NodeInv'
<1>1. o \in {"binary", "sysPool", "runPool", "role", "user", "tuning", "acls"} /\ At("install", o)
    BY DEF CreateObject, Do
<1>2. /\ cmd' = With(cmd, Rest) /\ objs' = objs \cup {o}
      /\ UNCHANGED <<up, others, app, token, template, smoke, worker, linked, sys, blocks, ctl, scaleSet,
                     warned, faults>>
    BY DEF CreateObject, Do, poolVars, guestVars
<1>3. cmd \in Commands /\ cmd.kind = "install" /\ ~Unapplied  BY <1>1, AtInstall
<1>4. PICK k \in 1..36 : Made(k, objs) /\ Built(k) /\ Full[k] = o /\ Rest = PlanAt[Goes[k]]
    BY <1>1, AtInstall
<1>5. Made(Goes[k], objs') /\ Goes[k] \in 1..37
    <2>1. objs \subseteq objs' /\ Full[k] \in objs'  BY <1>2, <1>4
    <2> QED  BY <2>1, <1>4, MadeGrows
<1>6. k \in {1, 3, 4, 5, 6, 11, 21}
    <2>1. CASE o = "binary" \/ o = "sysPool" \/ o = "runPool"  BY <2>1, <1>4, Where
    <2>2. CASE o = "role" \/ o = "user"  BY <2>2, <1>4, Where
    <2>3. CASE o = "tuning" \/ o = "acls"  BY <2>3, <1>4, Where
    <2> QED  BY <1>1, <2>1, <2>2, <2>3
<1>7. Goes[k] = k + 1  BY <1>6 DEF Goes
<1>8. Built(k + 1)'  BY <1>2, <1>4, <1>6 DEF Built
<1>9. CmdInv' /\ ~Unapplied'
    <2>1. Goes[k] # 37 => Made(Goes[k], objs') /\ Built(Goes[k])'  BY <1>5, <1>7, <1>8
    <2> QED  BY <1>2, <1>3, <1>4, <1>5, <2>1, InstallGoesOn
<1>10. NodeInv'  BY <1>1, <1>2, <1>3, <1>9 DEF NodeInv, NodeOK, Flawless, ConfigInv, GitHubOK, Objects
<1> QED  BY <1>9, <1>10

LEMMA SaveSettingsKeeps ==
    ASSUME CmdInv, NodeInv, SaveSettings
    PROVE  CmdInv' /\ NodeInv'
<1>1. At("install", "settings") /\ cmd' = With(cmd, Rest) /\ objs' = objs \cup {"settings"}  BY DEF SaveSettings, Do
<1>2. UNCHANGED <<up, others, app, token, template, smoke, worker, linked, sys, blocks, ctl, scaleSet, warned, faults>>
    BY DEF SaveSettings, Do, poolVars, guestVars
<1>3. cmd \in Commands /\ cmd.kind = "install" /\ ~Unapplied  BY <1>1, AtInstall
<1>4. PICK k \in 1..36 : Made(k, objs) /\ Built(k) /\ Full[k] = "settings" /\ Rest = PlanAt[Goes[k]]
    BY <1>1, AtInstall
<1>5. k = 2 /\ Goes[2] = 3  BY <1>4, Where DEF Goes
<1>6. Made(3, objs')  BY <1>1, <1>4, <1>5, MadeGrows
<1>7. Built(3)'  BY DEF Built
<1>8. CmdInv' /\ ~Unapplied'  BY <1>1, <1>3, <1>4, <1>5, <1>6, <1>7, InstallGoesOn
<1>9. NodeInv'  BY <1>1, <1>2, <1>3, <1>8 DEF NodeInv, NodeOK, Flawless, ConfigInv, GitHubOK, Objects
<1> QED  BY <1>8, <1>9

LEMMA CreateSDNKeeps ==
    ASSUME CmdInv, NodeInv, NEW o, CreateSDN(o)
    PROVE  CmdInv' /\ NodeInv'
<1> DEFINE c == [cmd EXCEPT !.changed = @ \/ o \notin objs]
<1>1. o \in {"zone", "vnet"} /\ At("install", o) /\ cmd' = With(c, Rest) /\ objs' = objs \cup {o}  BY DEF CreateSDN
<1>2. UNCHANGED <<up, others, app, token, template, smoke, worker, linked, sys, blocks, ctl, scaleSet, warned, faults>>
    BY DEF CreateSDN, poolVars, guestVars
<1>3. cmd \in Commands /\ cmd.kind = "install" /\ ~Unapplied  BY <1>1, AtInstall
<1>4. PICK k \in 1..36 : Made(k, objs) /\ Built(k) /\ Full[k] = o /\ Rest = PlanAt[Goes[k]]
    BY <1>1, AtInstall
<1>5. k \in {7, 8}
    <2>1. CASE o = "zone"  BY <2>1, <1>4, Where
    <2>2. CASE o = "vnet"  BY <2>2, <1>4, Where
    <2> QED  BY <1>1, <2>1, <2>2
<1>6. Goes[k] = k + 1 /\ k + 1 \in 1..37  BY <1>5 DEF Goes
<1>7. Made(k + 1, objs')  BY <1>1, <1>4, <1>6, MadeGrows
<1>8. Built(k + 1)'  BY <1>5 DEF Built
<1>9. c \in Commands /\ c.kind = "install"
    <2>1. cmd.changed \in BOOLEAN  BY <1>3 DEF Commands
    <2>2. (cmd.changed \/ o \notin objs) \in BOOLEAN  OBVIOUS
    <2> QED  BY <1>3, <2>2 DEF Commands
<1> HIDE DEF c
<1>10. CmdInv' /\ ~Unapplied'  BY <1>1, <1>4, <1>6, <1>7, <1>8, <1>9, InstallGoesOn
<1>11. NodeInv'  BY <1>1, <1>2, <1>3, <1>10 DEF NodeInv, NodeOK, Flawless, ConfigInv, GitHubOK, Objects
<1> QED  BY <1>10, <1>11

LEMMA ApplySDNKeeps ==
    ASSUME CmdInv, NodeInv, ApplySDN
    PROVE  CmdInv' /\ NodeInv'
<1>1. /\ At("install", "apply") /\ cmd' = With(cmd, Rest)
      /\ IF cmd.changed THEN AppliedSDN ELSE UNCHANGED <<up, others>>
    BY DEF ApplySDN, Do
<1>2. UNCHANGED <<objs, app, token, template, smoke, worker, linked, sys, blocks, ctl, scaleSet, warned, faults>>
    BY DEF ApplySDN, Do, poolVars, guestVars
<1>3. cmd \in Commands /\ cmd.kind = "install" /\ ~Unapplied  BY <1>1, AtInstall
<1>4. PICK k \in 1..36 : Made(k, objs) /\ Built(k) /\ Full[k] = "apply" /\ Rest = PlanAt[Goes[k]]
    BY <1>1, AtInstall
<1>5. k = 9 /\ Goes[9] = 10  BY <1>4, Where DEF Goes
<1>6. Full[9] \notin Objects  BY DEF Full, Objects
<1>7. Made(10, objs')  BY <1>2, <1>4, <1>5, <1>6, MadeGrows
<1>8. "vnet" \in objs
    <2>1. Full[8] = "vnet" /\ "vnet" \in Objects  BY DEF Full, Objects
    <2> QED  BY <1>4, <1>5, <2>1 DEF Made
<1>9. cmd'.changed = cmd.changed
    <2>1. Rest = PlanAt[10]  BY <1>4, <1>5
    <2>2. PlanAt[10] \in Seq(Steps)
        <3>1. 10 \in 1..36  OBVIOUS
        <3> HIDE DEF PlanAt
        <3> QED  BY <3>1, Positions, Zenon
    <2>3. Rest \in Seq(Steps)  BY <2>1, <2>2
    <2> QED  BY <2>3, <1>1, <1>3, WithPlan
<1>10. Built(10)'
    <2>1. cmd.changed => up'  BY <1>1, <1>8, Zenon DEF AppliedSDN
    <2>2. cmd'.changed => up'  BY <2>1, <1>9, Zenon
    <2> QED  BY <2>2 DEF Built
<1>11. CmdInv' /\ ~Unapplied'  BY <1>1, <1>3, <1>4, <1>5, <1>7, <1>10, InstallGoesOn
<1>12. NodeInv'
    <2>1. NodeOK'
        <3>1. (up' = TRUE /\ others' = FALSE) \/ (up' = up /\ others' = others)  BY <1>1, <1>8 DEF AppliedSDN
        <3>2. up' \in BOOLEAN /\ others' \in BOOLEAN  BY <3>1, Zenon DEF NodeInv, NodeOK
        <3> QED  BY <3>2, <1>2 DEF NodeInv, NodeOK
    <2>2. Flawless'  BY <1>2, <1>8 DEF NodeInv, Flawless, GitHubOK
    <2>3. ConfigInv'  BY <1>2 DEF NodeInv, ConfigInv
    <2> QED  BY <2>1, <2>2, <2>3 DEF NodeInv
<1> QED  BY <1>11, <1>12

\* A step of install that waits or checks.
LEMMA CheckKeeps ==
    ASSUME CmdInv, NodeInv, NEW step, NEW ok, Check(step, ok),
           \/ step = "vnetUp" /\ (ok => up)
           \/ step = "checkProxmox" /\ (ok => ProxmoxOK)
           \/ step = "checkGitHub" /\ (ok => GitHubOK)
           \/ step = "session" /\ (ok => ctl.session = "new")
    PROVE  CmdInv' /\ NodeInv'
<1>1. At("install", step) /\ cmd' = With(cmd, Rest) /\ ok  BY DEF Check, Do
<1>2. UNCHANGED <<objs, up, others, app, token, template, smoke, worker, linked, sys, blocks, ctl, scaleSet,
                  warned, faults>>
    BY DEF Check, Do, hostVars, poolVars, guestVars
<1>3. cmd \in Commands /\ cmd.kind = "install" /\ ~Unapplied  BY <1>1, AtInstall
<1>4. PICK k \in 1..36 : Made(k, objs) /\ Built(k) /\ Full[k] = step /\ Rest = PlanAt[Goes[k]]
    BY <1>1, AtInstall
<1>5. (k = 10 /\ up) \/ (k = 22 /\ ProxmoxOK) \/ (k = 29 /\ GitHubOK) \/ (k = 35 /\ ctl.session = "new")
    <2>1. CASE step = "vnetUp" /\ (ok => up)  BY <2>1, <1>1, <1>4, Where
    <2>2. CASE step = "checkProxmox" /\ (ok => ProxmoxOK)  BY <2>2, <1>1, <1>4, Where
    <2>3. CASE step = "checkGitHub" /\ (ok => GitHubOK)  BY <2>3, <1>1, <1>4, Where
    <2>4. CASE step = "session" /\ (ok => ctl.session = "new")  BY <2>4, <1>1, <1>4, Where
    <2> QED  BY <2>1, <2>2, <2>3, <2>4
<1>6. Goes[k] = k + 1 /\ k + 1 \in 1..37  BY <1>5 DEF Goes
<1>7. Full[k] \notin Objects
    <2>1. Full[10] \notin Objects /\ Full[22] \notin Objects /\ Full[29] \notin Objects /\ Full[35] \notin Objects
        BY DEF Full, Objects
    <2> QED  BY <2>1, <1>5
<1>8. Made(k + 1, objs')  BY <1>2, <1>4, <1>6, <1>7, MadeGrows
<1>9. Built(k + 1)'  BY <1>2, <1>4, <1>5 DEF Built, ProxmoxOK, GitHubOK
<1>10. CmdInv' /\ ~Unapplied'  BY <1>1, <1>3, <1>4, <1>6, <1>8, <1>9, InstallGoesOn
<1>11. NodeInv'  BY <1>2, <1>3, <1>10 DEF NodeInv, NodeOK, Flawless, ConfigInv, GitHubOK
<1> QED  BY <1>10, <1>11

-----------------------------------------------------------------------------
(* install: the template and the system VMs *)

\* install stays at its position.
LEMMA InstallStays ==
    ASSUME CmdInv, cmd.pc = "run", cmd.kind = "install", NEW k \in 1..36, cmd.plan = PlanAt[k],
           cmd' \in Commands, cmd'.pc = "run", cmd'.kind = "install", cmd'.plan = cmd.plan,
           Made(k, objs'), Built(k)'
    PROVE  CmdInv' /\ ~Unapplied'
<1>1. InstallShape'
    <2> SUFFICES \E i \in 1..36 : cmd'.plan = PlanAt[i] /\ Made(i, objs') /\ Built(i)'
        BY DEF InstallShape
    <2>1. cmd'.plan = PlanAt[k] /\ Made(k, objs') /\ Built(k)'  OBVIOUS
    <2> WITNESS k \in 1..36
    <2> QED  BY <2>1
<1>2. cmd'.plan # <<>>  BY DEF CmdInv, CmdOK
<1> QED  BY <1>1, <1>2 DEF CmdInv, CmdOK, UninstallShape, Removed, Unapplied

LEMMA ImportTemplateKeeps ==
    ASSUME CmdInv, NodeInv, ImportTemplate
    PROVE  CmdInv' /\ NodeInv'
<1>1. At("install", "template")  BY DEF ImportTemplate
<1>2. UNCHANGED <<objs, up, others, app, token, worker, linked, sys, blocks, ctl, scaleSet, warned, faults>>
    BY DEF ImportTemplate, hostVars, guestVars
<1>3. template' \in {"none", "import", "template"} /\ (template = "template" => template' = "template")
    BY DEF ImportTemplate, NodeInv, NodeOK
<1>4. smoke' \subseteq smoke  BY DEF ImportTemplate
<1>5. \/ template' = "template" /\ cmd' = With(cmd, Rest)
      \/ cmd' = [cmd EXCEPT !.made = @ \cup {"template"}]
      \/ cmd' = cmd
    BY DEF ImportTemplate
<1>6. cmd \in Commands /\ cmd.pc = "run" /\ cmd.kind = "install" /\ ~Unapplied  BY <1>1, AtInstall
<1>7. PICK k \in 1..36 :
          Made(k, objs) /\ Built(k) /\ Full[k] = "template" /\ cmd.plan = PlanAt[k] /\ Rest = PlanAt[Goes[k]]
    BY <1>1, AtInstall
<1>8. k = 12 /\ Goes[12] = 13  BY <1>7, Where DEF Goes
<1>9. CmdInv' /\ ~Unapplied'
    <2>1. CASE template' = "template" /\ cmd' = With(cmd, Rest)
        <3>1. Full[12] \notin Objects  BY DEF Full, Objects
        <3>2. Made(13, objs')  BY <1>2, <1>7, <1>8, <3>1, MadeGrows
        <3>3. Built(13)'  BY <2>1, <1>2, <1>7, <1>8 DEF Built
        <3> QED  BY <2>1, <1>6, <1>7, <1>8, <3>2, <3>3, InstallGoesOn
    <2>2. CASE cmd' = [cmd EXCEPT !.made = @ \cup {"template"}] \/ cmd' = cmd
        <3>1. /\ cmd' \in Commands /\ cmd'.pc = "run" /\ cmd'.kind = "install" /\ cmd'.plan = cmd.plan
            BY <2>2, <1>6 DEF Commands
        <3>2. Built(12)'  BY <1>2, <1>7, <1>8 DEF Built
        <3> QED  BY <1>2, <1>6, <1>7, <1>8, <3>1, <3>2, InstallStays
    <2> QED  BY <1>5, <2>1, <2>2
<1>10. NodeInv'
    <2>1. NodeOK'  BY <1>2, <1>3, <1>4, ZenonT(40) DEF NodeInv, NodeOK
    <2>2. Flawless'  BY <1>2, <1>6 DEF NodeInv, Flawless, GitHubOK
    <2>3. ConfigInv'  BY <1>2 DEF NodeInv, ConfigInv
    <2> QED  BY <2>1, <2>2, <2>3 DEF NodeInv
<1> QED  BY <1>9, <1>10

LEMMA BuildVMKeeps ==
    ASSUME CmdInv, NodeInv, NEW x \in SystemVMs, BuildVM(x)
    PROVE  CmdInv' /\ NodeInv'
<1>1. At("install", x) /\ sys' = [sys EXCEPT ![x] = NextStage(x)]  BY DEF BuildVM
<1>2. UNCHANGED <<objs, up, others, app, token, template, smoke, worker, linked, ctl, scaleSet, warned, faults>>
    BY DEF BuildVM, hostVars, poolVars
<1>3. blocks' \in BOOLEAN
    <2>1. blocks' = (blocks /\ ~(x = "gateway" /\ sys[x] = "none"))  BY DEF BuildVM
    <2> QED  BY <2>1, Zenon
<1>4. \/ NextStage(x) \in Running /\ cmd' = With(cmd, Rest)
      \/ cmd' = [cmd EXCEPT !.made = @ \cup {x}]
      \/ cmd' = cmd
    BY DEF BuildVM
<1>5. sys[x] \in Stages  BY DEF NodeInv, NodeOK
<1>6. /\ NextStage(x) \in Stages
      /\ sys[x] \in Running => NextStage(x) = sys[x]
      /\ sys[x] = "off" => NextStage(x) = "up"
    BY <1>5 DEF NextStage, Stages, Running
<1>7. sys' \in [SystemVMs -> Stages] /\ sys'[x] = NextStage(x) /\ \A y \in SystemVMs : y # x => sys'[y] = sys[y]
    BY <1>1, <1>6 DEF NodeInv, NodeOK
<1>8. cmd \in Commands /\ cmd.pc = "run" /\ cmd.kind = "install" /\ ~Unapplied  BY <1>1, AtInstall
<1>9. PICK k \in 1..36 : Made(k, objs) /\ Built(k) /\ Full[k] = x /\ cmd.plan = PlanAt[k] /\ Rest = PlanAt[Goes[k]]
    BY <1>1, AtInstall
<1>10. (k = 13 /\ x = "gateway") \/ (k = 15 /\ x = "controller")
    <2>1. CASE x = "gateway"  BY <2>1, <1>9, Where
    <2>2. CASE x = "controller"  BY <2>2, <1>9, Where
    <2> QED  BY <2>1, <2>2 DEF SystemVMs
<1>11. Goes[k] = k + 1 /\ k + 1 \in 1..37  BY <1>10 DEF Goes
<1>12. "gateway" \in SystemVMs /\ "controller" \in SystemVMs  BY DEF SystemVMs
<1>13. CmdInv' /\ ~Unapplied'
    <2>1. CASE NextStage(x) \in Running /\ cmd' = With(cmd, Rest)
        <3>1. Full[k] \notin Objects
            <4>1. Full[13] \notin Objects /\ Full[15] \notin Objects  BY DEF Full, Objects
            <4> QED  BY <4>1, <1>10
        <3>2. Made(k + 1, objs')  BY <1>2, <1>9, <1>11, <3>1, MadeGrows
        <3>3. Built(k + 1)'  BY <2>1, <1>2, <1>7, <1>9, <1>10, <1>12 DEF Built
        <3> QED  BY <2>1, <1>8, <1>9, <1>11, <3>2, <3>3, InstallGoesOn
    <2>2. CASE cmd' = [cmd EXCEPT !.made = @ \cup {x}] \/ cmd' = cmd
        <3>1. /\ cmd' \in Commands /\ cmd'.pc = "run" /\ cmd'.kind = "install" /\ cmd'.plan = cmd.plan
            BY <2>2, <1>8 DEF Commands
        <3>2. Built(k)'  BY <1>2, <1>7, <1>9, <1>10, <1>12 DEF Built
        <3> QED  BY <1>2, <1>8, <1>9, <3>1, <3>2, InstallStays
    <2> QED  BY <1>4, <2>1, <2>2
<1>14. sys["controller"] \in Running => sys'["controller"] \in Running  BY <1>6, <1>7, <1>12
<1>15. sys'["controller"] \notin Running \cup {"off"} => sys["controller"] \notin Running \cup {"off"}
    BY <1>6, <1>7, <1>12 DEF Running
<1>16. NodeInv'
    <2>1. NodeOK'  BY <1>2, <1>3, <1>7, <1>15 DEF NodeInv, NodeOK
    <2>2. Flawless'  BY <1>2, <1>8, <1>14 DEF NodeInv, Flawless, GitHubOK
    <2>3. ConfigInv'  BY <1>2 DEF NodeInv, ConfigInv
    <2> QED  BY <2>1, <2>2, <2>3 DEF NodeInv
<1> QED  BY <1>13, <1>16

LEMMA ConfigureGatewayKeeps ==
    ASSUME CmdInv, NodeInv, ConfigureGateway("configure", FALSE) \/ ConfigureGateway("block", TRUE)
    PROVE  CmdInv' /\ NodeInv'
<1>1. UNCHANGED <<objs, up, others, app, token, template, smoke, worker, linked, sys, ctl, scaleSet, warned, faults>>
    BY DEF ConfigureGateway, Do, hostVars, poolVars
<1>2. PICK step \in {"configure", "block"} :
          At("install", step) /\ cmd' = With(cmd, Rest) /\ blocks' = (step = "block")
    BY DEF ConfigureGateway, Do
<1>3. cmd \in Commands /\ cmd.kind = "install" /\ ~Unapplied  BY <1>2, AtInstall
<1>4. PICK k \in 1..36 : Made(k, objs) /\ Built(k) /\ Full[k] = step /\ Rest = PlanAt[Goes[k]]
    BY <1>2, AtInstall
<1>5. k = 14 \/ (k = 16 /\ blocks' = TRUE)
    <2>1. CASE step = "configure"  BY <2>1, <1>4, Where
    <2>2. CASE step = "block"
        <3>1. blocks' = TRUE  BY <2>2, <1>2, Zenon
        <3> QED  BY <3>1, <2>2, <1>4, Where
    <2> QED  BY <2>1, <2>2
<1>6. Goes[k] = k + 1 /\ k + 1 \in 1..37  BY <1>5 DEF Goes
<1>7. Full[k] \notin Objects
    <2>1. Full[14] \notin Objects /\ Full[16] \notin Objects  BY DEF Full, Objects
    <2> QED  BY <2>1, <1>5
<1>8. Made(k + 1, objs')  BY <1>1, <1>4, <1>6, <1>7, MadeGrows
<1>9. Built(k + 1)'  BY <1>1, <1>4, <1>5 DEF Built
<1>10. CmdInv' /\ ~Unapplied'  BY <1>2, <1>3, <1>4, <1>6, <1>8, <1>9, InstallGoesOn
<1>11. NodeInv'
    <2>1. blocks' \in BOOLEAN  BY <1>2, Zenon
    <2>2. NodeOK'  BY <1>1, <2>1 DEF NodeInv, NodeOK
    <2>3. Flawless'  BY <1>1, <1>3 DEF NodeInv, Flawless, GitHubOK
    <2>4. ConfigInv'  BY <1>1 DEF NodeInv, ConfigInv
    <2> QED  BY <2>2, <2>3, <2>4 DEF NodeInv
<1> QED  BY <1>10, <1>11

-----------------------------------------------------------------------------
(* install: the controller's files *)

\* A step that changes the controller VM's files, the token or the App in the settings, and goes on at position j.
LEMMA ControllerStep ==
    ASSUME CmdInv, NodeInv, NEW k \in 1..36, k > 15, Made(k, objs), Built(k), ~Unapplied,
           NEW c \in Commands, c.kind = "install", NEW j \in 1..37, cmd' = With(c, PlanAt[j]), Made(j, objs),
           UNCHANGED <<objs, up, others, template, smoke, worker, linked, sys, blocks, scaleSet, warned>>,
           ctl' \in Controller, token' \in BOOLEAN, app' \in AppStates,
           faults' \in 0..MaxFaults, faults' = faults \/ faults' # 0,
           ctl'.key = "saved" => app' # "none",
           ConfigInv', scaleSet /\ GitHubOK => GitHubOK',
           j # 37 => Built(j)'
    PROVE  CmdInv' /\ NodeInv'
<1>1. CmdInv' /\ ~Unapplied'  BY InstallGoesOn
<1>2. NodeOK'  BY DEF NodeInv, NodeOK, Built
<1>3. Flawless'  BY <1>1 DEF NodeInv, Flawless
<1> QED  BY <1>1, <1>2, <1>3 DEF NodeInv

\* What DoController leaves alone, and where it is.
LEMMA AtController ==
    ASSUME CmdInv, NodeInv, NEW step, NEW files, NEW plan, DoController(step, files, plan)
    PROVE  /\ ctl' = files /\ cmd' = With(cmd, plan)
           /\ UNCHANGED <<objs, up, others, template, smoke, worker, linked, sys, blocks, scaleSet, warned>>
           /\ faults' \in 0..MaxFaults /\ faults' = faults
           /\ ctl \in Controller /\ token \in BOOLEAN /\ app \in AppStates
           /\ cmd \in Commands /\ cmd.kind = "install" /\ ~Unapplied
           /\ \E k \in 1..36 : /\ Made(k, objs) /\ Built(k)
                               /\ Full[k] = step
                               /\ cmd.plan = PlanAt[k] /\ Rest = PlanAt[Goes[k]]
<1>1. At("install", step) /\ ctl' = files /\ cmd' = With(cmd, plan)  BY DEF DoController
<1>2. UNCHANGED <<objs, up, others, template, smoke, worker, linked, sys, blocks, scaleSet, warned, faults>>
    BY DEF DoController, poolVars
<1>3. ctl \in Controller /\ token \in BOOLEAN /\ app \in AppStates /\ faults \in 0..MaxFaults
    BY DEF NodeInv, NodeOK
<1> QED  BY <1>1, <1>2, <1>3, AtInstall

LEMMA PushConfigKeeps ==
    ASSUME CmdInv, NodeInv, PushConfig
    PROVE  CmdInv' /\ NodeInv'
<1> DEFINE f == [ctl EXCEPT !.config = app]
<1>1. DoController("push", f, Rest) /\ UNCHANGED <<app, token>>  BY DEF PushConfig
<1> HIDE DEF f
<1>2. /\ ctl' = f /\ cmd' = With(cmd, Rest)
      /\ UNCHANGED <<objs, up, others, template, smoke, worker, linked, sys, blocks, scaleSet, warned>>
      /\ faults' \in 0..MaxFaults /\ faults' = faults
      /\ ctl \in Controller /\ token \in BOOLEAN /\ app \in AppStates
      /\ cmd \in Commands /\ cmd.kind = "install" /\ ~Unapplied
    BY <1>1, AtController
<1>3. PICK k \in 1..36 : Made(k, objs) /\ Built(k) /\ Full[k] = "push" /\ Rest = PlanAt[Goes[k]]
    BY <1>1, AtController
<1>4. k \in {17, 25, 28}  BY <1>3, Where
<1>5. Goes[k] = k + 1 /\ k + 1 \in 1..37  BY <1>4 DEF Goes
<1>6. Full[k] \notin Objects  BY <1>3 DEF Objects
<1>7. Made(k + 1, objs)  BY <1>3, <1>5, <1>6, MadeGrows
<1>8. /\ f \in Controller /\ f.config = app /\ f.secret = ctl.secret /\ f.key = ctl.key /\ f.service = ctl.service
      /\ f.session = ctl.session
    BY <1>2 DEF Controller, f
<1>9. Built(k + 1)'  BY <1>1, <1>2, <1>3, <1>4, <1>8 DEF Built
<1>10. ConfigInv' /\ (ctl'.key = "saved" => app' # "none")  BY <1>1, <1>2, <1>8 DEF ConfigInv, NodeInv, NodeOK
<1>11. GitHubOK => GitHubOK'  BY <1>1, <1>2, <1>8 DEF ConfigInv, NodeInv, GitHubOK
<1>12. k > 15  BY <1>4
<1>13. cmd' = With(cmd, PlanAt[k + 1])  BY <1>2, <1>3, <1>5
<1>14. ctl' \in Controller /\ token' \in BOOLEAN /\ app' \in AppStates  BY <1>1, <1>2, <1>8
<1> QED  BY <1>2, <1>3, <1>5, <1>7, <1>9, <1>10, <1>11, <1>12, <1>13, <1>14, ControllerStep

LEMMA AddTokenKeeps ==
    ASSUME CmdInv, NodeInv, AddToken
    PROVE  CmdInv' /\ NodeInv'
<1> DEFINE f == Invalidated
<1>1. DoController("addToken", f, Rest) /\ token' = TRUE /\ UNCHANGED app  BY DEF AddToken
<1> HIDE DEF f
<1>2. /\ ctl' = f /\ cmd' = With(cmd, Rest)
      /\ UNCHANGED <<objs, up, others, template, smoke, worker, linked, sys, blocks, scaleSet, warned>>
      /\ faults' \in 0..MaxFaults /\ faults' = faults
      /\ ctl \in Controller /\ token \in BOOLEAN /\ app \in AppStates
      /\ cmd \in Commands /\ cmd.kind = "install" /\ ~Unapplied
    BY <1>1, AtController
<1>3. PICK k \in 1..36 : Made(k, objs) /\ Built(k) /\ Full[k] = "addToken" /\ Rest = PlanAt[Goes[k]]
    BY <1>1, AtController
<1>4. k = 19 /\ Goes[19] = 20  BY <1>3, Where DEF Goes
<1>5. Made(20, objs)
    <2>1. Full[k] \notin Objects  BY <1>3 DEF Objects
    <2> QED  BY <2>1, <1>3, <1>4, MadeGrows
<1>6. f \in Controller /\ f.config = ctl.config /\ f.key = ctl.key /\ f.service = ctl.service /\ f.session = ctl.session
    BY <1>2 DEF Controller, f, Invalidated
<1>7. Built(20)'  BY <1>1, <1>2, <1>3, <1>4, <1>6 DEF Built
<1>8. ConfigInv' /\ (ctl'.key = "saved" => app' # "none")
    BY <1>1, <1>2, <1>3, <1>4, <1>6 DEF ConfigInv, NodeInv, NodeOK, Built
<1>9. GitHubOK => GitHubOK'  BY <1>1, <1>2, <1>3, <1>4, <1>6 DEF GitHubOK, Built
<1>10. cmd' = With(cmd, PlanAt[20])  BY <1>2, <1>3, <1>4
<1>11. ctl' \in Controller /\ token' \in BOOLEAN /\ app' \in AppStates  BY <1>1, <1>2, <1>6 DEF AppStates
<1>12. 19 > 15 /\ 20 \in 1..37  OBVIOUS
<1> QED  BY <1>2, <1>3, <1>4, <1>5, <1>7, <1>8, <1>9, <1>10, <1>11, <1>12, ControllerStep

LEMMA WriteSecretKeeps ==
    ASSUME CmdInv, NodeInv, WriteSecret
    PROVE  CmdInv' /\ NodeInv'
<1> DEFINE f == [ctl EXCEPT !.secret = "current"]
<1>1. DoController("writeSecret", f, Rest) /\ UNCHANGED <<app, token>>  BY DEF WriteSecret
<1> HIDE DEF f
<1>2. /\ ctl' = f /\ cmd' = With(cmd, Rest)
      /\ UNCHANGED <<objs, up, others, template, smoke, worker, linked, sys, blocks, scaleSet, warned>>
      /\ faults' \in 0..MaxFaults /\ faults' = faults
      /\ ctl \in Controller /\ token \in BOOLEAN /\ app \in AppStates
      /\ cmd \in Commands /\ cmd.kind = "install" /\ ~Unapplied
    BY <1>1, AtController
<1>3. PICK k \in 1..36 : Made(k, objs) /\ Built(k) /\ Full[k] = "writeSecret" /\ Rest = PlanAt[Goes[k]]
    BY <1>1, AtController
<1>4. k = 20 /\ Goes[20] = 21  BY <1>3, Where DEF Goes
<1>5. Made(21, objs)
    <2>1. Full[k] \notin Objects  BY <1>3 DEF Objects
    <2> QED  BY <2>1, <1>3, <1>4, MadeGrows
<1>6. f \in Controller /\ f.config = ctl.config /\ f.key = ctl.key /\ f.service = ctl.service
      /\ f.session = ctl.session /\ f.secret = "current"
    BY <1>2 DEF Controller, f
<1>7. Built(21)'  BY <1>1, <1>2, <1>3, <1>4, <1>6 DEF Built
<1>8. ConfigInv' /\ (ctl'.key = "saved" => app' # "none")
    BY <1>1, <1>2, <1>3, <1>4, <1>6 DEF ConfigInv, NodeInv, NodeOK, Built
<1>9. GitHubOK => GitHubOK'  BY <1>1, <1>2, <1>3, <1>4, <1>6 DEF GitHubOK, Built
<1>10. cmd' = With(cmd, PlanAt[21])  BY <1>2, <1>3, <1>4
<1>11. ctl' \in Controller /\ token' \in BOOLEAN /\ app' \in AppStates  BY <1>1, <1>2, <1>6 DEF AppStates
<1>12. 20 > 15 /\ 21 \in 1..37  OBVIOUS
<1> QED  BY <1>2, <1>3, <1>4, <1>5, <1>7, <1>8, <1>9, <1>10, <1>11, <1>12, ControllerStep

LEMMA SaveClientKeeps ==
    ASSUME CmdInv, NodeInv, SaveClient
    PROVE  CmdInv' /\ NodeInv'
<1> DEFINE f == [ctl EXCEPT !.key = "saved"]
<1>1. DoController("saveClient", f, Rest) /\ app' = "client" /\ UNCHANGED token  BY DEF SaveClient
<1> HIDE DEF f
<1>2. /\ ctl' = f /\ cmd' = With(cmd, Rest)
      /\ UNCHANGED <<objs, up, others, template, smoke, worker, linked, sys, blocks, scaleSet, warned>>
      /\ faults' \in 0..MaxFaults /\ faults' = faults
      /\ ctl \in Controller /\ token \in BOOLEAN /\ app \in AppStates
      /\ cmd \in Commands /\ cmd.kind = "install" /\ ~Unapplied
    BY <1>1, AtController
<1>3. PICK k \in 1..36 : Made(k, objs) /\ Built(k) /\ Full[k] = "saveClient" /\ Rest = PlanAt[Goes[k]]
    BY <1>1, AtController
<1>4. k = 24 /\ Goes[24] = 25  BY <1>3, Where DEF Goes
<1>5. Made(25, objs)
    <2>1. Full[k] \notin Objects  BY <1>3 DEF Objects
    <2> QED  BY <2>1, <1>3, <1>4, MadeGrows
<1>6. f \in Controller /\ f.key = "saved" /\ f.config = ctl.config /\ f.secret = ctl.secret /\ f.service = ctl.service
      /\ f.session = ctl.session
    BY <1>2 DEF Controller, f
<1>7. Built(25)'  BY <1>1, <1>2, <1>3, <1>4, <1>6 DEF Built
<1>8. ConfigInv' /\ (ctl'.key = "saved" => app' # "none")
    BY <1>1, <1>2, <1>3, <1>4, <1>6 DEF ConfigInv, NodeInv, NodeOK, Built
<1>9. GitHubOK => GitHubOK'  BY <1>1, <1>2, <1>3, <1>4, <1>6 DEF GitHubOK, Built
<1>10. cmd' = With(cmd, PlanAt[25])  BY <1>2, <1>3, <1>4
<1>11. ctl' \in Controller /\ token' \in BOOLEAN /\ app' \in AppStates  BY <1>1, <1>2, <1>6 DEF AppStates
<1>12. 24 > 15 /\ 25 \in 1..37  OBVIOUS
<1> QED  BY <1>2, <1>3, <1>4, <1>5, <1>7, <1>8, <1>9, <1>10, <1>11, <1>12, ControllerStep

LEMMA SaveInstallationKeeps ==
    ASSUME CmdInv, NodeInv, SaveInstallation
    PROVE  CmdInv' /\ NodeInv'
<1> DEFINE f == ctl
<1>1. DoController("saveInstallation", f, Rest) /\ app' = "installed" /\ UNCHANGED token  BY DEF SaveInstallation
<1> HIDE DEF f
<1>2. /\ ctl' = f /\ cmd' = With(cmd, Rest)
      /\ UNCHANGED <<objs, up, others, template, smoke, worker, linked, sys, blocks, scaleSet, warned>>
      /\ faults' \in 0..MaxFaults /\ faults' = faults
      /\ ctl \in Controller /\ token \in BOOLEAN /\ app \in AppStates
      /\ cmd \in Commands /\ cmd.kind = "install" /\ ~Unapplied
    BY <1>1, AtController
<1>3. PICK k \in 1..36 : Made(k, objs) /\ Built(k) /\ Full[k] = "saveInstallation" /\ Rest = PlanAt[Goes[k]]
    BY <1>1, AtController
<1>4. k = 27 /\ Goes[27] = 28  BY <1>3, Where DEF Goes
<1>5. Made(28, objs)
    <2>1. Full[k] \notin Objects  BY <1>3 DEF Objects
    <2> QED  BY <2>1, <1>3, <1>4, MadeGrows
<1>6. f \in Controller /\ f.config = ctl.config /\ f.secret = ctl.secret /\ f.key = ctl.key
    BY <1>2 DEF Controller, f
<1>7. Built(28)'  BY <1>1, <1>2, <1>3, <1>4, <1>6 DEF Built
<1>8. ConfigInv' /\ (ctl'.key = "saved" => app' # "none")
    BY <1>1, <1>2, <1>3, <1>4, <1>6 DEF ConfigInv, NodeInv, NodeOK, Built
<1>9. GitHubOK => GitHubOK'  BY <1>1, <1>2, <1>3, <1>4, <1>6 DEF GitHubOK, Built
<1>10. cmd' = With(cmd, PlanAt[28])  BY <1>2, <1>3, <1>4
<1>11. ctl' \in Controller /\ token' \in BOOLEAN /\ app' \in AppStates  BY <1>1, <1>2, <1>6 DEF AppStates
<1>12. 27 > 15 /\ 28 \in 1..37  OBVIOUS
<1> QED  BY <1>2, <1>3, <1>4, <1>5, <1>7, <1>8, <1>9, <1>10, <1>11, <1>12, ControllerStep

LEMMA StartControllerKeeps ==
    ASSUME CmdInv, NodeInv, StartController
    PROVE  CmdInv' /\ NodeInv'
<1> DEFINE f == [ctl EXCEPT !.service = TRUE, !.session = IF @ = "new" THEN "old" ELSE @]
<1>1. DoController("service", f, Rest) /\ UNCHANGED <<app, token>>  BY DEF StartController
<1> HIDE DEF f
<1>2. /\ ctl' = f /\ cmd' = With(cmd, Rest)
      /\ UNCHANGED <<objs, up, others, template, smoke, worker, linked, sys, blocks, scaleSet, warned>>
      /\ faults' \in 0..MaxFaults /\ faults' = faults
      /\ ctl \in Controller /\ token \in BOOLEAN /\ app \in AppStates
      /\ cmd \in Commands /\ cmd.kind = "install" /\ ~Unapplied
    BY <1>1, AtController
<1>3. PICK k \in 1..36 : Made(k, objs) /\ Built(k) /\ Full[k] = "service" /\ Rest = PlanAt[Goes[k]]
    BY <1>1, AtController
<1>4. k = 30 /\ Goes[30] = 31  BY <1>3, Where DEF Goes
<1>5. Made(31, objs)
    <2>1. Full[k] \notin Objects  BY <1>3 DEF Objects
    <2> QED  BY <2>1, <1>3, <1>4, MadeGrows
<1>6. f \in Controller /\ f.config = ctl.config /\ f.secret = ctl.secret /\ f.key = ctl.key
      /\ f.service = TRUE /\ f.session # "new"
    BY <1>2 DEF Controller, f
<1>7. Built(31)'  BY <1>1, <1>2, <1>3, <1>4, <1>6 DEF Built
<1>8. ConfigInv' /\ (ctl'.key = "saved" => app' # "none")
    BY <1>1, <1>2, <1>3, <1>4, <1>6 DEF ConfigInv, NodeInv, NodeOK, Built
<1>9. GitHubOK => GitHubOK'  BY <1>1, <1>2, <1>3, <1>4, <1>6 DEF GitHubOK, Built
<1>10. cmd' = With(cmd, PlanAt[31])  BY <1>2, <1>3, <1>4
<1>11. ctl' \in Controller /\ token' \in BOOLEAN /\ app' \in AppStates  BY <1>1, <1>2, <1>6 DEF AppStates
<1>12. 30 > 15 /\ 31 \in 1..37  OBVIOUS
<1> QED  BY <1>2, <1>3, <1>4, <1>5, <1>7, <1>8, <1>9, <1>10, <1>11, <1>12, ControllerStep

LEMMA TagControllerKeeps ==
    ASSUME CmdInv, NodeInv, TagController
    PROVE  CmdInv' /\ NodeInv'
<1> DEFINE f == [ctl EXCEPT !.tag = TRUE]
<1>1. DoController("tag", f, Rest) /\ UNCHANGED <<app, token>>  BY DEF TagController
<1> HIDE DEF f
<1>2. /\ ctl' = f /\ cmd' = With(cmd, Rest)
      /\ UNCHANGED <<objs, up, others, template, smoke, worker, linked, sys, blocks, scaleSet, warned>>
      /\ faults' \in 0..MaxFaults /\ faults' = faults
      /\ ctl \in Controller /\ token \in BOOLEAN /\ app \in AppStates
      /\ cmd \in Commands /\ cmd.kind = "install" /\ ~Unapplied
    BY <1>1, AtController
<1>3. PICK k \in 1..36 : Made(k, objs) /\ Built(k) /\ Full[k] = "tag" /\ Rest = PlanAt[Goes[k]]
    BY <1>1, AtController
<1>4. k = 36 /\ Goes[36] = 37  BY <1>3, Where DEF Goes
<1>5. Made(37, objs)
    <2>1. Full[k] \notin Objects  BY <1>3 DEF Objects
    <2> QED  BY <2>1, <1>3, <1>4, MadeGrows
<1>6. f \in Controller /\ f.config = ctl.config /\ f.secret = ctl.secret /\ f.key = ctl.key
    BY <1>2 DEF Controller, f
<1>8. ConfigInv' /\ (ctl'.key = "saved" => app' # "none")
    BY <1>1, <1>2, <1>3, <1>4, <1>6 DEF ConfigInv, NodeInv, NodeOK, Built
<1>9. GitHubOK => GitHubOK'  BY <1>1, <1>2, <1>3, <1>4, <1>6 DEF GitHubOK, Built
<1>10. cmd' = With(cmd, PlanAt[37])  BY <1>2, <1>3, <1>4
<1>11. ctl' \in Controller /\ token' \in BOOLEAN /\ app' \in AppStates  BY <1>1, <1>2, <1>6 DEF AppStates
<1>12. 36 > 15 /\ 37 \in 1..37  OBVIOUS
<1> QED  BY <1>2, <1>3, <1>4, <1>5, <1>8, <1>9, <1>10, <1>11, <1>12, ControllerStep

LEMMA EnsureTokenKeeps ==
    ASSUME CmdInv, NodeInv, EnsureToken
    PROVE  CmdInv' /\ NodeInv'
<1>1. CASE token /\ ctl.secret # "none"
    <2> DEFINE f == ctl
    <2>1. DoController("token", f, Rest) /\ UNCHANGED <<app, token>>  BY <1>1 DEF EnsureToken
    <2> HIDE DEF f
    <2>2. /\ ctl' = f /\ cmd' = With(cmd, Rest)
          /\ UNCHANGED <<objs, up, others, template, smoke, worker, linked, sys, blocks, scaleSet, warned>>
          /\ faults' \in 0..MaxFaults /\ faults' = faults
          /\ ctl \in Controller /\ token \in BOOLEAN /\ app \in AppStates
          /\ cmd \in Commands /\ cmd.kind = "install" /\ ~Unapplied
        BY <2>1, AtController
    <2>3. PICK k \in 1..36 :
              Made(k, objs) /\ Built(k) /\ Full[k] = "token" /\ cmd.plan = PlanAt[k] /\ Rest = PlanAt[Goes[k]]
        BY <2>1, AtController
    <2>4. k = 18 /\ Goes[18] = 21  BY <2>3, Where DEF Goes
    <2>5. Made(21, objs)
        <3>1. Full[k] \notin Objects  BY <2>3 DEF Objects
        <3> QED  BY <3>1, <2>3, <2>4, MadeGrows
    <2>6. f \in Controller /\ f.config = ctl.config /\ f.secret = ctl.secret /\ f.key = ctl.key
          /\ f.service = ctl.service /\ f.session = ctl.session
        BY <2>2 DEF Controller, f, Invalidated
    <2>7. Built(21)'  BY <1>1, <2>1, <2>2, <2>3, <2>4, <2>6 DEF Built
    <2>8. ConfigInv' /\ (ctl'.key = "saved" => app' # "none")
        BY <1>1, <2>1, <2>2, <2>6 DEF ConfigInv, NodeInv, NodeOK
    <2>9. GitHubOK => GitHubOK'  BY <1>1, <2>1, <2>2, <2>6 DEF GitHubOK, NodeInv, ConfigInv
    <2>10. cmd' = With(cmd, PlanAt[21])
        BY <2>2, <2>3, <2>4
    <2>11. ctl' \in Controller /\ token' \in BOOLEAN /\ app' \in AppStates  BY <2>1, <2>2, <2>6
    <2>12. 18 > 15 /\ 21 \in 1..37  OBVIOUS
    <2> QED  BY <2>2, <2>3, <2>4, <2>5, <2>7, <2>8, <2>9, <2>10, <2>11, <2>12, ControllerStep
<1>2. CASE ~(token /\ ctl.secret # "none")
    <2> DEFINE f == Invalidated
    <2>1. DoController("token", f, <<"addToken", "writeSecret">> \o Rest) /\ token' = FALSE /\ UNCHANGED app
        BY <1>2 DEF EnsureToken
    <2> HIDE DEF f
    <2>2. /\ ctl' = f /\ cmd' = With(cmd, <<"addToken", "writeSecret">> \o Rest)
          /\ UNCHANGED <<objs, up, others, template, smoke, worker, linked, sys, blocks, scaleSet, warned>>
          /\ faults' \in 0..MaxFaults /\ faults' = faults
          /\ ctl \in Controller /\ token \in BOOLEAN /\ app \in AppStates
          /\ cmd \in Commands /\ cmd.kind = "install" /\ ~Unapplied
        BY <2>1, AtController
    <2>3. PICK k \in 1..36 :
              Made(k, objs) /\ Built(k) /\ Full[k] = "token" /\ cmd.plan = PlanAt[k] /\ Rest = PlanAt[Goes[k]]
        BY <2>1, AtController
    <2>4. k = 18 /\ Goes[18] = 21  BY <2>3, Where DEF Goes
    <2>5. Made(19, objs)
        <3>1. Full[k] \notin Objects  BY <2>3 DEF Objects
        <3> QED  BY <3>1, <2>3, <2>4, MadeGrows
    <2>6. f \in Controller /\ f.config = ctl.config /\ f.key = ctl.key /\ f.service = ctl.service
          /\ f.session = ctl.session
        BY <2>2 DEF Controller, f, Invalidated
    <2>7. Built(19)'  BY <1>2, <2>1, <2>2, <2>3, <2>4, <2>6 DEF Built
    <2>8. ConfigInv' /\ (ctl'.key = "saved" => app' # "none")
        BY <1>2, <2>1, <2>2, <2>6 DEF ConfigInv, NodeInv, NodeOK
    <2>9. GitHubOK => GitHubOK'  BY <1>2, <2>1, <2>2, <2>6 DEF GitHubOK, NodeInv, ConfigInv
    <2>10. cmd' = With(cmd, PlanAt[19])
        <3>1. Rest = Tail(PlanAt[18])  BY <2>3, <2>4 DEF Rest
        <3> QED  BY <3>1, <2>2, Positions
    <2>11. ctl' \in Controller /\ token' \in BOOLEAN /\ app' \in AppStates  BY <2>1, <2>2, <2>6
    <2>12. 18 > 15 /\ 19 \in 1..37  OBVIOUS
    <2> QED  BY <2>2, <2>3, <2>4, <2>5, <2>7, <2>8, <2>9, <2>10, <2>11, <2>12, ControllerStep
<1> QED  BY <1>1, <1>2

LEMMA SetupAppKeeps ==
    ASSUME CmdInv, NodeInv, SetupApp
    PROVE  CmdInv' /\ NodeInv'
<1>1. CASE app # "none"
    <2> DEFINE f == ctl
    <2>1. DoController("app", f, Rest) /\ UNCHANGED <<app, token>>  BY <1>1 DEF SetupApp
    <2> HIDE DEF f
    <2>2. /\ ctl' = f /\ cmd' = With(cmd, Rest)
          /\ UNCHANGED <<objs, up, others, template, smoke, worker, linked, sys, blocks, scaleSet, warned>>
          /\ faults' \in 0..MaxFaults /\ faults' = faults
          /\ ctl \in Controller /\ token \in BOOLEAN /\ app \in AppStates
          /\ cmd \in Commands /\ cmd.kind = "install" /\ ~Unapplied
        BY <2>1, AtController
    <2>3. PICK k \in 1..36 :
              Made(k, objs) /\ Built(k) /\ Full[k] = "app" /\ cmd.plan = PlanAt[k] /\ Rest = PlanAt[Goes[k]]
        BY <2>1, AtController
    <2>4. k = 23 /\ Goes[23] = 26  BY <2>3, Where DEF Goes
    <2>5. Made(26, objs)
        <3>1. Full[k] \notin Objects  BY <2>3 DEF Objects
        <3> QED  BY <3>1, <2>3, <2>4, MadeGrows
    <2>6. f \in Controller /\ f.config = ctl.config /\ f.secret = ctl.secret /\ f.key = ctl.key
        BY <2>2 DEF Controller, f, Invalidated
    <2>7. Built(26)'  BY <1>1, <2>1, <2>2, <2>3, <2>4, <2>6 DEF Built
    <2>8. ConfigInv' /\ (ctl'.key = "saved" => app' # "none")
        BY <1>1, <2>1, <2>2, <2>6 DEF ConfigInv, NodeInv, NodeOK
    <2>9. GitHubOK => GitHubOK'  BY <1>1, <2>1, <2>2, <2>6 DEF GitHubOK, NodeInv, ConfigInv
    <2>10. cmd' = With(cmd, PlanAt[26])
        BY <2>2, <2>3, <2>4
    <2>11. ctl' \in Controller /\ token' \in BOOLEAN /\ app' \in AppStates  BY <2>1, <2>2, <2>6
    <2>12. 23 > 15 /\ 26 \in 1..37  OBVIOUS
    <2> QED  BY <2>2, <2>3, <2>4, <2>5, <2>7, <2>8, <2>9, <2>10, <2>11, <2>12, ControllerStep
<1>2. CASE app = "none"
    <2> DEFINE f == [ctl EXCEPT !.key = "unsaved"]
    <2>1. DoController("app", f, <<"saveClient", "push">> \o Rest) /\ UNCHANGED <<app, token>>  BY <1>2 DEF SetupApp
    <2> HIDE DEF f
    <2>2. /\ ctl' = f /\ cmd' = With(cmd, <<"saveClient", "push">> \o Rest)
          /\ UNCHANGED <<objs, up, others, template, smoke, worker, linked, sys, blocks, scaleSet, warned>>
          /\ faults' \in 0..MaxFaults /\ faults' = faults
          /\ ctl \in Controller /\ token \in BOOLEAN /\ app \in AppStates
          /\ cmd \in Commands /\ cmd.kind = "install" /\ ~Unapplied
        BY <2>1, AtController
    <2>3. PICK k \in 1..36 :
              Made(k, objs) /\ Built(k) /\ Full[k] = "app" /\ cmd.plan = PlanAt[k] /\ Rest = PlanAt[Goes[k]]
        BY <2>1, AtController
    <2>4. k = 23 /\ Goes[23] = 26  BY <2>3, Where DEF Goes
    <2>5. Made(24, objs)
        <3>1. Full[k] \notin Objects  BY <2>3 DEF Objects
        <3> QED  BY <3>1, <2>3, <2>4, MadeGrows
    <2>6. f \in Controller /\ f.key = "unsaved" /\ f.config = ctl.config /\ f.secret = ctl.secret
        BY <2>2 DEF Controller, f, Invalidated
    <2>7. Built(24)'  BY <1>2, <2>1, <2>2, <2>3, <2>4, <2>6 DEF Built
    <2>8. ConfigInv' /\ (ctl'.key = "saved" => app' # "none")
        BY <1>2, <2>1, <2>2, <2>6 DEF ConfigInv, NodeInv, NodeOK
    <2>9. GitHubOK => GitHubOK'  BY <1>2, <2>1, <2>2, <2>6 DEF GitHubOK, NodeInv, ConfigInv
    <2>10. cmd' = With(cmd, PlanAt[24])
        <3>1. Rest = Tail(PlanAt[23])  BY <2>3, <2>4 DEF Rest
        <3> QED  BY <3>1, <2>2, Positions
    <2>11. ctl' \in Controller /\ token' \in BOOLEAN /\ app' \in AppStates  BY <2>1, <2>2, <2>6
    <2>12. 23 > 15 /\ 24 \in 1..37  OBVIOUS
    <2> QED  BY <2>2, <2>3, <2>4, <2>5, <2>7, <2>8, <2>9, <2>10, <2>11, <2>12, ControllerStep
<1> QED  BY <1>1, <1>2

LEMMA WaitInstallationKeeps ==
    ASSUME CmdInv, NodeInv, WaitInstallation
    PROVE  CmdInv' /\ NodeInv'
<1>1. CASE app # "client"
    <2> DEFINE f == ctl
    <2>1. DoController("installation", f, <<>> \o Rest) /\ UNCHANGED <<app, token>>  BY <1>1 DEF WaitInstallation
    <2> HIDE DEF f
    <2>2. /\ ctl' = f /\ cmd' = With(cmd, <<>> \o Rest)
          /\ UNCHANGED <<objs, up, others, template, smoke, worker, linked, sys, blocks, scaleSet, warned>>
          /\ faults' \in 0..MaxFaults /\ faults' = faults
          /\ ctl \in Controller /\ token \in BOOLEAN /\ app \in AppStates
          /\ cmd \in Commands /\ cmd.kind = "install" /\ ~Unapplied
        BY <2>1, AtController
    <2>3. PICK k \in 1..36 :
              Made(k, objs) /\ Built(k) /\ Full[k] = "installation" /\ cmd.plan = PlanAt[k] /\ Rest = PlanAt[Goes[k]]
        BY <2>1, AtController
    <2>4. k = 26 /\ Goes[26] = 29  BY <2>3, Where DEF Goes
    <2>5. Made(29, objs)
        <3>1. Full[k] \notin Objects  BY <2>3 DEF Objects
        <3> QED  BY <3>1, <2>3, <2>4, MadeGrows
    <2>6. f \in Controller /\ f.config = ctl.config /\ f.secret = ctl.secret /\ f.key = ctl.key
        BY <2>2 DEF Controller, f, Invalidated
    <2>7. Built(29)'  BY <1>1, <2>1, <2>2, <2>3, <2>4, <2>6 DEF Built, AppStates
    <2>8. ConfigInv' /\ (ctl'.key = "saved" => app' # "none")
        BY <1>1, <2>1, <2>2, <2>6 DEF ConfigInv, NodeInv, NodeOK
    <2>9. GitHubOK => GitHubOK'  BY <1>1, <2>1, <2>2, <2>6 DEF GitHubOK, NodeInv, ConfigInv
    <2>10. cmd' = With(cmd, PlanAt[29])
        <3>1. 29 \in 1..36  OBVIOUS
        <3>2. PlanAt[29] \in Seq(Steps)  BY <3>1, Positions, Zenon
        <3>3. <<>> \o PlanAt[29] = PlanAt[29]  BY <3>2, ConcatEmptySeq
        <3> QED  BY <3>3, <2>2, <2>3, <2>4
    <2>11. ctl' \in Controller /\ token' \in BOOLEAN /\ app' \in AppStates  BY <2>1, <2>2, <2>6
    <2>12. 26 > 15 /\ 29 \in 1..37  OBVIOUS
    <2> QED  BY <2>2, <2>3, <2>4, <2>5, <2>7, <2>8, <2>9, <2>10, <2>11, <2>12, ControllerStep
<1>2. CASE app = "client"
    <2> DEFINE f == ctl
    <2>1. DoController("installation", f, <<"saveInstallation", "push">> \o Rest) /\ UNCHANGED <<app, token>> /\ ctl.key = "saved"
        BY <1>2 DEF WaitInstallation
    <2> HIDE DEF f
    <2>2. /\ ctl' = f /\ cmd' = With(cmd, <<"saveInstallation", "push">> \o Rest)
          /\ UNCHANGED <<objs, up, others, template, smoke, worker, linked, sys, blocks, scaleSet, warned>>
          /\ faults' \in 0..MaxFaults /\ faults' = faults
          /\ ctl \in Controller /\ token \in BOOLEAN /\ app \in AppStates
          /\ cmd \in Commands /\ cmd.kind = "install" /\ ~Unapplied
        BY <2>1, AtController
    <2>3. PICK k \in 1..36 :
              Made(k, objs) /\ Built(k) /\ Full[k] = "installation" /\ cmd.plan = PlanAt[k] /\ Rest = PlanAt[Goes[k]]
        BY <2>1, AtController
    <2>4. k = 26 /\ Goes[26] = 29  BY <2>3, Where DEF Goes
    <2>5. Made(27, objs)
        <3>1. Full[k] \notin Objects  BY <2>3 DEF Objects
        <3> QED  BY <3>1, <2>3, <2>4, MadeGrows
    <2>6. f \in Controller /\ f.config = ctl.config /\ f.secret = ctl.secret /\ f.key = ctl.key
        BY <2>2 DEF Controller, f, Invalidated
    <2>7. Built(27)'  BY <1>2, <2>1, <2>2, <2>3, <2>4, <2>6 DEF Built, AppStates
    <2>8. ConfigInv' /\ (ctl'.key = "saved" => app' # "none")
        BY <1>2, <2>1, <2>2, <2>6 DEF ConfigInv, NodeInv, NodeOK
    <2>9. GitHubOK => GitHubOK'  BY <1>2, <2>1, <2>2, <2>6 DEF GitHubOK, NodeInv, ConfigInv
    <2>10. cmd' = With(cmd, PlanAt[27])
        <3>1. Rest = Tail(PlanAt[26])  BY <2>3, <2>4 DEF Rest
        <3> QED  BY <3>1, <2>2, Positions
    <2>11. ctl' \in Controller /\ token' \in BOOLEAN /\ app' \in AppStates  BY <2>1, <2>2, <2>6
    <2>12. 26 > 15 /\ 27 \in 1..37  OBVIOUS
    <2> QED  BY <2>2, <2>3, <2>4, <2>5, <2>7, <2>8, <2>9, <2>10, <2>11, <2>12, ControllerStep
<1> QED  BY <1>1, <1>2

LEMMA TestFailsKeeps ==
    ASSUME CmdInv, NodeInv, TestFails
    PROVE  CmdInv' /\ NodeInv'
<1> DEFINE f == Invalidated
           c == [cmd EXCEPT !.hurt = TRUE]
<1>1. /\ At("install", "token") /\ ctl' = f /\ token' = FALSE
      /\ cmd' = With(c, <<"addToken", "writeSecret">> \o Rest)
      /\ faults < MaxFaults /\ faults' = faults + 1
    BY DEF TestFails, Fault
<1>2. UNCHANGED <<objs, up, others, app, template, smoke, worker, linked, sys, blocks, scaleSet, warned>>
    BY DEF TestFails, poolVars
<1>3. ctl \in Controller /\ app \in AppStates /\ faults \in 0..MaxFaults  BY DEF NodeInv, NodeOK
<1>4. cmd \in Commands /\ cmd.kind = "install" /\ ~Unapplied  BY <1>1, AtInstall
<1>5. PICK k \in 1..36 : Made(k, objs) /\ Built(k) /\ Full[k] = "token" /\ cmd.plan = PlanAt[k]
    BY <1>1, AtInstall
<1>6. k = 18  BY <1>5, Where
<1>7. Made(19, objs)
    <2>1. Full[k] \notin Objects  BY <1>5 DEF Objects
    <2> QED  BY <2>1, <1>5, <1>6, MadeGrows
<1>8. f \in Controller /\ f.config = ctl.config /\ f.key = ctl.key
    BY <1>3 DEF Controller, Invalidated
<1>9. c \in Commands /\ c.kind = "install"  BY <1>4 DEF Commands
<1> HIDE DEF f, c
<1>10. Built(19)'  BY <1>1, <1>2, <1>5, <1>6, <1>8 DEF Built
<1>11. ConfigInv' /\ (ctl'.key = "saved" => app' # "none")  BY <1>1, <1>2, <1>8 DEF ConfigInv, NodeInv, NodeOK
<1>12. GitHubOK => GitHubOK'  BY <1>1, <1>8 DEF GitHubOK
<1>13. cmd' = With(c, PlanAt[19])
    <2>1. Rest = Tail(PlanAt[18])  BY <1>5, <1>6 DEF Rest
    <2> QED  BY <2>1, <1>1, Positions
<1>14. faults' \in 0..MaxFaults /\ faults' # 0  BY <1>1, <1>3, FaultAssumption
<1>15. ctl' \in Controller /\ token' \in BOOLEAN /\ app' \in AppStates  BY <1>1, <1>2, <1>3, <1>8
<1>16. 18 > 15 /\ 19 \in 1..37  OBVIOUS
<1> QED  BY <1>2, <1>4, <1>5, <1>6, <1>7, <1>9, <1>10, <1>11, <1>12, <1>13, <1>14, <1>15, <1>16, ControllerStep

-----------------------------------------------------------------------------
(* install: the smoke test, and the end *)

LEMMA SmokeKeeps ==
    ASSUME CmdInv, NodeInv, DestroyBuildVMs \/ CloneSmokeTest \/ StartSmokeTest \/ CheckNetwork
    PROVE  CmdInv' /\ NodeInv'
<1>1. PICK step \in {"smoke", "clone", "start", "checkNetwork"} :
          At("install", step) /\ cmd' = With(cmd, Rest) /\ (step = "checkNetwork" => smoke' = smoke \ {"build"})
    BY DEF DestroyBuildVMs, CloneSmokeTest, StartSmokeTest, CheckNetwork, DoSmoke, Do
<1>2. UNCHANGED <<objs, up, others, app, token, template, worker, linked, sys, blocks, ctl, scaleSet, warned, faults>>
    BY DEF DestroyBuildVMs, CloneSmokeTest, StartSmokeTest, CheckNetwork, DoSmoke, Do, hostVars, guestVars
<1>3. smoke' \subseteq {"clone", "build", "leaked"}
    <2>1. CASE DestroyBuildVMs
        <3>1. smoke' = {IF x = "clone" THEN "leaked" ELSE x : x \in smoke \ {"build"}}
            BY <2>1 DEF DestroyBuildVMs, DoSmoke
        <3>2. ASSUME NEW y \in smoke' PROVE y \in {"clone", "build", "leaked"}
            <4>1. PICK x \in smoke : y = IF x = "clone" THEN "leaked" ELSE x  BY <3>1
            <4> QED  BY <4>1 DEF NodeInv, NodeOK
        <3> QED  BY <3>2
    <2>2. CASE CloneSmokeTest  BY <2>2 DEF CloneSmokeTest, DoSmoke, NodeInv, NodeOK
    <2>3. CASE StartSmokeTest  BY <2>3 DEF StartSmokeTest, DoSmoke, NodeInv, NodeOK
    <2>4. CASE CheckNetwork  BY <2>4 DEF CheckNetwork, DoSmoke, NodeInv, NodeOK
    <2> QED  BY <2>1, <2>2, <2>3, <2>4
<1>4. cmd \in Commands /\ cmd.kind = "install" /\ ~Unapplied  BY <1>1, AtInstall
<1>5. PICK k \in 1..36 : Made(k, objs) /\ Built(k) /\ Full[k] = step /\ Rest = PlanAt[Goes[k]]
    BY <1>1, AtInstall
<1>6. k \in {31, 32, 33} \/ (k = 34 /\ smoke' = smoke \ {"build"})
    <2>1. CASE step = "smoke"  BY <2>1, <1>5, Where
    <2>2. CASE step = "clone"  BY <2>2, <1>5, Where
    <2>3. CASE step = "start"  BY <2>3, <1>5, Where
    <2>4. CASE step = "checkNetwork"  BY <2>4, <1>1, <1>5, Where
    <2> QED  BY <2>1, <2>2, <2>3, <2>4
<1>7. Goes[k] = k + 1 /\ k + 1 \in 1..37  BY <1>6 DEF Goes
<1>8. Full[k] \notin Objects  BY <1>5 DEF Objects
<1>9. Made(k + 1, objs')  BY <1>2, <1>5, <1>7, <1>8, MadeGrows
<1>10. Built(k + 1)'  BY <1>2, <1>5, <1>6 DEF Built
<1>11. CmdInv' /\ ~Unapplied'  BY <1>1, <1>4, <1>5, <1>7, <1>9, <1>10, InstallGoesOn
<1>12. template = "template"  BY <1>5, <1>6 DEF Built
<1>13. NodeInv'
    <2>1. NodeOK'  BY <1>2, <1>3, <1>12 DEF NodeInv, NodeOK
    <2>2. Flawless'  BY <1>2, <1>4 DEF NodeInv, Flawless, GitHubOK
    <2>3. ConfigInv'  BY <1>2 DEF NodeInv, ConfigInv
    <2> QED  BY <2>1, <2>2, <2>3 DEF NodeInv
<1> QED  BY <1>11, <1>13

LEMMA NetworkBrokenKeeps ==
    ASSUME CmdInv, NodeInv, NetworkBroken
    PROVE  CmdInv' /\ NodeInv'
<1>1. /\ cmd.pc = "run" /\ cmd' = [cmd EXCEPT !.plan = <<>>, !.pc = "failed"] /\ smoke' \subseteq smoke
      /\ faults < MaxFaults /\ faults' = faults + 1
    BY DEF NetworkBroken, At, Ended, Fault
<1>2. UNCHANGED <<objs, up, others, app, token, template, worker, linked, sys, blocks, ctl, scaleSet, warned>>
    BY DEF NetworkBroken, hostVars, guestVars
<1>3. CmdInv'  BY <1>1, EndsEarly
<1>4. faults' \in 0..MaxFaults /\ faults' # 0  BY <1>1, FaultAssumption DEF NodeInv, NodeOK
<1>5. NodeOK'  BY <1>1, <1>2, <1>4 DEF NodeInv, NodeOK
<1>6. Flawless' /\ ConfigInv'  BY <1>2, <1>4 DEF NodeInv, Flawless, ConfigInv
<1> QED  BY <1>3, <1>5, <1>6 DEF NodeInv

LEMMA GiveUpKeeps ==
    ASSUME CmdInv, NodeInv, GiveUp \/ StopAfter
    PROVE  CmdInv' /\ NodeInv'
<1>1. /\ cmd.pc = "run" /\ cmd.kind = "install"
      /\ \E pc \in {"failed", "done"} : cmd' = [cmd EXCEPT !.plan = <<>>, !.pc = pc]
    BY DEF GiveUp, StopAfter, Hopeless, At, Ended
<1>2. UNCHANGED <<objs, up, others, app, token, template, smoke, worker, linked, sys, blocks, ctl, scaleSet,
                  warned, faults>>
    BY DEF GiveUp, StopAfter, hostVars, poolVars, guestVars
<1>3. CmdInv'  BY <1>1, EndsEarly
<1>4. ~Unapplied  BY <1>1 DEF Unapplied
<1>5. NodeInv'  BY <1>2, <1>4 DEF NodeInv, NodeOK, Flawless, ConfigInv, GitHubOK
<1> QED  BY <1>3, <1>5

LEMMA FailKeeps ==
    ASSUME CmdInv, NodeInv, Fail
    PROVE  CmdInv' /\ NodeInv'
<1>1. /\ cmd.pc = "run" /\ cmd' = [cmd EXCEPT !.plan = <<>>, !.pc = "failed"]
      /\ faults < MaxFaults /\ faults' = faults + 1
    BY DEF Fail, Ended, Fault
<1>2. UNCHANGED <<objs, up, others, app, token, template, smoke, worker, linked, sys, blocks, ctl, scaleSet, warned>>
    BY DEF Fail, hostVars, poolVars, guestVars
<1>3. CmdInv'  BY <1>1, EndsEarly
<1>4. faults' \in 0..MaxFaults /\ faults' # 0  BY <1>1, FaultAssumption DEF NodeInv, NodeOK
<1>5. NodeOK'  BY <1>2, <1>4 DEF NodeInv, NodeOK
<1>6. Flawless' /\ ConfigInv'  BY <1>2, <1>4 DEF NodeInv, Flawless, ConfigInv
<1> QED  BY <1>3, <1>5, <1>6 DEF NodeInv

-----------------------------------------------------------------------------
(* uninstall: positions *)

\* uninstall at position k is about to do Removal(o)[k].
LEMMA RemovalPositions ==
    ASSUME NEW o \in Orders
    PROVE  /\ UninstallPlan(TRUE, o) = RemovalAt(o, 1)
           /\ UninstallPlan(FALSE, o) = RemovalAt(o, 3)
           /\ RemovalAt(o, 17) = <<>>
           /\ \A k \in 1..16 : /\ RemovalAt(o, k) \in Seq(Steps) /\ RemovalAt(o, k) # <<>>
                               /\ Head(RemovalAt(o, k)) = Removal(o)[k]
                               /\ Tail(RemovalAt(o, k)) = RemovalAt(o, k + 1)
<1> DEFINE p == Removal(o)
<1>1. o[1] \in {"runPool", "sysPool"} /\ o[2] \in {"runPool", "sysPool"}  BY DEF Orders
<1>2. Len(p) = 16 /\ DOMAIN p = 1..16 /\ p = [i \in 1..16 |-> p[i]]  BY DEF Removal
<1>3. \A i \in 1..16 : p[i] \in Steps
    <2>1. /\ p[1] = "stop" /\ p[2] = "scaleSet" /\ p[3] = "list" /\ p[4] = "destroy" /\ p[5] = o[1] /\ p[6] = o[2]
          /\ p[7] = "acls" /\ p[8] = "token" /\ p[9] = "user" /\ p[10] = "role" /\ p[11] = "vnet" /\ p[12] = "zone"
          /\ p[13] = "unapply" /\ p[14] = "tuning" /\ p[15] = "settings" /\ p[16] = "binary"
        BY DEF Removal
    <2>2. \A i \in 1..16 : i = 1 \/ i = 2 \/ i = 3 \/ i = 4 \/ i = 5 \/ i = 6 \/ i = 7 \/ i = 8 \/ i = 9 \/ i = 10
                           \/ i = 11 \/ i = 12 \/ i = 13 \/ i = 14 \/ i = 15 \/ i = 16
        OBVIOUS
    <2>3. {"stop", "scaleSet", "list", "destroy", "unapply", "token", "runPool", "sysPool", "acls", "user", "role",
           "vnet", "zone", "tuning", "settings", "binary"} \subseteq Steps
        BY StepNames DEF Objects
    <2> HIDE DEF p
    <2> QED  BY <2>1, <2>2, <2>3, <1>1
<1>4. p \in Seq(Steps)
    <2> HIDE DEF p
    <2>1. p \in [1..16 -> Steps]  BY <1>2, <1>3
    <2> QED  BY <2>1, SeqDef
<1>5. \A k \in 1..16 : /\ RemovalAt(o, k) \in Seq(Steps) /\ RemovalAt(o, k) # <<>>
                       /\ Head(RemovalAt(o, k)) = Removal(o)[k]
                       /\ Tail(RemovalAt(o, k)) = RemovalAt(o, k + 1)
    <2> HIDE DEF p
    <2>1. \A k \in 1..Len(p) : /\ SubSeq(p, k, Len(p)) \in Seq(Steps) /\ SubSeq(p, k, Len(p)) # <<>>
                               /\ Head(SubSeq(p, k, Len(p))) = p[k]
                               /\ Tail(SubSeq(p, k, Len(p))) = SubSeq(p, k + 1, Len(p))
        BY <1>4, SuffixOf
    <2> QED  BY <2>1, <1>2 DEF RemovalAt, p
<1>6. RemovalAt(o, 17) = <<>>  BY SubSeqEmpty DEF RemovalAt
<1>7. CASE o = <<"runPool", "sysPool">>
    <2>1. UninstallPlan(TRUE, o) = RemovalAt(o, 1)  BY <1>7 DEF UninstallPlan, Removal, RemovalAt
    <2>2. UninstallPlan(FALSE, o) = RemovalAt(o, 3)  BY <1>7 DEF UninstallPlan, Removal, RemovalAt
    <2> QED  BY <2>1, <2>2, <1>5, <1>6
<1>8. CASE o = <<"sysPool", "runPool">>
    <2>1. UninstallPlan(TRUE, o) = RemovalAt(o, 1)  BY <1>8 DEF UninstallPlan, Removal, RemovalAt
    <2>2. UninstallPlan(FALSE, o) = RemovalAt(o, 3)  BY <1>8 DEF UninstallPlan, Removal, RemovalAt
    <2> QED  BY <2>1, <2>2, <1>5, <1>6
<1> QED  BY <1>7, <1>8 DEF Orders

\* Which step of uninstall is where.
LEMMA WhereRemoved ==
    ASSUME NEW o \in Orders, NEW k \in 1..16
    PROVE  /\ k = 1 => Removal(o)[k] = "stop"
           /\ k = 2 => Removal(o)[k] = "scaleSet"
           /\ k = 3 => Removal(o)[k] = "list"
           /\ k = 4 => Removal(o)[k] = "destroy"
           /\ k = 5 => Removal(o)[k] = o[1]
           /\ k = 6 => Removal(o)[k] = o[2]
           /\ k = 7 => Removal(o)[k] = "acls"
           /\ k = 8 => Removal(o)[k] = "token"
           /\ k = 9 => Removal(o)[k] = "user"
           /\ k = 10 => Removal(o)[k] = "role"
           /\ k = 11 => Removal(o)[k] = "vnet"
           /\ k = 12 => Removal(o)[k] = "zone"
           /\ k = 13 => Removal(o)[k] = "unapply"
           /\ k = 14 => Removal(o)[k] = "tuning"
           /\ k = 15 => Removal(o)[k] = "settings"
           /\ k = 16 => Removal(o)[k] = "binary"
           /\ Removal(o)[k] = "stop" => k = 1
           /\ Removal(o)[k] = "scaleSet" => k = 2
           /\ Removal(o)[k] = "list" => k = 3
           /\ Removal(o)[k] = "destroy" => k = 4
           /\ Removal(o)[k] = "acls" => k = 7
           /\ Removal(o)[k] = "token" => k = 8
           /\ Removal(o)[k] = "user" => k = 9
           /\ Removal(o)[k] = "role" => k = 10
           /\ Removal(o)[k] = "vnet" => k = 11
           /\ Removal(o)[k] = "zone" => k = 12
           /\ Removal(o)[k] = "unapply" => k = 13
           /\ Removal(o)[k] = "tuning" => k = 14
           /\ Removal(o)[k] = "settings" => k = 15
           /\ Removal(o)[k] = "binary" => k = 16
           /\ Removal(o)[k] \in {"runPool", "sysPool"} => k \in {5, 6}
           /\ {o[1], o[2]} = {"runPool", "sysPool"}
<1>1. {o[1], o[2]} = {"runPool", "sysPool"} /\ o[1] \in {"runPool", "sysPool"} /\ o[2] \in {"runPool", "sysPool"}
    BY DEF Orders
<1>2. /\ k = 1 => Removal(o)[k] = "stop"
      /\ k = 2 => Removal(o)[k] = "scaleSet"
      /\ k = 3 => Removal(o)[k] = "list"
      /\ k = 4 => Removal(o)[k] = "destroy"
      /\ k = 5 => Removal(o)[k] = o[1]
      /\ k = 6 => Removal(o)[k] = o[2]
      /\ k = 7 => Removal(o)[k] = "acls"
      /\ k = 8 => Removal(o)[k] = "token"
      /\ k = 9 => Removal(o)[k] = "user"
      /\ k = 10 => Removal(o)[k] = "role"
      /\ k = 11 => Removal(o)[k] = "vnet"
      /\ k = 12 => Removal(o)[k] = "zone"
      /\ k = 13 => Removal(o)[k] = "unapply"
      /\ k = 14 => Removal(o)[k] = "tuning"
      /\ k = 15 => Removal(o)[k] = "settings"
      /\ k = 16 => Removal(o)[k] = "binary"
    BY DEF Removal
<1>3. k = 1 \/ k = 2 \/ k = 3 \/ k = 4 \/ k = 5 \/ k = 6 \/ k = 7 \/ k = 8 \/ k = 9 \/ k = 10
      \/ k = 11 \/ k = 12 \/ k = 13 \/ k = 14 \/ k = 15 \/ k = 16
    OBVIOUS
<1> QED  BY <1>1, <1>2, <1>3

\* Doing a step of uninstall adds it to what is gone.
LEMMA DroppedGrows ==
    ASSUME NEW o \in Orders, NEW k \in 1..16, Dropped(o, k), objs' \subseteq objs, warned \subseteq warned',
           k \in 5..16 /\ Removal(o)[k] \in objs' => k \in 5..6 /\ Removal(o)[k] \in warned'
    PROVE  Dropped(o, k + 1)'
<1> SUFFICES ASSUME NEW i \in 5..16, i < k + 1, Removal(o)[i] \in objs'
             PROVE  i \in 5..6 /\ Removal(o)[i] \in warned'
    BY DEF Dropped
<1>1. i < k \/ i = k  OBVIOUS
<1>2. CASE i < k  BY <1>2 DEF Dropped
<1>3. CASE i = k  BY <1>3
<1> QED  BY <1>1, <1>2, <1>3

\* uninstall before a step.
LEMMA AtUninstall ==
    ASSUME CmdInv, NEW step, At("uninstall", step)
    PROVE  /\ cmd \in Commands /\ cmd.pc = "run" /\ cmd.kind = "uninstall"
           /\ Unapplied <=> cmd.changed /\ step \in {"zone", "unapply"}
           /\ \E k \in 1..16, o \in Orders :
                  /\ Dropped(o, k) /\ Gone(k)
                  /\ Removal(o)[k] = step
                  /\ cmd.plan = RemovalAt(o, k) /\ Rest = RemovalAt(o, k + 1)
<1>1. cmd \in Commands /\ cmd.pc = "run" /\ cmd.kind = "uninstall" /\ Head(cmd.plan) = step
    BY DEF CmdInv, CmdOK, At
<1>2. PICK k \in 1..16, o \in Orders : cmd.plan = RemovalAt(o, k) /\ Dropped(o, k) /\ Gone(k)
    BY <1>1 DEF CmdInv, UninstallShape
<1>3. Head(RemovalAt(o, k)) = Removal(o)[k] /\ Tail(RemovalAt(o, k)) = RemovalAt(o, k + 1)  BY RemovalPositions
<1>4. Removal(o)[k] = step /\ Rest = RemovalAt(o, k + 1)  BY <1>1, <1>2, <1>3 DEF Rest
<1>5. Unapplied <=> cmd.changed /\ step \in {"zone", "unapply"}  BY <1>1 DEF Unapplied
<1> QED  BY <1>1, <1>2, <1>4, <1>5

\* The command c at position j of uninstall.
LEMMA RemovalWith ==
    ASSUME NEW c \in Commands, c.kind = "uninstall", NEW o \in Orders, NEW j \in 1..17,
           cmd' = With(c, RemovalAt(o, j))
    PROVE  /\ cmd' \in Commands /\ cmd'.kind = "uninstall" /\ cmd'.plan = RemovalAt(o, j)
           /\ cmd'.changed = c.changed /\ cmd'.vms = c.vms /\ cmd'.hurt = c.hurt
           /\ cmd'.pc = "run" <=> cmd'.plan # <<>>
           /\ cmd'.pc = "run" <=> j # 17
           /\ j # 17 => Head(cmd'.plan) = Removal(o)[j]
<1>1. /\ RemovalAt(o, j) \in Seq(Steps) /\ (j = 17 <=> RemovalAt(o, j) = <<>>)
      /\ j # 17 => Head(RemovalAt(o, j)) = Removal(o)[j]
    <2>1. CASE j = 17
        <3>1. <<>> \in Seq(Steps)  OBVIOUS
        <3> QED  BY <2>1, <3>1, RemovalPositions
    <2>2. CASE j # 17
        <3>1. j \in 1..16  BY <2>2
        <3> QED  BY <2>2, <3>1, RemovalPositions
    <2> QED  BY <2>1, <2>2
<1> QED  BY <1>1, WithPlan

\* uninstall goes on at position j, or ends.
LEMMA RemovalGoesOn ==
    ASSUME NEW c \in Commands, c.kind = "uninstall", NEW o \in Orders, NEW j \in 1..17,
           cmd' = With(c, RemovalAt(o, j)), Dropped(o, j)', Gone(j)', objs' \subseteq Objects
    PROVE  CmdInv'
<1>1. /\ cmd' \in Commands /\ cmd'.kind = "uninstall" /\ cmd'.plan = RemovalAt(o, j)
      /\ cmd'.pc = "run" <=> cmd'.plan # <<>>
      /\ cmd'.pc = "run" <=> j # 17
    BY RemovalWith
<1>2. UninstallShape'
    <2> SUFFICES ASSUME cmd'.pc = "run"
                 PROVE  \E k \in 1..16, q \in Orders : cmd'.plan = RemovalAt(q, k) /\ Dropped(q, k)' /\ Gone(k)'
        BY DEF UninstallShape
    <2> j \in 1..16  BY <1>1
    <2>1. cmd'.plan = RemovalAt(o, j) /\ Dropped(o, j)' /\ Gone(j)'  BY <1>1
    <2> WITNESS j \in 1..16, o \in Orders
    <2> QED  BY <2>1
<1>3. Removed'
    <2> SUFFICES ASSUME j = 17
                 PROVE  /\ objs' \subseteq {"runPool", "sysPool"} \cap warned'
                        /\ template' = "none" /\ smoke' = {} /\ ~token' /\ app' = "none"
                        /\ Clean'
                        /\ worker' => "stop" \in warned'
                        /\ faults' = 0 => ~scaleSet'
        BY <1>1 DEF Removed
    <2>1. ASSUME NEW x \in objs' PROVE x \in {"runPool", "sysPool"} /\ x \in warned'
        <3>1. x \in Objects  OBVIOUS
        <3>2. \A i \in 5..16 : Removal(o)[i] \in objs' => i \in 5..6 /\ Removal(o)[i] \in warned'
            BY DEF Dropped
        <3>3. PICK i \in 5..16 : Removal(o)[i] = x /\ (i \in 5..6 => x \in {"runPool", "sysPool"})
            <4>1. /\ Removal(o)[5] = o[1] /\ Removal(o)[6] = o[2] /\ Removal(o)[7] = "acls" /\ Removal(o)[9] = "user"
                  /\ Removal(o)[10] = "role" /\ Removal(o)[11] = "vnet" /\ Removal(o)[12] = "zone"
                  /\ Removal(o)[14] = "tuning" /\ Removal(o)[15] = "settings" /\ Removal(o)[16] = "binary"
                BY DEF Removal
            <4>2. {o[1], o[2]} = {"runPool", "sysPool"}  BY DEF Orders
            <4>3. CASE x \in {"runPool", "sysPool"}
                <5>1. x = o[1] \/ x = o[2]  BY <4>2, <4>3
                <5>2. 5 \in 5..16 /\ 6 \in 5..16  OBVIOUS
                <5> QED  BY <5>1, <5>2, <4>1, <4>3
            <4>4. CASE x \in {"acls", "user", "role"}
                <5>1. 7 \in 5..16 /\ 9 \in 5..16 /\ 10 \in 5..16 /\ 7 \notin 5..6 /\ 9 \notin 5..6 /\ 10 \notin 5..6
                    OBVIOUS
                <5> QED  BY <5>1, <4>1, <4>4
            <4>5. CASE x \in {"vnet", "zone", "tuning"}
                <5>1. 11 \in 5..16 /\ 12 \in 5..16 /\ 14 \in 5..16 /\ 11 \notin 5..6 /\ 12 \notin 5..6 /\ 14 \notin 5..6
                    OBVIOUS
                <5> QED  BY <5>1, <4>1, <4>5
            <4>6. CASE x \in {"settings", "binary"}
                <5>1. 15 \in 5..16 /\ 16 \in 5..16 /\ 15 \notin 5..6 /\ 16 \notin 5..6  OBVIOUS
                <5> QED  BY <5>1, <4>1, <4>6
            <4> QED  BY <3>1, <4>3, <4>4, <4>5, <4>6 DEF Objects
        <3> QED  BY <3>2, <3>3
    <2>2. /\ template' = "none" /\ smoke' = {} /\ ~token' /\ app' = "none"
          /\ Clean' /\ (worker' => "stop" \in warned') /\ (faults' = 0 => ~scaleSet')
        BY DEF Gone
    <2> QED  BY <2>1, <2>2
<1> QED  BY <1>1, <1>2, <1>3 DEF CmdInv, CmdOK, InstallShape

-----------------------------------------------------------------------------
(* uninstall: its steps *)

LEMMA StopControllerKeeps ==
    ASSUME CmdInv, NodeInv, StopController
    PROVE  CmdInv' /\ NodeInv'
<1> DEFINE f == [ctl EXCEPT !.service = FALSE, !.session = "none"]
<1>1. At("uninstall", "stop") /\ cmd' = With(cmd, Rest) /\ ctl' = f  BY DEF StopController, Do
<1>2. UNCHANGED <<objs, up, others, app, token, template, smoke, worker, linked, sys, blocks, scaleSet, warned, faults>>
    BY DEF StopController, Do, hostVars, poolVars
<1>3. cmd \in Commands /\ cmd.kind = "uninstall" /\ (Unapplied <=> cmd.changed /\ "stop" \in {"zone", "unapply"})
    BY <1>1, AtUninstall
<1>4. PICK k \in 1..16, o \in Orders : Dropped(o, k) /\ Gone(k) /\ Removal(o)[k] = "stop" /\ Rest = RemovalAt(o, k + 1)
    BY <1>1, AtUninstall
<1>5. k = 1  BY <1>4, WhereRemoved
<1>6. f \in Controller /\ f.service = FALSE /\ f.key = ctl.key /\ f.config = ctl.config
    BY DEF NodeInv, NodeOK, Controller
<1> HIDE DEF f
<1>7. Dropped(o, 2)'  BY <1>2, <1>4, <1>5, DroppedGrows
<1>8. cmd' = With(cmd, RemovalAt(o, 2)) /\ 2 \in 1..17  BY <1>1, <1>4, <1>5
<1>9. Gone(2)'  BY <1>1, <1>2, <1>4, <1>5, <1>6 DEF Gone
<1>10. sys["controller"] \in Running  BY <1>4, <1>5 DEF Gone
<1>11. CmdInv'  BY <1>2, <1>3, <1>7, <1>8, <1>9, RemovalGoesOn DEF NodeInv, NodeOK
<1>12. NodeInv'
    <2>1. NodeOK'  BY <1>1, <1>2, <1>6, <1>10 DEF NodeInv, NodeOK
    <2>2. Flawless'  BY <1>1, <1>2, <1>3, <1>6 DEF NodeInv, Flawless, GitHubOK
    <2>3. ConfigInv'  BY <1>1, <1>2, <1>6 DEF NodeInv, ConfigInv
    <2> QED  BY <2>1, <2>2, <2>3 DEF NodeInv
<1> QED  BY <1>11, <1>12

LEMMA DeleteScaleSetKeeps ==
    ASSUME CmdInv, NodeInv, DeleteScaleSet
    PROVE  CmdInv' /\ NodeInv'
<1>1. At("uninstall", "scaleSet") /\ cmd' = With(cmd, Rest) /\ scaleSet' = FALSE  BY DEF DeleteScaleSet, Do
<1>2. UNCHANGED <<objs, up, others, app, token, template, smoke, worker, linked, sys, blocks, ctl, warned, faults>>
    BY DEF DeleteScaleSet, Do, hostVars, poolVars
<1>3. cmd \in Commands /\ cmd.kind = "uninstall" /\ (Unapplied <=> cmd.changed /\ "scaleSet" \in {"zone", "unapply"})
    BY <1>1, AtUninstall
<1>4. PICK k \in 1..16, o \in Orders :
          Dropped(o, k) /\ Gone(k) /\ Removal(o)[k] = "scaleSet" /\ Rest = RemovalAt(o, k + 1)
    BY <1>1, AtUninstall
<1>5. k = 2  BY <1>4, WhereRemoved
<1>6. Dropped(o, 3)'  BY <1>2, <1>4, <1>5, DroppedGrows
<1>7. cmd' = With(cmd, RemovalAt(o, 3)) /\ 3 \in 1..17  BY <1>1, <1>4, <1>5
<1>8. cmd'.hurt = cmd.hurt  BY <1>3, <1>7, RemovalWith
<1>9. Gone(3)'  BY <1>1, <1>2, <1>4, <1>5, <1>8 DEF Gone
<1>10. CmdInv'  BY <1>2, <1>3, <1>6, <1>7, <1>9, RemovalGoesOn DEF NodeInv, NodeOK
<1>11. NodeInv'
    <2>1. NodeOK'  BY <1>1, <1>2, ZenonT(40) DEF NodeInv, NodeOK
    <2>2. Flawless'  BY <1>1, <1>2, <1>3 DEF NodeInv, Flawless
    <2>3. ConfigInv'  BY <1>2 DEF NodeInv, ConfigInv
    <2> QED  BY <2>1, <2>2, <2>3 DEF NodeInv
<1> QED  BY <1>10, <1>11

LEMMA OnlyWarnsKeeps ==
    ASSUME CmdInv, NodeInv, NEW step, OnlyWarns(step)
    PROVE  CmdInv' /\ NodeInv'
<1> DEFINE c == [cmd EXCEPT !.hurt = TRUE]
<1>1. /\ At("uninstall", step) /\ cmd' = With(c, Rest) /\ warned' = warned \cup {step}
      /\ step \in {"stop", "scaleSet", "runPool", "sysPool"}
      /\ \/ step = "scaleSet" /\ ~GitHubOK /\ faults' = faults
         \/ faults < MaxFaults /\ faults' = faults + 1
    BY DEF OnlyWarns, Fault
<1>2. UNCHANGED <<objs, up, others, app, token, template, smoke, worker, linked, sys, blocks, ctl, scaleSet>>
    BY DEF OnlyWarns, hostVars, poolVars, guestVars
<1>3. cmd \in Commands /\ cmd.kind = "uninstall" /\ (Unapplied <=> cmd.changed /\ step \in {"zone", "unapply"})
    BY <1>1, AtUninstall
<1>4. PICK k \in 1..16, o \in Orders : Dropped(o, k) /\ Gone(k) /\ Removal(o)[k] = step /\ Rest = RemovalAt(o, k + 1)
    BY <1>1, AtUninstall
<1>5. \/ k = 1 /\ step = "stop"
      \/ k = 2 /\ step = "scaleSet"
      \/ k \in {5, 6} /\ step \in {"runPool", "sysPool"}
    <2>1. CASE step = "stop"  BY <2>1, <1>4, WhereRemoved
    <2>2. CASE step = "scaleSet"  BY <2>2, <1>4, WhereRemoved
    <2>3. CASE step \in {"runPool", "sysPool"}  BY <2>3, <1>4, WhereRemoved
    <2> QED  BY <1>1, <2>1, <2>2, <2>3
<1>6. c \in Commands /\ c.kind = "uninstall" /\ c.hurt = TRUE  BY <1>3 DEF Commands
<1> HIDE DEF c
<1>7. Dropped(o, k + 1)'  BY <1>1, <1>2, <1>4, <1>5, DroppedGrows
<1>8. cmd' = With(c, RemovalAt(o, k + 1)) /\ k + 1 \in 1..17  BY <1>1, <1>4, <1>5
<1>9. cmd'.hurt = TRUE  BY <1>6, <1>8, RemovalWith
<1>10. faults' \in 0..MaxFaults /\ (faults' # 0 \/ (step = "scaleSet" /\ ~GitHubOK /\ faults' = faults))
    BY <1>1, FaultAssumption DEF NodeInv, NodeOK
<1>11. Gone(k + 1)'
    <2>1. CASE k = 1  BY <2>1, <1>1, <1>2, <1>4, <1>5, <1>9 DEF Gone
    <2>2. CASE k = 2
        <3>1. faults' = 0 => ~scaleSet'  BY <2>2, <1>2, <1>5, <1>10 DEF NodeInv, Flawless
        <3> QED  BY <2>2, <3>1, <1>1, <1>2, <1>4, <1>9 DEF Gone
    <2>3. CASE k \in {5, 6}
        <3>1. faults' # 0  BY <2>3, <1>5, <1>10
        <3>2. "stop" \in warned => "stop" \in warned'  BY <1>1
        <3>3. Clean => Clean'  BY <1>2 DEF Clean
        <3> QED  BY <2>3, <3>1, <3>2, <3>3, <1>2, <1>4, <1>9 DEF Gone
    <2> QED  BY <1>5, <2>1, <2>2, <2>3
<1>12. CmdInv'  BY <1>2, <1>6, <1>7, <1>8, <1>11, RemovalGoesOn DEF NodeInv, NodeOK
<1>13. NodeInv'
    <2>1. NodeOK'  BY <1>1, <1>2, <1>10 DEF NodeInv, NodeOK
    <2>2. Flawless'  BY <1>1, <1>2, <1>3, <1>10 DEF NodeInv, Flawless, GitHubOK
    <2>3. ConfigInv'  BY <1>2 DEF NodeInv, ConfigInv
    <2> QED  BY <2>1, <2>2, <2>3 DEF NodeInv
<1> QED  BY <1>12, <1>13

LEMMA ListVMsKeeps ==
    ASSUME CmdInv, NodeInv, ListVMs
    PROVE  CmdInv' /\ NodeInv'
<1> DEFINE all == {x \in SystemVMs : sys[x] # "none"} \cup smoke \cup (IF worker THEN {"worker"} ELSE {})
                  \cup (IF template # "none" THEN {"template"} ELSE {})
           c == [cmd EXCEPT !.vms = all]
<1>1. At("uninstall", "list") /\ cmd' = With(c, Rest)  BY DEF ListVMs
<1>2. UNCHANGED <<objs, up, others, app, token, template, smoke, worker, linked, sys, blocks, ctl, scaleSet,
                  warned, faults>>
    BY DEF ListVMs, hostVars, poolVars, guestVars
<1>3. cmd \in Commands /\ cmd.kind = "uninstall" /\ (Unapplied <=> cmd.changed /\ "list" \in {"zone", "unapply"})
    BY <1>1, AtUninstall
<1>4. PICK k \in 1..16, o \in Orders : Dropped(o, k) /\ Gone(k) /\ Removal(o)[k] = "list" /\ Rest = RemovalAt(o, k + 1)
    BY <1>1, AtUninstall
<1>5. k = 3  BY <1>4, WhereRemoved
<1>6. all \subseteq SystemVMs \cup {"worker", "template"} \cup {"clone", "build", "leaked"}
    BY DEF NodeInv, NodeOK
<1>7. /\ {x \in SystemVMs : sys[x] # "none"} \cup smoke \subseteq all
      /\ template # "none" => "template" \in all
      /\ worker => "worker" \in all
    OBVIOUS
<1> HIDE DEF all
<1>8. c \in Commands /\ c.kind = "uninstall" /\ c.vms = all /\ c.hurt = cmd.hurt  BY <1>3, <1>6 DEF Commands
<1> HIDE DEF c
<1>9. Dropped(o, 4)'  BY <1>2, <1>4, <1>5, DroppedGrows
<1>10. cmd' = With(c, RemovalAt(o, 4)) /\ 4 \in 1..17  BY <1>1, <1>4, <1>5
<1>11. cmd'.hurt = cmd.hurt /\ cmd'.vms = all  BY <1>8, <1>10, RemovalWith
<1>12. Gone(4)'  BY <1>2, <1>4, <1>5, <1>7, <1>11 DEF Gone
<1>13. CmdInv'  BY <1>2, <1>8, <1>9, <1>10, <1>12, RemovalGoesOn DEF NodeInv, NodeOK
<1>14. NodeInv'  BY <1>2, <1>3 DEF NodeInv, NodeOK, Flawless, ConfigInv, GitHubOK
<1> QED  BY <1>13, <1>14

LEMMA AllDestroyedKeeps ==
    ASSUME CmdInv, NodeInv, AllDestroyed
    PROVE  CmdInv' /\ NodeInv'
<1>1. At("uninstall", "destroy") /\ cmd' = With(cmd, Rest) /\ cmd.vms = {}  BY DEF AllDestroyed, Do
<1>2. UNCHANGED <<objs, up, others, app, token, template, smoke, worker, linked, sys, blocks, ctl, scaleSet,
                  warned, faults>>
    BY DEF AllDestroyed, Do, hostVars, poolVars, guestVars
<1>3. cmd \in Commands /\ cmd.kind = "uninstall" /\ (Unapplied <=> cmd.changed /\ "destroy" \in {"zone", "unapply"})
    BY <1>1, AtUninstall
<1>4. PICK k \in 1..16, o \in Orders :
          Dropped(o, k) /\ Gone(k) /\ Removal(o)[k] = "destroy" /\ Rest = RemovalAt(o, k + 1)
    BY <1>1, AtUninstall
<1>5. k = 4  BY <1>4, WhereRemoved
<1>6. Dropped(o, 5)'  BY <1>2, <1>4, <1>5, DroppedGrows
<1>7. cmd' = With(cmd, RemovalAt(o, 5)) /\ 5 \in 1..17  BY <1>1, <1>4, <1>5
<1>8. cmd'.hurt = cmd.hurt  BY <1>3, <1>7, RemovalWith
<1>9. Clean /\ smoke = {} /\ template = "none" /\ (worker => "stop" \in warned)
    BY <1>1, <1>4, <1>5 DEF Gone, Clean
<1>10. Clean'  BY <1>2, <1>9 DEF Clean
<1>11. Gone(5)'  BY <1>2, <1>4, <1>5, <1>8, <1>9, <1>10 DEF Gone
<1>12. CmdInv'
    <2>1. objs' \subseteq Objects  BY <1>2 DEF NodeInv, NodeOK
    <2> QED  BY <2>1, <1>3, <1>6, <1>7, <1>11, RemovalGoesOn
<1>13. NodeInv'  BY <1>2, <1>3 DEF NodeInv, NodeOK, Flawless, ConfigInv, GitHubOK
<1> QED  BY <1>12, <1>13

\* uninstall destroys one VM of its list and stays at its position.
LEMMA DestroyVMKeeps ==
    ASSUME CmdInv, NodeInv, NEW v \in cmd.vms, DestroyVM(v)
    PROVE  CmdInv' /\ NodeInv'
<1>1. /\ At("uninstall", "destroy") /\ cmd' = [cmd EXCEPT !.vms = @ \ {v}]
      /\ sys' = [x \in SystemVMs |-> IF x = v THEN "none" ELSE sys[x]]
      /\ ctl' = IF v = "controller" THEN NewController ELSE ctl
      /\ smoke' = smoke \ {v}
      /\ template' = IF v = "template" THEN "none" ELSE template
      /\ v = "template" => ~HasClones
    BY DEF DestroyVM
<1>2. /\ worker' \in BOOLEAN /\ (worker' <=> worker /\ v # "worker")
      /\ blocks' \in BOOLEAN
    <2>1. worker' = (worker /\ v # "worker") /\ blocks' = (blocks /\ v # "gateway")  BY DEF DestroyVM
    <2> QED  BY <2>1, Zenon
<1>3. UNCHANGED <<objs, up, others, app, token, linked, scaleSet, warned, faults>>
    BY DEF DestroyVM, hostVars
<1>4. /\ cmd \in Commands /\ cmd.pc = "run" /\ cmd.kind = "uninstall"
      /\ (Unapplied <=> cmd.changed /\ "destroy" \in {"zone", "unapply"})
    BY <1>1, AtUninstall
<1>5. PICK k \in 1..16, o \in Orders :
          Dropped(o, k) /\ Gone(k) /\ Removal(o)[k] = "destroy" /\ cmd.plan = RemovalAt(o, k)
    BY <1>1, AtUninstall
<1>6. k = 4  BY <1>5, WhereRemoved
<1>7. /\ cmd' \in Commands /\ cmd'.pc = "run" /\ cmd'.kind = "uninstall" /\ cmd'.plan = cmd.plan
      /\ cmd'.hurt = cmd.hurt /\ cmd'.vms = cmd.vms \ {v}
    BY <1>1, <1>4 DEF Commands
<1>8. "gateway" \in SystemVMs /\ "controller" \in SystemVMs /\ "none" \in Stages /\ "none" \notin Running
    BY DEF SystemVMs, Stages, Running
<1>9. /\ sys' \in [SystemVMs -> Stages]
      /\ \A x \in SystemVMs : sys'[x] = IF x = v THEN "none" ELSE sys[x]
    BY <1>1, <1>8 DEF NodeInv, NodeOK
<1>10. NewController \in Controller /\ NewController.service = FALSE /\ NewController.key = "none"
       /\ NewController.config = "missing"
    BY DEF NewController, Controller, AppStates
<1>11. Gone(4)'
    <2>1. (cmd'.hurt /\ "stop" \in warned') \/ ~ctl'.service \/ sys'["controller"] \notin Running
        <3>1. CASE v = "controller"  BY <3>1, <1>1, <1>10
        <3>2. CASE v # "controller"  BY <3>2, <1>1, <1>3, <1>5, <1>6, <1>7, <1>8, <1>9 DEF Gone
        <3> QED  BY <3>1, <3>2
    <2>2. {x \in SystemVMs : sys'[x] # "none"} \cup smoke' \subseteq cmd'.vms
        <3>1. {x \in SystemVMs : sys[x] # "none"} \cup smoke \subseteq cmd.vms  BY <1>5, <1>6 DEF Gone
        <3> QED  BY <3>1, <1>1, <1>7, <1>9
    <2>3. template' # "none" => "template" \in cmd'.vms  BY <1>1, <1>5, <1>6, <1>7 DEF Gone
    <2>4. worker' => "worker" \in cmd'.vms \/ (cmd'.hurt /\ "stop" \in warned')
        BY <1>2, <1>3, <1>5, <1>6, <1>7 DEF Gone
    <2>5. faults' = 0 => ~scaleSet'  BY <1>3, <1>5, <1>6 DEF Gone
    <2> QED  BY <2>1, <2>2, <2>3, <2>4, <2>5 DEF Gone
<1>12. Dropped(o, 4)'
    <2>1. \A i \in 5..16 : ~(i < 4)  OBVIOUS
    <2> QED  BY <2>1 DEF Dropped
<1>13. CmdInv'
    <2>1. UninstallShape'
        <3> SUFFICES \E i \in 1..16, q \in Orders : cmd'.plan = RemovalAt(q, i) /\ Dropped(q, i)' /\ Gone(i)'
            BY DEF UninstallShape
        <3>1. cmd'.plan = RemovalAt(o, 4) /\ Dropped(o, 4)' /\ Gone(4)'  BY <1>5, <1>6, <1>7, <1>11, <1>12
        <3> 4 \in 1..16  OBVIOUS
        <3> WITNESS 4 \in 1..16, o \in Orders
        <3> QED  BY <3>1
    <2>2. cmd'.plan # <<>>  BY <1>4, <1>7 DEF CmdInv, CmdOK
    <2> QED  BY <2>1, <2>2, <1>7 DEF CmdInv, CmdOK, InstallShape, Removed
<1>14. NodeInv'
    <2>1. sys'["controller"] \notin Running \cup {"off"} => ctl' = NewController
        BY <1>1, <1>8, <1>9 DEF NodeInv, NodeOK
    <2>2. ctl' \in Controller /\ (ctl'.key = "saved" => app' # "none")
        BY <1>1, <1>3, <1>10 DEF NodeInv, NodeOK
    <2>3. linked' /\ (worker' \/ smoke' # {}) => template' = "template"
        BY <1>1, <1>2, <1>3 DEF NodeInv, NodeOK, HasClones
    <2>4. smoke' \subseteq {"clone", "build", "leaked"} /\ template' \in {"none", "import", "template"}
        BY <1>1 DEF NodeInv, NodeOK
    <2>5. NodeOK'  BY <2>1, <2>2, <2>3, <2>4, <1>2, <1>3, <1>9 DEF NodeInv, NodeOK
    <2>6. faults = 0 => ~scaleSet  BY <1>5, <1>6 DEF Gone
    <2>7. Flawless'  BY <2>6, <1>3, <1>4 DEF NodeInv, Flawless
    <2>8. ConfigInv'  BY <1>1, <1>3, <1>10 DEF NodeInv, ConfigInv
    <2> QED  BY <2>5, <2>7, <2>8 DEF NodeInv
<1> QED  BY <1>13, <1>14

LEMMA DestroyRefusedKeeps ==
    ASSUME CmdInv, NodeInv, NEW v, DestroyRefused(v)
    PROVE  CmdInv' /\ NodeInv'
<1>1. At("uninstall", "destroy") /\ cmd' = [cmd EXCEPT !.plan = <<>>, !.pc = "failed"]  BY DEF DestroyRefused, Ended
<1>2. UNCHANGED <<objs, up, others, app, token, template, smoke, worker, linked, sys, blocks, ctl, scaleSet,
                  warned, faults>>
    BY DEF DestroyRefused, hostVars, poolVars, guestVars
<1>3. cmd.pc = "run" /\ ~Unapplied  BY <1>1, AtUninstall
<1>4. CmdInv'  BY <1>1, <1>3, EndsEarly
<1>5. NodeInv'  BY <1>2, <1>3 DEF NodeInv, NodeOK, Flawless, ConfigInv, GitHubOK
<1> QED  BY <1>4, <1>5

LEMMA RemovePoolKeeps ==
    ASSUME CmdInv, NodeInv, NEW pool, RemovePool(pool)
    PROVE  CmdInv' /\ NodeInv'
<1>1. /\ At("uninstall", pool) /\ cmd' = With(cmd, Rest) /\ pool \in {"sysPool", "runPool"}
      /\ \/ pool \in objs /\ Holds(pool) /\ warned' = warned \cup {pool} /\ objs' = objs
         \/ objs' = objs \ {pool} /\ warned' = warned
    BY DEF RemovePool
<1>2. UNCHANGED <<up, others, app, token, template, smoke, worker, linked, sys, blocks, ctl, scaleSet, faults>>
    BY DEF RemovePool, poolVars, guestVars
<1>3. cmd \in Commands /\ cmd.kind = "uninstall" /\ (Unapplied <=> cmd.changed /\ pool \in {"zone", "unapply"})
    BY <1>1, AtUninstall
<1>4. PICK k \in 1..16, o \in Orders : Dropped(o, k) /\ Gone(k) /\ Removal(o)[k] = pool /\ Rest = RemovalAt(o, k + 1)
    BY <1>1, AtUninstall
<1>5. k \in {5, 6}  BY <1>1, <1>4, WhereRemoved
<1>6. Dropped(o, k + 1)'
    <2>1. objs' \subseteq objs /\ warned \subseteq warned' /\ (pool \in objs' => pool \in warned')  BY <1>1
    <2>2. k \in 5..6  BY <1>5
    <2> QED  BY <2>1, <2>2, <1>4, DroppedGrows
<1>7. cmd' = With(cmd, RemovalAt(o, k + 1)) /\ k + 1 \in 1..17  BY <1>1, <1>4, <1>5
<1>8. cmd'.hurt = cmd.hurt  BY <1>3, <1>7, RemovalWith
<1>9. Clean /\ smoke = {} /\ template = "none" /\ (worker => "stop" \in warned)  BY <1>4, <1>5 DEF Gone
<1>10. Clean' /\ ("stop" \in warned => "stop" \in warned')  BY <1>1, <1>2, <1>9 DEF Clean
<1>11. Gone(k + 1)'  BY <1>2, <1>4, <1>5, <1>8, <1>9, <1>10 DEF Gone
<1>12. CmdInv'
    <2>1. objs' \subseteq Objects  BY <1>1 DEF NodeInv, NodeOK
    <2> QED  BY <1>3, <1>6, <1>7, <1>11, <2>1, RemovalGoesOn
<1>13. NodeInv'
    <2>1. NodeOK'
        <3>1. objs' \subseteq Objects /\ warned' \subseteq {"stop", "scaleSet", "runPool", "sysPool", "sdn"}
            BY <1>1 DEF NodeInv, NodeOK
        <3> QED  BY <3>1, <1>2 DEF NodeInv, NodeOK
    <2>2. Flawless'
        <3>1. faults = 0 => ~Holds(pool)
            <4> SUFFICES ASSUME faults = 0 PROVE ~Holds(pool)
                OBVIOUS
            <4>1. ~worker  BY <1>9 DEF NodeInv, Flawless
            <4> QED  BY <4>1, <1>9 DEF Holds, Clean
        <3>2. faults = 0 => warned' = warned /\ ("vnet" \in objs => "vnet" \in objs')  BY <3>1, <1>1
        <3> QED  BY <3>2, <1>1, <1>2, <1>3 DEF NodeInv, Flawless, GitHubOK
    <2>3. ConfigInv'  BY <1>2 DEF NodeInv, ConfigInv
    <2> QED  BY <2>1, <2>2, <2>3 DEF NodeInv
<1> QED  BY <1>12, <1>13

LEMMA RemoveObjectKeeps ==
    ASSUME CmdInv, NodeInv, NEW x, RemoveObject(x)
    PROVE  CmdInv' /\ NodeInv'
<1>1. /\ At("uninstall", x) /\ cmd' = With(cmd, Rest) /\ x \in {"acls", "user", "role", "tuning", "binary"}
      /\ objs' = objs \ {x}
    BY DEF RemoveObject, Do
<1>2. UNCHANGED <<up, others, app, token, template, smoke, worker, linked, sys, blocks, ctl, scaleSet, warned, faults>>
    BY DEF RemoveObject, Do, poolVars, guestVars
<1>3. cmd \in Commands /\ cmd.kind = "uninstall" /\ (Unapplied <=> cmd.changed /\ x \in {"zone", "unapply"})
    BY <1>1, AtUninstall
<1>4. PICK k \in 1..16, o \in Orders : Dropped(o, k) /\ Gone(k) /\ Removal(o)[k] = x /\ Rest = RemovalAt(o, k + 1)
    BY <1>1, AtUninstall
<1>5. k \in {7, 9, 10, 14, 16}
    <2>1. CASE x \in {"acls", "user", "role"}  BY <2>1, <1>4, WhereRemoved
    <2>2. CASE x \in {"tuning", "binary"}  BY <2>2, <1>4, WhereRemoved
    <2> QED  BY <1>1, <2>1, <2>2
<1>6. Dropped(o, k + 1)'
    <2>1. objs' \subseteq objs /\ warned \subseteq warned' /\ Removal(o)[k] \notin objs'  BY <1>1, <1>2, <1>4
    <2> QED  BY <2>1, <1>4, DroppedGrows
<1>7. cmd' = With(cmd, RemovalAt(o, k + 1)) /\ k + 1 \in 1..17  BY <1>1, <1>4, <1>5
<1>8. cmd'.hurt = cmd.hurt  BY <1>3, <1>7, RemovalWith
<1>9. Clean => Clean'  BY <1>2 DEF Clean
<1>10. Gone(k + 1)'  BY <1>2, <1>4, <1>5, <1>8, <1>9 DEF Gone
<1>11. CmdInv'
    <2>1. objs' \subseteq Objects  BY <1>1 DEF NodeInv, NodeOK
    <2> QED  BY <1>3, <1>6, <1>7, <1>10, <2>1, RemovalGoesOn
<1>12. NodeInv'
    <2>1. NodeOK'  BY <1>1, <1>2 DEF NodeInv, NodeOK
    <2>2. Flawless'  BY <1>1, <1>2, <1>3 DEF NodeInv, Flawless, GitHubOK
    <2>3. ConfigInv'  BY <1>2 DEF NodeInv, ConfigInv
    <2> QED  BY <2>1, <2>2, <2>3 DEF NodeInv
<1> QED  BY <1>11, <1>12

LEMMA RemoveTokenKeeps ==
    ASSUME CmdInv, NodeInv, RemoveToken
    PROVE  CmdInv' /\ NodeInv'
<1>1. At("uninstall", "token") /\ cmd' = With(cmd, Rest) /\ token' = FALSE /\ ctl' = Invalidated
    BY DEF RemoveToken, Do
<1>2. UNCHANGED <<objs, up, others, app, template, smoke, worker, linked, sys, blocks, scaleSet, warned, faults>>
    BY DEF RemoveToken, Do, poolVars
<1>3. cmd \in Commands /\ cmd.kind = "uninstall" /\ (Unapplied <=> cmd.changed /\ "token" \in {"zone", "unapply"})
    BY <1>1, AtUninstall
<1>4. PICK k \in 1..16, o \in Orders : Dropped(o, k) /\ Gone(k) /\ Removal(o)[k] = "token" /\ Rest = RemovalAt(o, k + 1)
    BY <1>1, AtUninstall
<1>5. k = 8  BY <1>4, WhereRemoved
<1>6. Dropped(o, 9)'
    <2>1. Removal(o)[k] \notin objs'  BY <1>2, <1>4 DEF NodeInv, NodeOK, Objects
    <2> QED  BY <2>1, <1>2, <1>4, <1>5, DroppedGrows
<1>7. cmd' = With(cmd, RemovalAt(o, 9)) /\ 9 \in 1..17  BY <1>1, <1>4, <1>5
<1>8. cmd'.hurt = cmd.hurt  BY <1>3, <1>7, RemovalWith
<1>9. Clean /\ Clean'  BY <1>2, <1>4, <1>5 DEF Gone, Clean
<1>10. ctl' = ctl
    <2>1. sys["controller"] \notin Running \cup {"off"}  BY <1>9 DEF Clean, SystemVMs, Running
    <2>2. ctl = NewController  BY <2>1 DEF NodeInv, NodeOK
    <2> QED  BY <2>2, <1>1 DEF Invalidated, NewController
<1>11. Gone(9)'  BY <1>1, <1>2, <1>4, <1>5, <1>8, <1>9, <1>10 DEF Gone
<1>12. CmdInv'
    <2>1. objs' \subseteq Objects  BY <1>2 DEF NodeInv, NodeOK
    <2> QED  BY <2>1, <1>3, <1>6, <1>7, <1>11, RemovalGoesOn
<1>13. NodeInv'
    <2>1. token' \in BOOLEAN  BY <1>1, Zenon
    <2>2. NodeOK'  BY <1>2, <1>10, <2>1 DEF NodeInv, NodeOK
    <2>3. ~Unapplied  BY <1>3
    <2>4. Flawless'  BY <1>2, <1>10, <2>3 DEF NodeInv, Flawless, GitHubOK
    <2>5. ConfigInv'  BY <1>2, <1>10 DEF NodeInv, ConfigInv
    <2> QED  BY <2>2, <2>4, <2>5 DEF NodeInv
<1> QED  BY <1>12, <1>13

LEMMA RemoveSettingsKeeps ==
    ASSUME CmdInv, NodeInv, RemoveSettings
    PROVE  CmdInv' /\ NodeInv'
<1>1. At("uninstall", "settings") /\ cmd' = With(cmd, Rest) /\ objs' = objs \ {"settings"} /\ app' = "none"
    BY DEF RemoveSettings, Do
<1>2. UNCHANGED <<up, others, token, template, smoke, worker, linked, sys, blocks, ctl, scaleSet, warned, faults>>
    BY DEF RemoveSettings, Do, poolVars, guestVars
<1>3. cmd \in Commands /\ cmd.kind = "uninstall" /\ (Unapplied <=> cmd.changed /\ "settings" \in {"zone", "unapply"})
    BY <1>1, AtUninstall
<1>4. PICK k \in 1..16, o \in Orders :
          Dropped(o, k) /\ Gone(k) /\ Removal(o)[k] = "settings" /\ Rest = RemovalAt(o, k + 1)
    BY <1>1, AtUninstall
<1>5. k = 15  BY <1>4, WhereRemoved
<1>6. Dropped(o, 16)'
    <2>1. objs' \subseteq objs /\ warned \subseteq warned' /\ Removal(o)[k] \notin objs'  BY <1>1, <1>2, <1>4
    <2> QED  BY <2>1, <1>4, <1>5, DroppedGrows
<1>7. cmd' = With(cmd, RemovalAt(o, 16)) /\ 16 \in 1..17  BY <1>1, <1>4, <1>5
<1>8. cmd'.hurt = cmd.hurt  BY <1>3, <1>7, RemovalWith
<1>9. Clean /\ Clean'  BY <1>2, <1>4, <1>5 DEF Gone, Clean
<1>10. ctl.key = "none" /\ ctl.config = "missing"
    <2>1. sys["controller"] \notin Running \cup {"off"}  BY <1>9 DEF Clean, SystemVMs, Running
    <2>2. ctl = NewController  BY <2>1 DEF NodeInv, NodeOK
    <2> QED  BY <2>2 DEF NewController
<1>11. Gone(16)'  BY <1>1, <1>2, <1>4, <1>5, <1>8, <1>9 DEF Gone
<1>12. CmdInv'
    <2>1. objs' \subseteq Objects  BY <1>1 DEF NodeInv, NodeOK
    <2> QED  BY <1>3, <1>6, <1>7, <1>11, <2>1, RemovalGoesOn
<1>13. NodeInv'
    <2>1. NodeOK'  BY <1>1, <1>2, <1>10 DEF NodeInv, NodeOK, AppStates
    <2>2. Flawless'  BY <1>1, <1>2, <1>3 DEF NodeInv, Flawless, GitHubOK
    <2>3. ConfigInv'  BY <1>2, <1>10 DEF ConfigInv
    <2> QED  BY <2>1, <2>2, <2>3 DEF NodeInv
<1> QED  BY <1>12, <1>13

LEMMA RemoveSDNKeeps ==
    ASSUME CmdInv, NodeInv, NEW x, RemoveSDN(x)
    PROVE  CmdInv' /\ NodeInv'
<1> DEFINE c == [cmd EXCEPT !.changed = @ \/ x \in objs]
<1>1. At("uninstall", x) /\ cmd' = With(c, Rest) /\ x \in {"zone", "vnet"} /\ objs' = objs \ {x}  BY DEF RemoveSDN
<1>2. UNCHANGED <<up, others, app, token, template, smoke, worker, linked, sys, blocks, ctl, scaleSet, warned, faults>>
    BY DEF RemoveSDN, poolVars, guestVars
<1>3. cmd \in Commands /\ cmd.kind = "uninstall" /\ (Unapplied <=> cmd.changed /\ x \in {"zone", "unapply"})
    BY <1>1, AtUninstall
<1>4. PICK k \in 1..16, o \in Orders : Dropped(o, k) /\ Gone(k) /\ Removal(o)[k] = x /\ Rest = RemovalAt(o, k + 1)
    BY <1>1, AtUninstall
<1>5. (k = 11 /\ x = "vnet") \/ (k = 12 /\ x = "zone")
    <2>1. CASE x = "vnet"  BY <2>1, <1>4, WhereRemoved
    <2>2. CASE x = "zone"  BY <2>2, <1>4, WhereRemoved
    <2> QED  BY <1>1, <2>1, <2>2
<1>6. /\ c \in Commands /\ c.kind = "uninstall" /\ c.hurt = cmd.hurt
      /\ c.changed = (cmd.changed \/ x \in objs)
    <2>1. (cmd.changed \/ x \in objs) \in BOOLEAN  OBVIOUS
    <2> QED  BY <1>3, <2>1 DEF Commands
<1> HIDE DEF c
<1>7. Dropped(o, k + 1)'
    <2>1. objs' \subseteq objs /\ warned \subseteq warned' /\ Removal(o)[k] \notin objs'  BY <1>1, <1>2, <1>4
    <2> QED  BY <2>1, <1>4, DroppedGrows
<1>8. cmd' = With(c, RemovalAt(o, k + 1)) /\ k + 1 \in 1..17 /\ k + 1 # 17  BY <1>1, <1>4, <1>5
<1>9. /\ cmd'.hurt = cmd.hurt /\ cmd'.changed = c.changed /\ cmd'.kind = "uninstall" /\ cmd'.pc = "run"
      /\ Head(cmd'.plan) = Removal(o)[k + 1]
    BY <1>6, <1>8, RemovalWith
<1>10. Removal(o)[k + 1] \in {"zone", "unapply"}
    <2>1. Removal(o)[12] = "zone" /\ Removal(o)[13] = "unapply"  BY DEF Removal
    <2> QED  BY <2>1, <1>5
<1>11. cmd'.changed => Unapplied'
    <2>1. Head(cmd'.plan) \in {"zone", "unapply"}  BY <1>9, <1>10
    <2> QED  BY <2>1, <1>9, Zenon DEF Unapplied
<1>12. (Unapplied => Unapplied') /\ ("vnet" \in objs => "vnet" \in objs' \/ Unapplied')
    <2>1. cmd'.changed = (cmd.changed \/ x \in objs)  BY <1>6, <1>9
    <2>2. (cmd.changed => cmd'.changed) /\ (x \in objs => cmd'.changed)  BY <2>1, Zenon
    <2> QED  BY <2>2, <1>1, <1>3, <1>11
<1>13. Clean => Clean'  BY <1>2 DEF Clean
<1>14. Gone(k + 1)'  BY <1>2, <1>4, <1>5, <1>9, <1>13 DEF Gone
<1>15. CmdInv'
    <2>1. objs' \subseteq Objects  BY <1>1 DEF NodeInv, NodeOK
    <2> QED  BY <1>6, <1>7, <1>8, <1>14, <2>1, RemovalGoesOn
<1>16. NodeInv'
    <2>1. NodeOK'  BY <1>1, <1>2 DEF NodeInv, NodeOK
    <2>2. Flawless'  BY <1>2, <1>12 DEF NodeInv, Flawless, GitHubOK
    <2>3. ConfigInv'  BY <1>2 DEF NodeInv, ConfigInv
    <2> QED  BY <2>1, <2>2, <2>3 DEF NodeInv
<1> QED  BY <1>15, <1>16

LEMMA UnapplySDNKeeps ==
    ASSUME CmdInv, NodeInv, UnapplySDN
    PROVE  CmdInv' /\ NodeInv'
<1>1. /\ At("uninstall", "unapply") /\ cmd' = With(cmd, Rest)
      /\ \/ cmd.changed /\ ~others /\ AppliedSDN /\ warned' = warned
         \/ cmd.changed /\ others /\ UNCHANGED <<up, others>> /\ warned' = warned \cup {"sdn"}
         \/ ~cmd.changed /\ UNCHANGED <<up, others>> /\ warned' = warned
    BY DEF UnapplySDN
<1>2. UNCHANGED <<objs, app, token, template, smoke, worker, linked, sys, blocks, ctl, scaleSet, faults>>
    BY DEF UnapplySDN, poolVars, guestVars
<1>3. cmd \in Commands /\ cmd.kind = "uninstall" /\ (Unapplied <=> cmd.changed /\ "unapply" \in {"zone", "unapply"})
    BY <1>1, AtUninstall
<1>4. PICK k \in 1..16, o \in Orders :
          Dropped(o, k) /\ Gone(k) /\ Removal(o)[k] = "unapply" /\ Rest = RemovalAt(o, k + 1)
    BY <1>1, AtUninstall
<1>5. k = 13  BY <1>4, WhereRemoved
<1>6. "vnet" \notin objs
    <2>1. Removal(o)[11] = "vnet"  BY DEF Removal
    <2>2. 11 \in 5..16 /\ 11 < 13 /\ 11 \notin 5..6  OBVIOUS
    <2> QED  BY <2>1, <2>2, <1>4, <1>5 DEF Dropped
<1>7. warned \subseteq warned' /\ warned' \subseteq warned \cup {"sdn"}  BY <1>1
<1>8. Dropped(o, 14)'
    <2>1. Removal(o)[k] \notin objs'  BY <1>2, <1>4 DEF NodeInv, NodeOK, Objects
    <2> QED  BY <2>1, <1>2, <1>4, <1>5, <1>7, DroppedGrows
<1>9. cmd' = With(cmd, RemovalAt(o, 14)) /\ 14 \in 1..17  BY <1>1, <1>4, <1>5
<1>10. cmd'.hurt = cmd.hurt  BY <1>3, <1>9, RemovalWith
<1>11. Clean => Clean'  BY <1>2 DEF Clean
<1>12. Gone(14)'  BY <1>2, <1>4, <1>5, <1>7, <1>10, <1>11 DEF Gone
<1>13. CmdInv'  BY <1>2, <1>3, <1>8, <1>9, <1>12, RemovalGoesOn DEF NodeInv, NodeOK
<1>14. up' \in BOOLEAN /\ others' \in BOOLEAN
    <2>1. ("vnet" \in objs) \in BOOLEAN  OBVIOUS
    <2>2. CASE AppliedSDN  BY <2>1, <2>2 DEF AppliedSDN
    <2>3. CASE up' = up /\ others' = others  BY <2>3 DEF NodeInv, NodeOK
    <2> QED  BY <2>2, <2>3, <1>1
<1>15. faults = 0 /\ up' => others' /\ "sdn" \in warned'
    <2> SUFFICES ASSUME faults = 0, up' PROVE others' /\ "sdn" \in warned'
        OBVIOUS
    <2>1. CASE cmd.changed /\ ~others /\ AppliedSDN /\ warned' = warned  BY <2>1, <1>6 DEF AppliedSDN
    <2>2. CASE cmd.changed /\ others /\ UNCHANGED <<up, others>> /\ warned' = warned \cup {"sdn"}  BY <2>2
    <2>3. CASE ~cmd.changed /\ UNCHANGED <<up, others>> /\ warned' = warned
        BY <2>3, <1>3, <1>6 DEF NodeInv, Flawless
    <2> QED  BY <1>1, <2>1, <2>2, <2>3
<1>16. NodeInv'
    <2>1. NodeOK'  BY <1>2, <1>7, <1>14 DEF NodeInv, NodeOK
    <2>2. Flawless'  BY <1>2, <1>7, <1>15 DEF NodeInv, Flawless, GitHubOK
    <2>3. ConfigInv'  BY <1>2 DEF NodeInv, ConfigInv
    <2> QED  BY <2>1, <2>2, <2>3 DEF NodeInv
<1> QED  BY <1>13, <1>16

-----------------------------------------------------------------------------
(* Starting a command *)

\* A new command.
LEMMA Begins ==
    ASSUME NEW kind \in {"install", "uninstall"}, NEW pc \in {"run", "refused"}, NEW plan \in Seq(Steps),
           pc = "run" <=> plan # <<>>, Begin(kind, pc, plan)
    PROVE  /\ cmd' \in Commands /\ cmd'.kind = kind /\ cmd'.pc = pc /\ cmd'.plan = plan /\ cmd'.changed = FALSE
           /\ CmdOK'
           /\ cmd.pc # "run"
           /\ UNCHANGED <<objs, up, others, app, token, template, smoke, worker, linked, sys, blocks, ctl,
                          scaleSet, faults>>
<1>1. cmd' = [kind |-> kind, pc |-> pc, plan |-> plan, changed |-> FALSE, made |-> {}, vms |-> {}, hurt |-> FALSE]
    BY DEF Begin
<1>2. cmd' \in Commands /\ cmd'.kind = kind /\ cmd'.pc = pc /\ cmd'.plan = plan /\ cmd'.changed = FALSE
    BY <1>1 DEF Commands
<1>3. /\ cmd.pc # "run"
      /\ UNCHANGED <<objs, up, others, app, token, template, smoke, worker, linked, sys, blocks, ctl, scaleSet, faults>>
    BY DEF Begin, hostVars, poolVars, guestVars
<1> QED  BY <1>2, <1>3 DEF CmdOK

LEMMA StartInstallKeeps ==
    ASSUME CmdInv, NodeInv, StartInstall
    PROVE  CmdInv' /\ NodeInv'
<1>1. \/ Begin("install", "refused", <<>>) /\ UNCHANGED warned
      \/ Begin("install", "run", InstallPlan) /\ warned' = {} /\ ~others
    BY DEF StartInstall, PreflightPasses
<1>2. CASE Begin("install", "refused", <<>>) /\ UNCHANGED warned
    <2>1. <<>> \in Seq(Steps)  OBVIOUS
    <2>2. /\ cmd'.kind = "install" /\ cmd'.pc = "refused" /\ CmdOK' /\ cmd.pc # "run"
          /\ UNCHANGED <<objs, up, others, app, token, template, smoke, worker, linked, sys, blocks, ctl,
                         scaleSet, faults>>
        BY <1>2, <2>1, Begins
    <2>3. CmdInv'  BY <2>2 DEF CmdInv, InstallShape, UninstallShape, Removed
    <2>4. NodeInv'  BY <1>2, <2>2 DEF NodeInv, NodeOK, Flawless, ConfigInv, GitHubOK, Unapplied
    <2> QED  BY <2>3, <2>4
<1>3. CASE Begin("install", "run", InstallPlan) /\ warned' = {} /\ ~others
    <2>1. InstallPlan \in Seq(Steps) /\ InstallPlan # <<>> /\ InstallPlan = PlanAt[1]
        <3>1. 1 \in 1..36  OBVIOUS
        <3>2. PlanAt[1] \in Seq(Steps) /\ PlanAt[1] # <<>>  BY <3>1, Positions, Zenon
        <3>3. InstallPlan = PlanAt[1]  BY Positions
        <3> QED  BY <3>2, <3>3
    <2>2. /\ cmd'.kind = "install" /\ cmd'.pc = "run" /\ cmd'.plan = InstallPlan /\ CmdOK' /\ cmd.pc # "run"
          /\ UNCHANGED <<objs, up, others, app, token, template, smoke, worker, linked, sys, blocks, ctl,
                         scaleSet, faults>>
        BY <1>3, <2>1, Begins
    <2>3. InstallShape'
        <3> SUFFICES \E k \in 1..36 : cmd'.plan = PlanAt[k] /\ Made(k, objs') /\ Built(k)'
            BY DEF InstallShape
        <3>1. Made(1, objs')
            <4>1. \A i \in 1..36 : ~(i < 1)  OBVIOUS
            <4> QED  BY <4>1 DEF Made
        <3>2. Built(1)'  BY DEF Built
        <3> 1 \in 1..36  OBVIOUS
        <3> WITNESS 1 \in 1..36
        <3> QED  BY <3>1, <3>2, <2>1, <2>2
    <2>4. CmdInv'  BY <2>2, <2>3 DEF CmdInv, UninstallShape, Removed
    <2>5. NodeInv'
        <3>1. NodeOK'  BY <1>3, <2>2 DEF NodeInv, NodeOK
        <3>2. Flawless'  BY <1>3, <2>2 DEF NodeInv, Flawless, GitHubOK, Unapplied
        <3>3. ConfigInv'  BY <2>2 DEF NodeInv, ConfigInv
        <3> QED  BY <3>1, <3>2, <3>3 DEF NodeInv
    <2> QED  BY <2>4, <2>5
<1> QED  BY <1>1, <1>2, <1>3

LEMMA StartUninstallKeeps ==
    ASSUME CmdInv, NodeInv, StartUninstall
    PROVE  CmdInv' /\ NodeInv'
<1>1. PICK o \in Orders : Begin("uninstall", "run", UninstallPlan(sys["controller"] \in Running, o))
    BY DEF StartUninstall, Orders
<1>2. PICK k \in {1, 3} : k = 1 <=> sys["controller"] \in Running
    <2>1. 1 \in {1, 3} /\ 3 \in {1, 3} /\ 3 # 1  OBVIOUS
    <2> QED  BY <2>1
<1>3. UninstallPlan(sys["controller"] \in Running, o) = RemovalAt(o, k)
    <2>1. CASE sys["controller"] \in Running
        <3>1. (sys["controller"] \in Running) = TRUE  BY <2>1
        <3>2. k = 1  BY <2>1, <1>2
        <3> QED  BY <3>1, <3>2, RemovalPositions
    <2>2. CASE sys["controller"] \notin Running
        <3>1. (sys["controller"] \in Running) = FALSE  BY <2>2
        <3>2. k = 3  BY <2>2, <1>2
        <3> QED  BY <3>1, <3>2, RemovalPositions
    <2> QED  BY <2>1, <2>2
<1>4. k \in 1..16  BY <1>2
<1>5. RemovalAt(o, k) \in Seq(Steps) /\ RemovalAt(o, k) # <<>>  BY <1>4, RemovalPositions
<1>6. /\ cmd'.kind = "uninstall" /\ cmd'.pc = "run" /\ cmd'.plan = RemovalAt(o, k) /\ CmdOK' /\ cmd.pc # "run"
      /\ UNCHANGED <<objs, up, others, app, token, template, smoke, worker, linked, sys, blocks, ctl, scaleSet, faults>>
    <2>1. Begin("uninstall", "run", RemovalAt(o, k))  BY <1>1, <1>3
    <2> QED  BY <2>1, <1>5, Begins
<1>7. warned' = warned  BY DEF StartUninstall
<1>8. UninstallShape'
    <2> SUFFICES \E i \in 1..16, q \in Orders : cmd'.plan = RemovalAt(q, i) /\ Dropped(q, i)' /\ Gone(i)'
        BY DEF UninstallShape
    <2>1. Dropped(o, k)'
        <3>1. \A i \in 5..16 : ~(i < k)  BY <1>2
        <3> QED  BY <3>1 DEF Dropped
    <2>2. Gone(k)'  BY <1>2, <1>6 DEF Gone, NodeInv, Flawless
    <2> k \in 1..16  BY <1>4
    <2> WITNESS k \in 1..16, o \in Orders
    <2> QED  BY <2>1, <2>2, <1>6
<1>9. CmdInv'  BY <1>6, <1>8 DEF CmdInv, InstallShape, Removed
<1>10. NodeInv'  BY <1>6, <1>7 DEF NodeInv, NodeOK, Flawless, ConfigInv, GitHubOK, Unapplied
<1> QED  BY <1>9, <1>10

-----------------------------------------------------------------------------
(* What else happens on the node *)

\* Everybody else leaves the command alone, and whatever the command counts on.
LEMMA ExternalKeeps ==
    ASSUME CmdInv, NodeInv,
           UNCHANGED <<cmd, objs, app, token, template, smoke, blocks, warned>>,
           faults' = faults \/ faults' # 0,
           cmd.pc = "run" => sys' = sys,
           \A x \in SystemVMs : sys[x] = "none" => sys'[x] = "none",
           /\ ctl'.config = ctl.config /\ ctl'.secret = ctl.secret /\ ctl'.key = ctl.key
           /\ ctl'.service = ctl.service,
           "vnet" \in objs /\ up => up',
           scaleSet => scaleSet',
           ctl'.session = "new" => scaleSet' \/ ctl.session = "new",
           scaleSet' => scaleSet \/ Serves,
           worker' => worker \/ Serves
    PROVE  CmdInv'
<1>1. InstallShape'
    <2> SUFFICES ASSUME cmd.pc = "run", cmd.kind = "install"
                 PROVE  \E k \in 1..36 : cmd'.plan = PlanAt[k] /\ Made(k, objs') /\ Built(k)'
        BY DEF InstallShape
    <2>1. PICK k \in 1..36 : cmd.plan = PlanAt[k] /\ Made(k, objs) /\ Built(k)  BY DEF CmdInv, InstallShape
    <2>2. k > 8 => "vnet" \in objs
        <3>1. Full[8] = "vnet" /\ "vnet" \in Objects /\ 8 \in 1..36  BY DEF Full, Objects
        <3> QED  BY <2>1, <3>1 DEF Made
    <2>3. Built(k)'  BY <2>1, <2>2 DEF Built
    <2> WITNESS k \in 1..36
    <2> QED  BY <2>1, <2>3
<1>2. UninstallShape'
    <2> SUFFICES ASSUME cmd.pc = "run", cmd.kind = "uninstall"
                 PROVE  \E k \in 1..16, o \in Orders : cmd'.plan = RemovalAt(o, k) /\ Dropped(o, k)' /\ Gone(k)'
        BY DEF UninstallShape
    <2>1. PICK k \in 1..16, o \in Orders : cmd.plan = RemovalAt(o, k) /\ Dropped(o, k) /\ Gone(k)
        BY DEF CmdInv, UninstallShape
    <2>2. k > 1 /\ Serves => cmd.hurt /\ "stop" \in warned  BY <2>1 DEF Gone, Serves
    <2>3. k > 2 /\ faults' = 0 => ~scaleSet'
        <3>1. faults = 0 => "stop" \notin warned  BY DEF NodeInv, Flawless
        <3> QED  BY <2>1, <2>2, <3>1 DEF Gone
    <2>4. k = 4 /\ worker' => "worker" \in cmd.vms \/ (cmd.hurt /\ "stop" \in warned)  BY <2>1, <2>2 DEF Gone
    <2>5. k > 4 /\ worker' => "stop" \in warned  BY <2>1, <2>2 DEF Gone
    <2>6. Clean => Clean'  BY DEF Clean
    <2>7. Gone(k)'  BY <2>1, <2>3, <2>4, <2>5, <2>6 DEF Gone
    <2>8. Dropped(o, k)'  BY <2>1 DEF Dropped
    <2> WITNESS k \in 1..16, o \in Orders
    <2> QED  BY <2>1, <2>7, <2>8
<1>3. Removed'
    <2> SUFFICES ASSUME cmd.pc = "done", cmd.kind = "uninstall"
                 PROVE  /\ objs' \subseteq {"runPool", "sysPool"} \cap warned'
                        /\ template' = "none" /\ smoke' = {} /\ ~token' /\ app' = "none"
                        /\ Clean'
                        /\ worker' => "stop" \in warned'
                        /\ faults' = 0 => ~scaleSet'
        BY DEF Removed
    <2>1. /\ objs \subseteq {"runPool", "sysPool"} \cap warned
          /\ template = "none" /\ smoke = {} /\ ~token /\ app = "none"
          /\ Clean
          /\ worker => "stop" \in warned
          /\ faults = 0 => ~scaleSet
        BY DEF CmdInv, Removed
    <2>2. ~Serves  BY <2>1 DEF Serves
    <2>3. Clean'  BY <2>1 DEF Clean
    <2> QED  BY <2>1, <2>2, <2>3
<1>4. CmdOK'  BY DEF CmdInv, CmdOK
<1> QED  BY <1>1, <1>2, <1>3, <1>4 DEF CmdInv

\* The invariant for the node if nothing that it relates to others gets worse.
LEMMA SessionKeeps ==
    ASSUME CmdInv, NodeInv, OpenSession \/ SessionEnds
    PROVE  CmdInv' /\ NodeInv'
<1>1. PICK ses \in {"new", "none"} :
          /\ ctl' = [ctl EXCEPT !.session = ses]
          /\ (ses = "new" /\ Serves /\ scaleSet' = TRUE) \/ (ses = "none" /\ scaleSet' = scaleSet)
    BY DEF OpenSession, SessionEnds
<1>2. UNCHANGED <<cmd, objs, up, others, app, token, template, smoke, worker, linked, sys, blocks, warned, faults>>
    BY DEF OpenSession, SessionEnds, External, hostVars, poolVars
<1>3. /\ ctl' \in Controller /\ ctl'.config = ctl.config /\ ctl'.secret = ctl.secret /\ ctl'.key = ctl.key
      /\ ctl'.service = ctl.service /\ ctl'.session = ses
    BY <1>1 DEF NodeInv, NodeOK, Controller
<1>4. Serves => sys["controller"] \in Running /\ GitHubOK  BY DEF Serves
<1>5. sys["controller"] \notin Running \cup {"off"} => ctl' = ctl
    <2> SUFFICES ASSUME sys["controller"] \notin Running \cup {"off"} PROVE ctl' = ctl
        OBVIOUS
    <2>1. ctl = NewController  BY DEF NodeInv, NodeOK
    <2>2. ses = "none"  BY <1>1, <1>4
    <2> QED  BY <2>1, <2>2, <1>1 DEF NewController
<1>6. scaleSet' \in BOOLEAN  BY <1>1 DEF NodeInv, NodeOK
<1>7. CmdInv'  BY <1>1, <1>2, <1>3, ExternalKeeps
<1>8. NodeInv'
    <2>1. NodeOK'  BY <1>2, <1>3, <1>5, <1>6 DEF NodeInv, NodeOK
    <2>2. scaleSet' => scaleSet \/ (GitHubOK /\ sys["controller"] \in Running)  BY <1>1, <1>4
    <2>3. GitHubOK => GitHubOK'  BY <1>3 DEF GitHubOK
    <2>4. Unapplied => Unapplied'  BY <1>2 DEF Unapplied
    <2>5. Flawless'  BY <2>2, <2>3, <2>4, <1>2 DEF NodeInv, Flawless
    <2>6. ConfigInv'  BY <1>2, <1>3 DEF NodeInv, ConfigInv
    <2> QED  BY <2>1, <2>5, <2>6 DEF NodeInv
<1> QED  BY <1>7, <1>8

LEMMA WorkersChangeKeeps ==
    ASSUME CmdInv, NodeInv, WorkersChange
    PROVE  CmdInv' /\ NodeInv'
<1>1. Serves /\ template = "template" /\ worker' \in BOOLEAN
    <2>1. worker' = ~worker  BY DEF WorkersChange
    <2> QED  BY <2>1, Zenon DEF WorkersChange
<1>2. UNCHANGED <<cmd, objs, up, others, app, token, template, smoke, linked, sys, blocks, ctl, scaleSet,
                  warned, faults>>
    BY DEF WorkersChange, External, hostVars, guestVars
<1>3. CmdInv'  BY <1>1, <1>2, ExternalKeeps
<1>4. NodeInv'
    <2>1. NodeOK'  BY <1>1, <1>2 DEF NodeInv, NodeOK
    <2>2. Unapplied => Unapplied'  BY <1>2 DEF Unapplied
    <2>3. Flawless'  BY <2>2, <1>2 DEF NodeInv, Flawless, GitHubOK
    <2>4. ConfigInv'  BY <1>2 DEF NodeInv, ConfigInv
    <2> QED  BY <2>1, <2>3, <2>4 DEF NodeInv
<1> QED  BY <1>3, <1>4

LEMMA SystemVMStopsKeeps ==
    ASSUME CmdInv, NodeInv, NEW x \in SystemVMs, SystemVMStops(x)
    PROVE  CmdInv' /\ NodeInv'
<1>1. /\ cmd.pc # "run" /\ sys[x] = "up" /\ sys' = [sys EXCEPT ![x] = "off"]
      /\ ctl' = IF x = "controller" THEN [ctl EXCEPT !.session = "none"] ELSE ctl
      /\ faults < MaxFaults /\ faults' = faults + 1
    BY DEF SystemVMStops, Fault
<1>2. UNCHANGED <<cmd, objs, up, others, app, token, template, smoke, worker, linked, blocks, scaleSet, warned>>
    BY DEF SystemVMStops, External, hostVars, poolVars
<1>3. /\ ctl' \in Controller /\ ctl'.config = ctl.config /\ ctl'.secret = ctl.secret /\ ctl'.key = ctl.key
      /\ ctl'.service = ctl.service /\ (ctl'.session = "new" => ctl.session = "new")
    BY <1>1 DEF NodeInv, NodeOK, Controller
<1>4. /\ sys' \in [SystemVMs -> Stages] /\ sys'[x] = "off"
      /\ \A y \in SystemVMs : y # x => sys'[y] = sys[y]
    BY <1>1 DEF NodeInv, NodeOK, Stages
<1>5. faults' \in 0..MaxFaults /\ faults' # 0  BY <1>1, FaultAssumption DEF NodeInv, NodeOK
<1>6. CmdInv'  BY <1>1, <1>2, <1>3, <1>4, <1>5, ExternalKeeps
<1>7. NodeInv'
    <2>1. sys'["controller"] \notin Running \cup {"off"} => ctl' = NewController
        BY <1>1, <1>4 DEF NodeInv, NodeOK, SystemVMs
    <2>2. NodeOK'  BY <1>2, <1>3, <1>4, <1>5, <2>1 DEF NodeInv, NodeOK
    <2>3. Flawless'  BY <1>5 DEF Flawless
    <2>4. ConfigInv'  BY <1>2, <1>3 DEF NodeInv, ConfigInv
    <2> QED  BY <2>2, <2>3, <2>4 DEF NodeInv
<1> QED  BY <1>6, <1>7

LEMMA SystemVMStartsKeeps ==
    ASSUME CmdInv, NodeInv, NEW x \in SystemVMs, SystemVMStarts(x)
    PROVE  CmdInv' /\ NodeInv'
<1>1. cmd.pc # "run" /\ sys[x] = "off" /\ sys' = [sys EXCEPT ![x] = "up"]  BY DEF SystemVMStarts
<1>2. UNCHANGED <<cmd, objs, up, others, app, token, template, smoke, worker, linked, blocks, ctl, scaleSet,
                  warned, faults>>
    BY DEF SystemVMStarts, External, hostVars, poolVars
<1>3. /\ sys' \in [SystemVMs -> Stages] /\ sys'[x] = "up"
      /\ \A y \in SystemVMs : y # x => sys'[y] = sys[y]
    BY <1>1 DEF NodeInv, NodeOK, Stages, Running
<1>4. CmdInv'  BY <1>1, <1>2, <1>3, ExternalKeeps
<1>5. NodeInv'
    <2>1. sys'["controller"] \notin Running \cup {"off"} => sys["controller"] \notin Running \cup {"off"}
        BY <1>3 DEF SystemVMs, Running
    <2>2. NodeOK'  BY <1>2, <1>3, <2>1 DEF NodeInv, NodeOK
    <2>3. sys["controller"] \in Running => sys'["controller"] \in Running  BY <1>1, <1>3 DEF SystemVMs, Running
    <2>4. ~Unapplied  BY <1>1 DEF Unapplied
    <2>5. Flawless'  BY <1>2, <2>3, <2>4 DEF NodeInv, Flawless, GitHubOK
    <2>6. ConfigInv'  BY <1>2 DEF NodeInv, ConfigInv
    <2> QED  BY <2>2, <2>5, <2>6 DEF NodeInv
<1> QED  BY <1>4, <1>5

LEMMA OthersKeep ==
    ASSUME CmdInv, NodeInv, OthersEdit \/ OthersApply
    PROVE  CmdInv' /\ NodeInv'
<1>1. UNCHANGED <<cmd, objs, app, token, template, smoke, worker, linked, sys, blocks, ctl, scaleSet, warned, faults>>
    BY DEF OthersEdit, OthersApply, External, poolVars, guestVars
<1>2. \/ ~others /\ up' = up /\ others' = TRUE
      \/ "vnet" \in objs /\ up' = TRUE /\ others' = FALSE
      \/ "vnet" \notin objs /\ up' = FALSE /\ others' = FALSE
    <2>1. CASE OthersEdit  BY <2>1, Zenon DEF OthersEdit
    <2>2. CASE OthersApply
        <3>1. up' = ("vnet" \in objs) /\ others' = FALSE  BY <2>2, Zenon DEF OthersApply, AppliedSDN
        <3>2. CASE "vnet" \in objs
            <4>1. ("vnet" \in objs) = TRUE  BY <3>2, Zenon
            <4> QED  BY <3>1, <3>2, <4>1
        <3>3. CASE "vnet" \notin objs
            <4>1. ("vnet" \in objs) = FALSE  BY <3>3
            <4> QED  BY <3>1, <3>3, <4>1
        <3> QED  BY <3>2, <3>3
    <2> QED  BY <2>1, <2>2
<1>3. up' \in BOOLEAN /\ others' \in BOOLEAN  BY <1>2, Zenon DEF NodeInv, NodeOK
<1>4. CmdInv'  BY <1>1, <1>2, ExternalKeeps
<1>5. NodeInv'
    <2>1. NodeOK'  BY <1>1, <1>3 DEF NodeInv, NodeOK
    <2>2. Unapplied => Unapplied'  BY <1>1 DEF Unapplied
    <2>3. Flawless'  BY <2>2, <1>1, <1>2 DEF NodeInv, Flawless, GitHubOK
    <2>4. ConfigInv'  BY <1>1 DEF NodeInv, ConfigInv
    <2> QED  BY <2>1, <2>3, <2>4 DEF NodeInv
<1> QED  BY <1>4, <1>5

-----------------------------------------------------------------------------
(* The invariant holds *)

LEMMA InitInv == Init => InstInv
<1> SUFFICES ASSUME Init PROVE CmdInv /\ NodeInv
    BY InvParts
<1>1. CmdOK
    <2>1. <<>> \in Seq(Steps)  OBVIOUS
    <2> QED  BY <2>1 DEF Init, CmdOK, Commands
<1>2. CmdInv  BY <1>1 DEF Init, CmdInv, InstallShape, UninstallShape, Removed
<1>3. NodeOK
    <2>1. /\ up \in BOOLEAN /\ others \in BOOLEAN /\ token \in BOOLEAN /\ worker \in BOOLEAN /\ linked \in BOOLEAN
          /\ blocks \in BOOLEAN /\ scaleSet \in BOOLEAN
        BY DEF Init
    <2>2. ctl \in Controller /\ ctl = NewController /\ ctl.key = "none"  BY DEF Init, NewController, Controller
    <2>3. sys \in [SystemVMs -> Stages]  BY DEF Init, Stages
    <2>4. faults \in 0..MaxFaults  BY FaultAssumption DEF Init
    <2>5. objs \subseteq Objects /\ app \in AppStates /\ template = "none" /\ smoke = {} /\ worker = FALSE
          /\ warned = {}
        BY DEF Init, AppStates
    <2> QED  BY <2>1, <2>2, <2>3, <2>4, <2>5 DEF NodeOK
<1>4. Flawless /\ ConfigInv  BY DEF Init, Flawless, ConfigInv, NewController
<1> QED  BY <1>2, <1>3, <1>4 DEF NodeInv

LEMMA InstallStepKeeps ==
    ASSUME CmdInv, NodeInv, InstallStep
    PROVE  CmdInv' /\ NodeInv'
<1>1. CASE \E o \in Objects : CreateObject(o) \/ CreateSDN(o)  BY <1>1, CreateObjectKeeps, CreateSDNKeeps
<1>2. CASE SaveSettings  BY <1>2, SaveSettingsKeeps
<1>3. CASE ApplySDN  BY <1>3, ApplySDNKeeps
<1>4. CASE Check("vnetUp", up)  BY <1>4, CheckKeeps
<1>5. CASE ImportTemplate  BY <1>5, ImportTemplateKeeps
<1>6. CASE \E x \in SystemVMs : BuildVM(x)  BY <1>6, BuildVMKeeps
<1>7. CASE ConfigureGateway("configure", FALSE) \/ ConfigureGateway("block", TRUE)  BY <1>7, ConfigureGatewayKeeps
<1>8. CASE PushConfig  BY <1>8, PushConfigKeeps
<1>9. CASE EnsureToken  BY <1>9, EnsureTokenKeeps
<1>10. CASE TestFails  BY <1>10, TestFailsKeeps
<1>11. CASE AddToken  BY <1>11, AddTokenKeeps
<1>12. CASE WriteSecret  BY <1>12, WriteSecretKeeps
<1>13. CASE Check("checkProxmox", ProxmoxOK)  BY <1>13, CheckKeeps
<1>14. CASE SetupApp  BY <1>14, SetupAppKeeps
<1>15. CASE SaveClient  BY <1>15, SaveClientKeeps
<1>16. CASE WaitInstallation  BY <1>16, WaitInstallationKeeps
<1>17. CASE SaveInstallation  BY <1>17, SaveInstallationKeeps
<1>18. CASE Check("checkGitHub", GitHubOK)  BY <1>18, CheckKeeps
<1>19. CASE StartController  BY <1>19, StartControllerKeeps
<1>20. CASE DestroyBuildVMs \/ CloneSmokeTest \/ StartSmokeTest \/ CheckNetwork  BY <1>20, SmokeKeeps
<1>21. CASE NetworkBroken  BY <1>21, NetworkBrokenKeeps
<1>22. CASE Check("session", ctl.session = "new")  BY <1>22, CheckKeeps
<1>23. CASE TagController  BY <1>23, TagControllerKeeps
<1>24. CASE GiveUp \/ StopAfter  BY <1>24, GiveUpKeeps
<1> QED  BY <1>1, <1>2, <1>3, <1>4, <1>5, <1>6, <1>7, <1>8, <1>9, <1>10, <1>11, <1>12, <1>13, <1>14, <1>15, <1>16,
            <1>17, <1>18, <1>19, <1>20, <1>21, <1>22, <1>23, <1>24 DEF InstallStep

LEMMA UninstallStepKeeps ==
    ASSUME CmdInv, NodeInv, UninstallStep
    PROVE  CmdInv' /\ NodeInv'
<1>1. CASE StopController  BY <1>1, StopControllerKeeps
<1>2. CASE DeleteScaleSet  BY <1>2, DeleteScaleSetKeeps
<1>3. CASE \E step \in Steps : OnlyWarns(step)  BY <1>3, OnlyWarnsKeeps
<1>4. CASE ListVMs  BY <1>4, ListVMsKeeps
<1>5. CASE AllDestroyed  BY <1>5, AllDestroyedKeeps
<1>6. CASE \E v \in cmd.vms : DestroyVM(v) \/ DestroyRefused(v)  BY <1>6, DestroyVMKeeps, DestroyRefusedKeeps
<1>7. CASE \E o \in Objects : RemovePool(o) \/ RemoveObject(o) \/ RemoveSDN(o)
    BY <1>7, RemovePoolKeeps, RemoveObjectKeeps, RemoveSDNKeeps
<1>8. CASE RemoveToken  BY <1>8, RemoveTokenKeeps
<1>9. CASE UnapplySDN  BY <1>9, UnapplySDNKeeps
<1>10. CASE RemoveSettings  BY <1>10, RemoveSettingsKeeps
<1> QED  BY <1>1, <1>2, <1>3, <1>4, <1>5, <1>6, <1>7, <1>8, <1>9, <1>10 DEF UninstallStep

LEMMA NextInv == InstInv /\ [Next]_vars => InstInv'
<1> SUFFICES ASSUME InstInv, [Next]_vars PROVE InstInv'
    OBVIOUS
<1>1. CmdInv /\ NodeInv  BY InvParts
<1>2. CASE StartInstall  BY <1>1, <1>2, StartInstallKeeps, InvParts2
<1>3. CASE StartUninstall  BY <1>1, <1>3, StartUninstallKeeps, InvParts2
<1>4. CASE InstallStep  BY <1>1, <1>4, InstallStepKeeps, InvParts2
<1>5. CASE UninstallStep  BY <1>1, <1>5, UninstallStepKeeps, InvParts2
<1>6. CASE Fail  BY <1>1, <1>6, FailKeeps, InvParts2
<1>7. CASE OpenSession \/ SessionEnds  BY <1>1, <1>7, SessionKeeps, InvParts2
<1>8. CASE WorkersChange  BY <1>1, <1>8, WorkersChangeKeeps, InvParts2
<1>9. CASE \E x \in SystemVMs : SystemVMStops(x) \/ SystemVMStarts(x)
    BY <1>1, <1>9, SystemVMStopsKeeps, SystemVMStartsKeeps, InvParts2
<1>10. CASE OthersEdit \/ OthersApply  BY <1>1, <1>10, OthersKeep, InvParts2
<1>11. CASE UNCHANGED vars
    <2>1. UNCHANGED <<objs, up, others, app, token, template, smoke, worker, linked, sys, blocks, ctl, scaleSet, cmd,
                      warned, faults>>
        BY <1>11 DEF vars, hostVars, poolVars, guestVars
    <2>2. CmdOK' /\ Removed'  BY <1>1, <2>1 DEF CmdInv, CmdOK, Removed, Clean
    <2>3. InstallShape'
        <3> SUFFICES ASSUME cmd.pc = "run", cmd.kind = "install"
                     PROVE  \E k \in 1..36 : cmd'.plan = PlanAt[k] /\ Made(k, objs') /\ Built(k)'
            BY <2>1 DEF InstallShape
        <3>1. PICK k \in 1..36 : cmd.plan = PlanAt[k] /\ Made(k, objs) /\ Built(k)  BY <1>1 DEF CmdInv, InstallShape
        <3>2. Built(k)'  BY <2>1, <3>1 DEF Built
        <3> WITNESS k \in 1..36
        <3> QED  BY <2>1, <3>1, <3>2
    <2>4. UninstallShape'  BY <1>1, <2>1 DEF CmdInv, UninstallShape, Dropped, Gone, Clean
    <2>5. NodeInv'  BY <1>1, <2>1 DEF NodeInv, NodeOK, Flawless, ConfigInv, GitHubOK, Unapplied
    <2> QED  BY <2>2, <2>3, <2>4, <2>5, InvParts2 DEF CmdInv
<1> QED  BY <1>2, <1>3, <1>4, <1>5, <1>6, <1>7, <1>8, <1>9, <1>10, <1>11 DEF Next

\* However many commands run, fail or are killed, and whatever the controller and other people do meanwhile: at each
\* position of install or uninstall everything that the steps before it did is still so, and while nothing failed
\* nothing is left behind for which no later step is responsible.
THEOREM InstInvHolds == Spec => []InstInv
<1>1. Init => InstInv  BY InitInv
<1>2. InstInv /\ [Next]_vars => InstInv'  BY NextInv
<1> QED  BY <1>1, <1>2, PTL DEF Spec

\* The types, and what depends on what on the node: files of a controller VM need the VM, a stored key of the App has
\* the App in the settings, clones have their template.
THEOREM InstallTypes == Spec => []TypeOK
<1>1. InstInv => TypeOK  BY DEF InstInv
<1> QED  BY <1>1, InstInvHolds, PTL

\* An uninstall that ended well has removed everything but for what it said it leaves, wherever earlier commands
\* stopped (Installer.Uninstall).
THEOREM UninstallLeavesNothing == Spec => []UninstallRemoves
<1>1. InstInv => UninstallRemoves
    <2> SUFFICES ASSUME InstInv, cmd.pc = "done", cmd.kind = "uninstall"
                 PROVE  /\ objs \subseteq {"runPool", "sysPool"} \cap warned
                        /\ template = "none" /\ smoke = {} /\ ~token /\ app = "none"
                        /\ \A x \in SystemVMs : sys[x] = "none"
                        /\ worker => "stop" \in warned
                        /\ faults = 0 => objs = {} /\ ~scaleSet /\ (up => "sdn" \in warned)
        BY DEF UninstallRemoves
    <2>1. /\ objs \subseteq {"runPool", "sysPool"} \cap warned
          /\ template = "none" /\ smoke = {} /\ ~token /\ app = "none"
          /\ \A x \in SystemVMs : sys[x] = "none"
          /\ worker => "stop" \in warned
          /\ faults = 0 => ~scaleSet
        BY DEF InstInv, Removed, Clean
    <2>2. ASSUME faults = 0 PROVE objs = {} /\ (up => "sdn" \in warned)
        <3>1. warned \cap {"stop", "runPool", "sysPool"} = {}  BY <2>2 DEF InstInv, Flawless
        <3>2. objs = {}  BY <2>1, <3>1
        <3>3. ~Unapplied  BY DEF Unapplied
        <3>4. up => "vnet" \in objs \/ (others /\ "sdn" \in warned) \/ Unapplied  BY <2>2 DEF InstInv, Flawless
        <3> QED  BY <3>2, <3>3, <3>4
    <2> QED  BY <2>1, <2>2
<1> QED  BY <1>1, InstInvHolds, PTL

-----------------------------------------------------------------------------
(* What a step may do *)

\* Only install's last step gives the controller VM its release tag.
LEMMA OnlyTagController ==
    ASSUME NodeOK, [Next]_vars, ~ctl.tag, ctl'.tag
    PROVE  TagController
<1>1. ctl \in Controller  BY DEF NodeOK
<1>2. ctl' # ctl  OBVIOUS
<1>3. ~NewController.tag  BY DEF NewController
<1>4. ASSUME NEW v, ctl' = [ctl EXCEPT !.config = v] PROVE FALSE  BY <1>1, <1>4 DEF Controller
<1>5. ASSUME NEW v, ctl' = [ctl EXCEPT !.secret = v] PROVE FALSE  BY <1>1, <1>5 DEF Controller
<1>6. ASSUME NEW v, ctl' = [ctl EXCEPT !.key = v] PROVE FALSE  BY <1>1, <1>6 DEF Controller
<1>7. ASSUME NEW v, ctl' = [ctl EXCEPT !.session = v] PROVE FALSE  BY <1>1, <1>7 DEF Controller
<1>8. ASSUME NEW v \in BOOLEAN, NEW s, ctl' = [ctl EXCEPT !.service = v, !.session = s] PROVE FALSE
    BY <1>1, <1>8 DEF Controller
<1>9. ctl' # Invalidated  BY <1>5 DEF Invalidated
<1>10. CASE InstallStep
    <2>1. /\ \A o \in Objects : ~CreateObject(o) /\ ~CreateSDN(o)
          /\ ~SaveSettings /\ ~ApplySDN /\ ~ImportTemplate
        BY <1>2 DEF CreateObject, CreateSDN, SaveSettings, ApplySDN, ImportTemplate, guestVars
    <2>2. \A step, ok : ~Check(step, ok)  BY <1>2 DEF Check, guestVars
    <2>3. /\ \A x \in SystemVMs : ~BuildVM(x)
          /\ \A step, b : ~ConfigureGateway(step, b)
        BY <1>2 DEF BuildVM, ConfigureGateway
    <2>4. ~PushConfig  BY <1>4 DEF PushConfig, DoController
    <2>5. ~EnsureToken /\ ~TestFails /\ ~AddToken  BY <1>2, <1>9 DEF EnsureToken, TestFails, AddToken, DoController
    <2>6. ~WriteSecret  BY <1>5 DEF WriteSecret, DoController
    <2>7. ~SetupApp  BY <1>2, <1>6 DEF SetupApp, DoController
    <2>8. ~SaveClient  BY <1>6 DEF SaveClient, DoController
    <2>9. ~WaitInstallation /\ ~SaveInstallation  BY <1>2 DEF WaitInstallation, SaveInstallation, DoController
    <2>10. ~StartController  BY <1>8 DEF StartController, DoController
    <2>11. ~DestroyBuildVMs /\ ~CloneSmokeTest /\ ~StartSmokeTest /\ ~CheckNetwork /\ ~NetworkBroken
        BY <1>2 DEF DestroyBuildVMs, CloneSmokeTest, StartSmokeTest, CheckNetwork, DoSmoke, NetworkBroken, guestVars
    <2>12. ~GiveUp /\ ~StopAfter  BY <1>2 DEF GiveUp, StopAfter, guestVars
    <2> QED  BY <1>10, <2>1, <2>2, <2>3, <2>4, <2>5, <2>6, <2>7, <2>8, <2>9, <2>10, <2>11, <2>12 DEF InstallStep
<1>11. CASE UninstallStep
    <2>1. ~StopController  BY <1>8 DEF StopController
    <2>2. /\ ~DeleteScaleSet /\ ~ListVMs /\ ~AllDestroyed /\ ~UnapplySDN /\ ~RemoveSettings
          /\ \A step \in Steps : ~OnlyWarns(step)
        BY <1>2 DEF DeleteScaleSet, ListVMs, AllDestroyed, UnapplySDN, RemoveSettings, OnlyWarns, guestVars
    <2>3. \A v : ~DestroyVM(v) /\ ~DestroyRefused(v)
        BY <1>2, <1>3 DEF DestroyVM, DestroyRefused, guestVars
    <2>4. \A o \in Objects : ~RemovePool(o) /\ ~RemoveObject(o) /\ ~RemoveSDN(o)
        BY <1>2 DEF RemovePool, RemoveObject, RemoveSDN, guestVars
    <2>5. ~RemoveToken  BY <1>9 DEF RemoveToken
    <2> QED  BY <1>11, <2>1, <2>2, <2>3, <2>4, <2>5 DEF UninstallStep
<1>12. ~StartInstall /\ ~StartUninstall /\ ~Fail
    BY <1>2 DEF StartInstall, StartUninstall, Begin, Fail, guestVars
<1>13. ~OpenSession /\ ~SessionEnds  BY <1>7 DEF OpenSession, SessionEnds
<1>14. ~WorkersChange /\ ~OthersEdit /\ ~OthersApply  BY <1>2 DEF WorkersChange, OthersEdit, OthersApply, guestVars
<1>15. \A x \in SystemVMs : ~SystemVMStops(x) /\ ~SystemVMStarts(x)
    BY <1>2, <1>7 DEF SystemVMStops, SystemVMStarts
<1>16. ~UNCHANGED vars  BY <1>2 DEF vars, guestVars
<1> QED  BY <1>10, <1>11, <1>12, <1>13, <1>14, <1>15, <1>16 DEF Next

\* The controller VM gets its release tag only when everything that an install sets up is there and fits together
\* (Installer.Install's last step), so that a tag found later means a finished install.
THEOREM TagComesLast == Spec => TagMeansComplete
<1>1. ASSUME InstInv, [Next]_vars PROVE ~ctl.tag /\ ctl'.tag => Complete'
    <2> SUFFICES ASSUME ~ctl.tag, ctl'.tag PROVE Complete'
        OBVIOUS
    <2>1. CmdInv /\ NodeInv /\ NodeOK  BY <1>1, InvParts DEF NodeInv
    <2>2. TagController  BY <1>1, <2>1, OnlyTagController
    <2>3. DoController("tag", [ctl EXCEPT !.tag = TRUE], Rest) /\ UNCHANGED <<app, token>>
        BY <2>2 DEF TagController
    <2>4. /\ ctl' = [ctl EXCEPT !.tag = TRUE]
          /\ UNCHANGED <<objs, up, template, smoke, sys, blocks, scaleSet, app, token>>
        BY <2>3 DEF DoController, poolVars
    <2>5. PICK k \in 1..36 : Made(k, objs) /\ Built(k) /\ Full[k] = "tag"
        <3>1. At("install", "tag")  BY <2>3 DEF DoController
        <3> QED  BY <3>1, <2>1, AtInstall
    <2>6. k = 36  BY <2>5, Where
    <2>7. objs = Objects
        <3>1. /\ Full[1] = "binary" /\ Full[2] = "settings" /\ Full[3] = "sysPool" /\ Full[4] = "runPool"
              /\ Full[5] = "role" /\ Full[6] = "user" /\ Full[7] = "zone" /\ Full[8] = "vnet" /\ Full[11] = "tuning"
              /\ Full[21] = "acls"
            BY DEF Full
        <3>2. \A i \in {1, 2, 3, 4, 5, 6, 7, 8, 11, 21} : i \in 1..36 /\ i < 36  OBVIOUS
        <3>3. \A i \in {1, 2, 3, 4, 5, 6, 7, 8, 11, 21} : Full[i] \in Objects => Full[i] \in objs
            BY <2>5, <2>6, <3>2 DEF Made
        <3>4. Objects \subseteq objs  BY <3>1, <3>3 DEF Objects
        <3> QED  BY <3>4, <2>1 DEF NodeOK
    <2>8. /\ up /\ template = "template" /\ "build" \notin smoke
          /\ sys["gateway"] \in Running /\ sys["controller"] \in Running
          /\ blocks /\ token /\ ctl.secret = "current"
          /\ app = "installed" /\ ctl.config = app /\ ctl.key = "saved" /\ ctl.service /\ scaleSet
        BY <2>5, <2>6 DEF Built
    <2>9. /\ ctl'.secret = ctl.secret /\ ctl'.config = ctl.config /\ ctl'.key = ctl.key /\ ctl'.service = ctl.service
        BY <2>1, <2>4 DEF NodeOK, Controller
    <2>10. \A x \in SystemVMs : sys[x] \in Running  BY <2>8 DEF SystemVMs
    <2> QED  BY <2>4, <2>7, <2>8, <2>9, <2>10 DEF Complete
<1>2. Spec => [][Next]_vars  BY PTL DEF Spec
<1>3. InstInv /\ [Next]_vars => [~ctl.tag /\ ctl'.tag => Complete']_vars  BY <1>1
<1> QED  BY <1>2, <1>3, InstInvHolds, PTL DEF TagMeansComplete

\* A command that goes on hasn't failed.
LEMMA WithRuns ==
    ASSUME NEW c, "pc" \in DOMAIN c, NEW p
    PROVE  With(c, p).pc # "failed"
<1> DEFINE pc == IF p = <<>> THEN "done" ELSE "run"
<1>1. pc # "failed"  OBVIOUS
<1>2. With(c, p) = [c EXCEPT !.plan = p, !.pc = pc]  BY DEF With
<1> HIDE DEF pc
<1> QED  BY <1>1, <1>2

\* The ways in which a command fails though none of its calls does.
LEMMA OnlyGivesUp ==
    ASSUME CmdOK, NodeOK, [Next]_vars, cmd.pc = "run", cmd'.pc = "failed", faults' = faults
    PROVE  GiveUp \/ \E v \in cmd.vms : DestroyRefused(v)
<1>1. cmd \in Commands /\ "pc" \in DOMAIN cmd  BY DEF CmdOK, Commands
<1>2. cmd' # cmd  OBVIOUS
<1>3. ~Fault  BY DEF Fault, NodeOK
<1>4. \A p : cmd' # With(cmd, p)  BY <1>1, WithRuns
<1>5. ASSUME NEW v, NEW p, cmd' = With([cmd EXCEPT !.changed = v], p) PROVE FALSE
    <2>1. "pc" \in DOMAIN [cmd EXCEPT !.changed = v]  BY <1>1
    <2> QED  BY <2>1, <1>5, WithRuns
<1>6. ASSUME NEW v, NEW p, cmd' = With([cmd EXCEPT !.hurt = v], p) PROVE FALSE
    <2>1. "pc" \in DOMAIN [cmd EXCEPT !.hurt = v]  BY <1>1
    <2> QED  BY <2>1, <1>6, WithRuns
<1>7. ASSUME NEW v, NEW p, cmd' = With([cmd EXCEPT !.vms = v], p) PROVE FALSE
    <2>1. "pc" \in DOMAIN [cmd EXCEPT !.vms = v]  BY <1>1
    <2> QED  BY <2>1, <1>7, WithRuns
<1>8. ASSUME NEW v, cmd' = [cmd EXCEPT !.vms = v] PROVE FALSE  BY <1>1, <1>8 DEF Commands
<1>9. ASSUME NEW v, cmd' = [cmd EXCEPT !.made = v] PROVE FALSE  BY <1>1, <1>9 DEF Commands
<1>10. \A kind, step : ~Do(kind, step)  BY <1>4 DEF Do
<1>11. \A step, files, plan : ~DoController(step, files, plan)  BY <1>4 DEF DoController
<1>12. CASE InstallStep
    <2>1. /\ \A o \in Objects : ~CreateObject(o)
          /\ ~SaveSettings /\ ~ApplySDN /\ \A step, ok : ~Check(step, ok)
          /\ \A step, b : ~ConfigureGateway(step, b)
        BY <1>10 DEF CreateObject, SaveSettings, ApplySDN, Check, ConfigureGateway
    <2>2. \A o \in Objects : ~CreateSDN(o)  BY <1>5 DEF CreateSDN
    <2>3. ~ImportTemplate  BY <1>2, <1>4, <1>9 DEF ImportTemplate
    <2>4. \A x \in SystemVMs : ~BuildVM(x)  BY <1>2, <1>4, <1>9 DEF BuildVM
    <2>5. ~PushConfig /\ ~EnsureToken /\ ~AddToken /\ ~WriteSecret /\ ~SetupApp /\ ~SaveClient
        BY <1>11 DEF PushConfig, EnsureToken, AddToken, WriteSecret, SetupApp, SaveClient
    <2>6. ~WaitInstallation /\ ~SaveInstallation /\ ~StartController /\ ~TagController
        BY <1>11 DEF WaitInstallation, SaveInstallation, StartController, TagController
    <2>7. ~DestroyBuildVMs /\ ~CloneSmokeTest /\ ~StartSmokeTest /\ ~CheckNetwork
        BY <1>10 DEF DestroyBuildVMs, CloneSmokeTest, StartSmokeTest, CheckNetwork, DoSmoke
    <2>8. ~TestFails /\ ~NetworkBroken  BY <1>3 DEF TestFails, NetworkBroken
    <2>9. ~StopAfter
        <3>1. [cmd EXCEPT !.plan = <<>>, !.pc = "done"].pc = "done"  BY <1>1
        <3> QED  BY <3>1 DEF StopAfter
    <2> QED  BY <1>12, <2>1, <2>2, <2>3, <2>4, <2>5, <2>6, <2>7, <2>8, <2>9 DEF InstallStep
<1>13. CASE UninstallStep
    <2>1. ~StopController /\ ~DeleteScaleSet /\ ~AllDestroyed /\ ~RemoveToken /\ ~RemoveSettings
        BY <1>10 DEF StopController, DeleteScaleSet, AllDestroyed, RemoveToken, RemoveSettings
    <2>2. \A step \in Steps : ~OnlyWarns(step)  BY <1>6 DEF OnlyWarns
    <2>3. ~ListVMs  BY <1>7 DEF ListVMs
    <2>4. \A v \in cmd.vms : ~DestroyVM(v)  BY <1>8 DEF DestroyVM
    <2>5. \A o \in Objects : ~RemovePool(o) /\ ~RemoveObject(o)  BY <1>4, <1>10 DEF RemovePool, RemoveObject
    <2>6. \A o \in Objects : ~RemoveSDN(o)  BY <1>5 DEF RemoveSDN
    <2>7. ~UnapplySDN  BY <1>4 DEF UnapplySDN
    <2> QED  BY <1>13, <2>1, <2>2, <2>3, <2>4, <2>5, <2>6, <2>7 DEF UninstallStep
<1>14. ~StartInstall /\ ~StartUninstall  BY DEF StartInstall, StartUninstall, Begin
<1>15. ~Fail  BY <1>3 DEF Fail
<1>16. /\ ~OpenSession /\ ~SessionEnds /\ ~WorkersChange /\ ~OthersEdit /\ ~OthersApply
       /\ \A x \in SystemVMs : ~SystemVMStops(x) /\ ~SystemVMStarts(x)
    BY <1>2 DEF OpenSession, SessionEnds, WorkersChange, OthersEdit, OthersApply, SystemVMStops,
         SystemVMStarts, External
<1>17. ~UNCHANGED vars  BY <1>2 DEF vars
<1> QED  BY <1>12, <1>13, <1>14, <1>15, <1>16, <1>17 DEF Next

\* An install in which no call fails continues whatever earlier commands left and ends well, except after the four
\* kinds of interruption that InstallContinues names; there are no others (Installer.Install and its steps).
THEOREM InstallGoesThrough == Spec => InstallContinues
<1> DEFINE Known == \/ {"zone", "vnet"} \subseteq objs /\ ~up /\ ~cmd.changed
                    \/ \E x \in SystemVMs : sys[x] = "bare"
                    \/ ctl.secret = "stale" \/ (app # "none" /\ ctl.key # "saved")
                    \/ ctl.service /\ ctl.session = "old"
<1>1. ASSUME InstInv, [Next]_vars PROVE FailsUnhurt("install") => Known
    <2> SUFFICES ASSUME FailsUnhurt("install") PROVE Known
        OBVIOUS
    <2>1. CmdInv /\ CmdOK /\ NodeOK  BY <1>1, InvParts DEF CmdInv, NodeInv
    <2>2. cmd.pc = "run" /\ cmd.kind = "install" /\ cmd'.pc = "failed" /\ faults' = faults  BY DEF FailsUnhurt
    <2>3. Hopeless
        <3>1. GiveUp \/ \E v \in cmd.vms : DestroyRefused(v)  BY <1>1, <2>1, <2>2, OnlyGivesUp
        <3>2. \A v : ~DestroyRefused(v)  BY <2>2 DEF DestroyRefused, At
        <3> QED  BY <3>1, <3>2 DEF GiveUp
    <2>4. ctl \in Controller  BY <2>1 DEF NodeOK
    <2>5. CASE At("install", "vnetUp") /\ ~up
        <3>1. PICK k \in 1..36 : Made(k, objs) /\ Built(k) /\ Full[k] = "vnetUp"  BY <2>1, <2>5, AtInstall
        <3>2. k = 10  BY <3>1, Where
        <3>3. Full[7] = "zone" /\ Full[8] = "vnet" /\ {"zone", "vnet"} \subseteq Objects  BY DEF Full, Objects
        <3>4. "zone" \in objs /\ "vnet" \in objs  BY <3>1, <3>2, <3>3 DEF Made
        <3>5. ~cmd.changed  BY <2>5, <3>1, <3>2 DEF Built
        <3> QED  BY <2>5, <3>4, <3>5
    <2>6. CASE \/ At("install", "configure") /\ sys["gateway"] = "bare"
               \/ At("install", "block") /\ "bare" \in {sys["gateway"], sys["controller"]}
        BY <2>6 DEF SystemVMs
    <2>7. CASE At("install", "checkProxmox") /\ ~ProxmoxOK
        <3>1. PICK k \in 1..36 : Made(k, objs) /\ Built(k) /\ Full[k] = "checkProxmox"  BY <2>1, <2>7, AtInstall
        <3>2. k = 22  BY <3>1, Where
        <3>3. Full[21] = "acls" /\ "acls" \in Objects  BY DEF Full, Objects
        <3>4. "acls" \in objs  BY <3>1, <3>2, <3>3 DEF Made
        <3>5. ctl.secret # "none"  BY <3>1, <3>2 DEF Built
        <3>6. ctl.secret \in {"none", "current", "stale"}  BY <2>4 DEF Controller
        <3> QED  BY <2>7, <3>4, <3>5, <3>6 DEF ProxmoxOK
    <2>8. CASE At("install", "installation") /\ app = "client" /\ ctl.key # "saved"  BY <2>8
    <2>9. CASE At("install", "checkGitHub") /\ ~GitHubOK
        <3>1. PICK k \in 1..36 : Built(k) /\ Full[k] = "checkGitHub"  BY <2>1, <2>9, AtInstall
        <3>2. k = 29  BY <3>1, Where
        <3>3. app = "installed" /\ ctl.config = app  BY <3>1, <3>2 DEF Built
        <3> QED  BY <2>9, <3>3 DEF GitHubOK
    <2>10. CASE At("install", "clone") /\ template # "template"
        <3>1. PICK k \in 1..36 : Built(k) /\ Full[k] = "clone"  BY <2>1, <2>10, AtInstall
        <3>2. k = 32  BY <3>1, Where
        <3> QED  BY <2>10, <3>1, <3>2 DEF Built
    <2>11. CASE At("install", "session") /\ ctl.session = "old"
        <3>1. PICK k \in 1..36 : Built(k) /\ Full[k] = "session"  BY <2>1, <2>11, AtInstall
        <3>2. k = 35  BY <3>1, Where
        <3> QED  BY <2>11, <3>1, <3>2 DEF Built
    <2> QED  BY <2>3, <2>5, <2>6, <2>7, <2>8, <2>9, <2>10, <2>11 DEF Hopeless
<1>2. Spec => [][Next]_vars  BY PTL DEF Spec
<1>3. InstInv /\ [Next]_vars => [FailsUnhurt("install") => Known]_vars  BY <1>1
<1> QED  BY <1>2, <1>3, InstInvHolds, PTL DEF InstallContinues

\* An uninstall in which no call fails ends well, whatever earlier commands left: Proxmox never refuses to destroy the
\* template, as every clone that is still there is listed, and clones go first (Installer.Uninstall's destroyVMs).
THEOREM UninstallGoesThrough == Spec => UninstallContinues
<1>1. ASSUME InstInv, [Next]_vars PROVE ~FailsUnhurt("uninstall")
    <2> SUFFICES ASSUME FailsUnhurt("uninstall") PROVE FALSE
        OBVIOUS
    <2>1. CmdInv /\ CmdOK /\ NodeOK  BY <1>1, InvParts DEF CmdInv, NodeInv
    <2>2. cmd.pc = "run" /\ cmd.kind = "uninstall" /\ cmd'.pc = "failed" /\ ~cmd.hurt /\ faults' = faults
        BY DEF FailsUnhurt
    <2>3. PICK v \in cmd.vms : DestroyRefused(v)
        <3>1. GiveUp \/ \E v \in cmd.vms : DestroyRefused(v)  BY <1>1, <2>1, <2>2, OnlyGivesUp
        <3>2. ~GiveUp  BY <2>2 DEF GiveUp, Hopeless, At
        <3> QED  BY <3>1, <3>2
    <2>4. At("uninstall", "destroy") /\ v = "template" /\ linked /\ (worker \/ smoke # {}) /\ DestroyOrder(v)
        BY <2>3 DEF DestroyRefused, HasClones
    <2>5. template = "template"  BY <2>1, <2>4 DEF NodeOK
    <2>6. cmd.vms = {"template"}  BY <2>4, <2>5 DEF DestroyOrder
    <2>7. PICK k \in 1..16, o \in Orders : Gone(k) /\ Removal(o)[k] = "destroy"  BY <2>1, <2>4, AtUninstall
    <2>8. k = 4  BY <2>7, WhereRemoved
    <2>9. smoke \subseteq cmd.vms /\ (worker => "worker" \in cmd.vms)  BY <2>2, <2>7, <2>8 DEF Gone
    <2>10. smoke \subseteq {"clone", "build", "leaked"}  BY <2>1 DEF NodeOK
    <2> QED  BY <2>4, <2>6, <2>9, <2>10
<1>2. Spec => [][Next]_vars  BY PTL DEF Spec
<1>3. InstInv /\ [Next]_vars => [~FailsUnhurt("uninstall")]_vars  BY <1>1
<1> QED  BY <1>2, <1>3, InstInvHolds, PTL DEF UninstallContinues
=============================================================================
