---------------------------- MODULE UpdateProofs ----------------------------
(***************************************************************************)
(* Proofs that update, install and config keep their promises, for any     *)
(* number of releases, formats, settings, failures and outages: first      *)
(* those that hold however many commands are started at the same time,     *)
(* then those of commands that are started one after the other.            *)
(***************************************************************************)
EXTENDS Update, Plans

\* The order of the steps, of both kinds of plan.
Rank ==
    [x \in Steps |->
        CASE x = "apply"     -> 0
          [] x = "binary"    -> 1
          [] x = "template"  -> 2
          [] x = "destroy"   -> 3
          [] x = "find"      -> 4
          [] x = "create"    -> 5
          [] x = "disk"      -> 6
          [] x = "start"     -> 7
          [] x = "configure" -> 8
          [] x = "upgrade"   -> 9
          [] x = "push"      -> 10
          [] x = "save"      -> 11
          [] x = "restart"   -> 12
          [] x = "offloads"  -> 13
          [] x = "asyncPF"   -> 14
          [] x = "tag"       -> 15]

\* What command c still has to do, and the steps that a step leads to.
ToDo(c) == Left(cmd[c].plan)

Follows(left) ==
    /\ "destroy" \in left \/ "find" \in left => "create" \in left
    /\ "create" \in left => "disk" \in left
    /\ "disk" \in left => "start" \in left
    /\ "start" \in left => "configure" \in left
    /\ "upgrade" \in left => "push" \in left
    /\ "push" \in left => "restart" \in left

\* A plan, and what is left of it.
WellPlanned(p) == Ordered(p, Rank) /\ Follows(Left(p)) /\ "apply" \notin Left(p) /\ "save" \notin Left(p)

\* Command c has a plan.
Planned(c) == cmd[c].pc \in {"lock", "run"}

ConfigPlans == {<<"apply">>, <<"push", "save", "restart">>, <<"save", "restart">>, <<"restart">>, <<"save">>}

PlanShape(c) ==
    /\ cmd[c].pc \in {"self", "replace", "exec", "plan"} => cmd[c].kind = "update"
    /\ Planned(c) =>
        /\ cmd[c].plan # <<>>
        /\ IF cmd[c].kind = "update" THEN WellPlanned(cmd[c].plan)
           ELSE cmd[c].plan \in ConfigPlans /\ (cmd[c].pc = "lock" => cmd[c].plan = <<"apply">>)
    /\ cmd[c].pc = "lock" /\ cmd[c].kind = "update" /\ cmd[c].force => {"configure", "restart"} \subseteq ToDo(c)

\* What a running update --force still has to do about what only runs.
Repairs(c) ==
    /\ gw.at = "up" \/ "configure" \in ToDo(c)
    /\ ServiceCurrent \/ "restart" \in ToDo(c)

\* What a running config set or apply has done.
Configures(c) ==
    /\ cmd[c].plan \in {<<"save", "restart">>, <<"restart">>} => ctl.config = Render(cmd[c].s, cmd[c].self)
    /\ cmd[c].plan = <<"restart">> => host.settings = cmd[c].s

RunShape(c) ==
    cmd[c].pc = "run" => IF cmd[c].kind = "update" THEN cmd[c].force => Repairs(c) ELSE Configures(c)

\* The inductive invariant of overlapping commands: only the one with the lock runs, and its plan fits the node.
UpdateInv == TypeOK /\ \A c \in Cmds : PlanShape(c) /\ RunShape(c)

-----------------------------------------------------------------------------
(* Plans *)

\* The rank of every step.
LEMMA Ranks ==
    /\ Rank \in [Steps -> Int]
    /\ Rank["apply"] = 0 /\ Rank["binary"] = 1 /\ Rank["template"] = 2 /\ Rank["destroy"] = 3 /\ Rank["find"] = 4
    /\ Rank["create"] = 5 /\ Rank["disk"] = 6 /\ Rank["start"] = 7 /\ Rank["configure"] = 8 /\ Rank["upgrade"] = 9
    /\ Rank["push"] = 10 /\ Rank["save"] = 11 /\ Rank["restart"] = 12 /\ Rank["offloads"] = 13
    /\ Rank["asyncPF"] = 14 /\ Rank["tag"] = 15
<1>1. Steps = {"binary", "template", "find", "destroy", "create", "disk", "start", "configure",
               "upgrade", "push", "save", "restart", "apply", "tag", "offloads", "asyncPF"}
    BY DEF Steps, Tunings
<1> QED  BY <1>1 DEF Rank

\* The steps are these.
LEMMA AllSteps ==
    Steps = {"binary", "template", "find", "destroy", "create", "disk", "start", "configure",
             "upgrade", "push", "save", "restart", "apply", "tag", "offloads", "asyncPF"}
BY DEF Steps, Tunings

\* One part of a plan after another.
LEMMA Join ==
    ASSUME NEW rank \in [Steps -> Int],
           NEW p \in Seq(Steps), NEW q \in Seq(Steps), Ordered(p, rank), Ordered(q, rank),
           \A x \in Left(p), y \in Left(q) : rank[x] < rank[y]
    PROVE  p \o q \in Seq(Steps) /\ Ordered(p \o q, rank) /\ Left(p \o q) = Left(p) \cup Left(q)
<1>1. p \o q \in Seq(Steps)  OBVIOUS
<1>2. Left(p \o q) = Left(p) \cup Left(q)  BY LeftConcat, SMT
<1>3. Ordered(p, rank) /\ Ordered(q, rank) /\ (\A x \in Left(p), y \in Left(q) : rank[x] < rank[y])
      => Ordered(p \o q, rank)
    BY LeftConcat, Zenon
<1> QED  BY <1>1, <1>2, <1>3, Zenon

\* A conditional part of a plan.
LEMMA WhenLeft ==
    ASSUME NEW condition \in BOOLEAN, NEW p \in Seq(Steps), Ordered(p, Rank)
    PROVE  /\ When(condition, p) \in Seq(Steps) /\ Ordered(When(condition, p), Rank)
           /\ Left(When(condition, p)) = IF condition THEN Left(p) ELSE {}
BY LeftNone DEF When

\* A conditional step.
LEMMA WhenOne ==
    ASSUME NEW condition \in BOOLEAN, NEW x \in Steps
    PROVE  /\ When(condition, <<x>>) \in Seq(Steps) /\ Ordered(When(condition, <<x>>), Rank)
           /\ Left(When(condition, <<x>>)) = IF condition THEN {x} ELSE {}
BY LeftOne, Ranks, WhenLeft

\* The steps that create a gateway, and what goes before them.
LEMMA CreatePlan ==
    /\ CreateSteps \in Seq(Steps) /\ Ordered(CreateSteps, Rank)
    /\ Left(CreateSteps) = {"create", "disk", "start", "configure"}
<1>1. /\ CreateSteps \in Seq(Steps) /\ Len(CreateSteps) = 4
      /\ CreateSteps[1] = "create" /\ CreateSteps[2] = "disk" /\ CreateSteps[3] = "start" /\ CreateSteps[4] = "configure"
    BY AllSteps DEF CreateSteps
<1>2. /\ 1 \in 1..4 /\ 2 \in 1..4 /\ 3 \in 1..4 /\ 4 \in 1..4
      /\ \A i \in 1..4 : i = 1 \/ i = 2 \/ i = 3 \/ i = 4
    OBVIOUS
<1>3. Left(CreateSteps) = {"create", "disk", "start", "configure"}
    BY <1>1, <1>2 DEF Left
<1>4. \A i \in 1..4 : Rank[CreateSteps[i]] = 4 + i  BY <1>1, <1>2, Ranks
<1>5. Ordered(CreateSteps, Rank)  BY <1>1, <1>4 DEF Ordered
<1> QED  BY <1>1, <1>3, <1>5

\* The gateway's part of a plan.
GatewayLeft(force, v) ==
    IF gw.at = "none" THEN {"find", "create", "disk", "start", "configure"}
    ELSE IF force \/ gw.release # v THEN {"destroy", "create", "disk", "start", "configure"} ELSE {}

LEMMA GatewayPlan ==
    ASSUME NEW force \in BOOLEAN, NEW v
    PROVE  /\ GatewaySteps(force, v) \in Seq(Steps) /\ Ordered(GatewaySteps(force, v), Rank)
           /\ Left(GatewaySteps(force, v)) = GatewayLeft(force, v)
<1>1. ASSUME NEW x \in {"find", "destroy"}
      PROVE  /\ <<x>> \o CreateSteps \in Seq(Steps) /\ Ordered(<<x>> \o CreateSteps, Rank)
             /\ Left(<<x>> \o CreateSteps) = {x, "create", "disk", "start", "configure"}
    <2>1. x \in Steps  BY AllSteps
    <2>2. <<x>> \in Seq(Steps) /\ Left(<<x>>) = {x} /\ Ordered(<<x>>, Rank)  BY <2>1, LeftOne, Ranks
    <2>3. \A y \in Left(<<x>>), z \in Left(CreateSteps) : Rank[y] < Rank[z]
        <3>1. Rank[x] = 3 \/ Rank[x] = 4  BY Ranks
        <3>2. \A z \in Left(CreateSteps) : Rank[z] \in {5, 6, 7, 8}  BY CreatePlan, Ranks
        <3> QED  BY <2>2, <3>1, <3>2
    <2>4. /\ <<x>> \o CreateSteps \in Seq(Steps) /\ Ordered(<<x>> \o CreateSteps, Rank)
          /\ Left(<<x>> \o CreateSteps) = Left(<<x>>) \cup Left(CreateSteps)
        BY <2>2, <2>3, CreatePlan, Ranks, Join
    <2> QED  BY <2>2, <2>4, CreatePlan
<1>2. (force \/ gw.release # v) \in BOOLEAN  OBVIOUS
<1>3. CASE gw.at = "none"  BY <1>1, <1>3 DEF GatewaySteps, GatewayLeft
<1>4. CASE gw.at # "none" /\ (force \/ gw.release # v)  BY <1>1, <1>4 DEF GatewaySteps, GatewayLeft, When
<1>5. CASE gw.at # "none" /\ ~(force \/ gw.release # v)  BY <1>5, LeftNone DEF GatewaySteps, GatewayLeft, When
<1> QED  BY <1>3, <1>4, <1>5

\* The controller's part of a plan.
ControllerLeft(force, s, v) ==
    (IF force \/ ctl.bin # v THEN {"upgrade"} ELSE {})
    \cup (IF force \/ ctl.bin # v \/ ctl.config # Render(s, v) THEN {"push", "restart"} ELSE {})

LEMMA ControllerPlan ==
    ASSUME NEW force \in BOOLEAN, NEW s, NEW v
    PROVE  /\ ControllerSteps(force, s, v) \in Seq(Steps) /\ Ordered(ControllerSteps(force, s, v), Rank)
           /\ Left(ControllerSteps(force, s, v)) = ControllerLeft(force, s, v)
<1> DEFINE b == force \/ ctl.bin # v
           d == b \/ ctl.config # Render(s, v)
           p == When(b, <<"upgrade">>)
           q == When(d, <<"push", "restart">>)
<1>1. b \in BOOLEAN /\ d \in BOOLEAN  OBVIOUS
<1>2. "upgrade" \in Steps /\ "push" \in Steps /\ "restart" \in Steps  BY AllSteps
<1> HIDE DEF b, d
<1>3. p \in Seq(Steps) /\ Ordered(p, Rank) /\ Left(p) = IF b THEN {"upgrade"} ELSE {}  BY <1>1, <1>2, WhenOne
<1>4. <<"push", "restart">> \in Seq(Steps) /\ Left(<<"push", "restart">>) = {"push", "restart"}
      /\ Ordered(<<"push", "restart">>, Rank)
    BY <1>2, Ranks, LeftTwo
<1>5. q \in Seq(Steps) /\ Ordered(q, Rank) /\ Left(q) = IF d THEN {"push", "restart"} ELSE {}
    BY <1>1, <1>4, WhenLeft
<1> HIDE DEF p, q
<1>6. \A x \in Left(p), y \in Left(q) : Rank[x] < Rank[y]  BY <1>3, <1>5, Ranks
<1>7. p \o q \in Seq(Steps) /\ Ordered(p \o q, Rank) /\ Left(p \o q) = Left(p) \cup Left(q)
    BY <1>3, <1>5, <1>6, Ranks, Join
<1>8. ControllerSteps(force, s, v) = p \o q  BY DEF ControllerSteps, b, d, p, q
<1>9. Left(p) \cup Left(q) = ControllerLeft(force, s, v)  BY <1>3, <1>5 DEF ControllerLeft, b, d
<1> QED  BY <1>7, <1>8, <1>9

\* The parts of a whole plan.
PiecesLeft(c, s) ==
    (IF cmd[c].script /\ host.bin # cmd[c].self THEN {"binary"} ELSE {})
    \cup (IF cmd[c].force \/ cmd[c].self \notin images.have THEN {"template"} ELSE {})
    \cup GatewayLeft(cmd[c].force, cmd[c].self)
    \cup ControllerLeft(cmd[c].force, s, cmd[c].self)
    \cup (IF cmd[c].force \/ "offloads" \notin host.tuned THEN {"offloads"} ELSE {})
    \cup (IF cmd[c].force \/ "asyncPF" \notin host.tuned THEN {"asyncPF"} ELSE {})

LEMMA PiecesPlan ==
    ASSUME NEW c, NEW s, cmd[c].script \in BOOLEAN, cmd[c].force \in BOOLEAN
    PROVE  Pieces(c, s) \in Seq(Steps) /\ Ordered(Pieces(c, s), Rank) /\ Left(Pieces(c, s)) = PiecesLeft(c, s)
<1> DEFINE m == cmd[c]
           p1 == When(m.script /\ host.bin # m.self, <<"binary">>)
           p2 == When(m.force \/ m.self \notin images.have, <<"template">>)
           p3 == GatewaySteps(m.force, m.self)
           p4 == ControllerSteps(m.force, s, m.self)
           p5 == When(m.force \/ "offloads" \notin host.tuned, <<"offloads">>)
           p6 == When(m.force \/ "asyncPF" \notin host.tuned, <<"asyncPF">>)
           l1 == IF m.script /\ host.bin # m.self THEN {"binary"} ELSE {}
           l2 == IF m.force \/ m.self \notin images.have THEN {"template"} ELSE {}
           l3 == GatewayLeft(m.force, m.self)
           l4 == ControllerLeft(m.force, s, m.self)
           l5 == IF m.force \/ "offloads" \notin host.tuned THEN {"offloads"} ELSE {}
           l6 == IF m.force \/ "asyncPF" \notin host.tuned THEN {"asyncPF"} ELSE {}
<1>1. p1 \in Seq(Steps) /\ Ordered(p1, Rank) /\ Left(p1) = l1  BY AllSteps, WhenOne
<1>2. p2 \in Seq(Steps) /\ Ordered(p2, Rank) /\ Left(p2) = l2  BY AllSteps, WhenOne
<1>3. p3 \in Seq(Steps) /\ Ordered(p3, Rank) /\ Left(p3) = l3  BY GatewayPlan
<1>4. p4 \in Seq(Steps) /\ Ordered(p4, Rank) /\ Left(p4) = l4  BY ControllerPlan
<1>5. p5 \in Seq(Steps) /\ Ordered(p5, Rank) /\ Left(p5) = l5  BY AllSteps, WhenOne
<1>6. p6 \in Seq(Steps) /\ Ordered(p6, Rank) /\ Left(p6) = l6  BY AllSteps, WhenOne
<1>7. /\ l1 \subseteq {"binary"} /\ l2 \subseteq {"template"}
      /\ l3 \subseteq {"find", "destroy", "create", "disk", "start", "configure"}
      /\ l4 \subseteq {"upgrade", "push", "restart"}
      /\ l5 \subseteq {"offloads"} /\ l6 \subseteq {"asyncPF"}
    BY DEF GatewayLeft, ControllerLeft
<1>8. Pieces(c, s) = ((((p1 \o p2) \o p3) \o p4) \o p5) \o p6  BY DEF Pieces
<1>9. PiecesLeft(c, s) = ((((l1 \cup l2) \cup l3) \cup l4) \cup l5) \cup l6  BY DEF PiecesLeft
<1> HIDE DEF m, p1, p2, p3, p4, p5, p6, l1, l2, l3, l4, l5, l6
<1>10. /\ p1 \o p2 \in Seq(Steps) /\ Ordered(p1 \o p2, Rank) /\ Left(p1 \o p2) = l1 \cup l2
    <2>1. ASSUME NEW x \in Left(p1), NEW y \in Left(p2) PROVE Rank[x] < Rank[y]
        <3>1. x = "binary" /\ y = "template"  BY <1>1, <1>2, <1>7
        <3> QED  BY <3>1, Ranks
    <2> QED  BY <1>1, <1>2, <2>1, Ranks, Join
<1> DEFINE q2 == p1 \o p2
           k2 == l1 \cup l2
<1>11. /\ q2 \o p3 \in Seq(Steps) /\ Ordered(q2 \o p3, Rank) /\ Left(q2 \o p3) = k2 \cup l3
    <2>1. \A x \in l1 \cup l2 : Rank[x] \in {1, 2}  BY <1>7, Ranks
    <2>2. \A x \in l3 : Rank[x] \in {3, 4, 5, 6, 7, 8}  BY <1>7, Ranks
    <2>3. ASSUME NEW x \in Left(q2), NEW y \in Left(p3) PROVE Rank[x] < Rank[y]
        <3>1. Rank[x] \in {1, 2}  BY <1>3, <1>10, <2>1
        <3>2. Rank[y] \in {3, 4, 5, 6, 7, 8}  BY <1>3, <1>10, <2>2
        <3> QED  BY <3>1, <3>2
    <2> QED  BY <1>3, <1>10, <2>3, Ranks, Join
<1> DEFINE q3 == q2 \o p3
           k3 == k2 \cup l3
<1>12. /\ q3 \o p4 \in Seq(Steps) /\ Ordered(q3 \o p4, Rank) /\ Left(q3 \o p4) = k3 \cup l4
    <2>1. \A x \in (l1 \cup l2) \cup l3 : Rank[x] \in 1..8  BY <1>7, Ranks
    <2>2. \A x \in l4 : Rank[x] \in {9, 10, 12}  BY <1>7, Ranks
    <2>3. ASSUME NEW x \in Left(q3), NEW y \in Left(p4) PROVE Rank[x] < Rank[y]
        <3>1. Rank[x] \in 1..8  BY <1>4, <1>11, <2>1
        <3>2. Rank[y] \in {9, 10, 12}  BY <1>4, <1>11, <2>2
        <3> QED  BY <3>1, <3>2
    <2> QED  BY <1>4, <1>11, <2>3, Ranks, Join
<1> DEFINE q4 == q3 \o p4
           k4 == k3 \cup l4
<1>13. /\ q4 \o p5 \in Seq(Steps) /\ Ordered(q4 \o p5, Rank) /\ Left(q4 \o p5) = k4 \cup l5
    <2>1. \A x \in ((l1 \cup l2) \cup l3) \cup l4 : Rank[x] \in 1..12  BY <1>7, Ranks
    <2>2. \A x \in l5 : Rank[x] = 13  BY <1>7, Ranks
    <2>3. ASSUME NEW x \in Left(q4), NEW y \in Left(p5) PROVE Rank[x] < Rank[y]
        <3>1. Rank[x] \in 1..12  BY <1>5, <1>12, <2>1
        <3>2. Rank[y] \in {13}  BY <1>5, <1>12, <2>2
        <3> QED  BY <3>1, <3>2
    <2> QED  BY <1>5, <1>12, <2>3, Ranks, Join
<1> DEFINE q5 == q4 \o p5
           k5 == k4 \cup l5
<1>14. /\ q5 \o p6 \in Seq(Steps) /\ Ordered(q5 \o p6, Rank) /\ Left(q5 \o p6) = k5 \cup l6
    <2>1. \A x \in (((l1 \cup l2) \cup l3) \cup l4) \cup l5 : Rank[x] \in 1..13  BY <1>7, Ranks
    <2>2. \A x \in l6 : Rank[x] = 14  BY <1>7, Ranks
    <2>3. ASSUME NEW x \in Left(q5), NEW y \in Left(p6) PROVE Rank[x] < Rank[y]
        <3>1. Rank[x] \in 1..13  BY <1>6, <1>13, <2>1
        <3>2. Rank[y] \in {14}  BY <1>6, <1>13, <2>2
        <3> QED  BY <3>1, <3>2
    <2> QED  BY <1>6, <1>13, <2>3, Ranks, Join
<1> QED  BY <1>8, <1>9, <1>14

\* A whole plan: well-ordered, every step with those it leads to, and the tag at its end.
LEMMA UpgradePlan ==
    ASSUME NEW c, NEW s, cmd[c].script \in BOOLEAN, cmd[c].force \in BOOLEAN
    PROVE  /\ UpgradeSteps(c, s) \in Seq(Steps) /\ WellPlanned(UpgradeSteps(c, s))
           /\ Left(UpgradeSteps(c, s)) = PiecesLeft(c, s) \cup
                    (IF PiecesLeft(c, s) = {} /\ ctl.tag = cmd[c].self THEN {} ELSE {"tag"})
<1> DEFINE p == Pieces(c, s)
           u == UpgradeSteps(c, s)
<1>1. p \in Seq(Steps) /\ Ordered(p, Rank) /\ Left(p) = PiecesLeft(c, s)  BY PiecesPlan
<1>2. u = IF p = <<>> /\ ctl.tag = cmd[c].self THEN <<>> ELSE Append(p, "tag")  BY DEF UpgradeSteps
<1> HIDE DEF p, u
<1>3. p = <<>> <=> PiecesLeft(c, s) = {}  BY <1>1, LeftEmpty
<1>4. PiecesLeft(c, s) \subseteq {"binary", "template", "find", "destroy", "create", "disk", "start", "configure",
                                  "upgrade", "push", "restart", "offloads", "asyncPF"}
    BY DEF PiecesLeft, GatewayLeft, ControllerLeft
<1>5. /\ Append(p, "tag") \in Seq(Steps) /\ Ordered(Append(p, "tag"), Rank)
      /\ Left(Append(p, "tag")) = PiecesLeft(c, s) \cup {"tag"}
    <2>1. "tag" \in Steps  BY AllSteps
    <2>2. <<"tag">> \in Seq(Steps) /\ Left(<<"tag">>) = {"tag"} /\ Ordered(<<"tag">>, Rank)  BY <2>1, LeftOne, Ranks
    <2>3. \A x \in Left(p), y \in Left(<<"tag">>) : Rank[x] < Rank[y]
        <3>1. ASSUME NEW x \in Left(p) PROVE Rank[x] < 15
            <4>1. x \in {"binary", "template", "find", "destroy", "create", "disk", "start", "configure",
                         "upgrade", "push", "restart", "offloads", "asyncPF"}
                BY <1>1, <1>4
            <4> QED  BY <4>1, Ranks
        <3>2. Rank["tag"] = 15  BY Ranks
        <3> QED  BY <2>2, <3>1, <3>2
    <2>4. Append(p, "tag") = p \o <<"tag">>  BY <1>1, <2>1
    <2>5. p \o <<"tag">> \in Seq(Steps) /\ Ordered(p \o <<"tag">>, Rank)
          /\ Left(p \o <<"tag">>) = Left(p) \cup Left(<<"tag">>)
        BY <1>1, <2>2, <2>3, Ranks, Join
    <2> QED  BY <1>1, <2>2, <2>4, <2>5
<1>6. Follows(PiecesLeft(c, s)) /\ Follows(PiecesLeft(c, s) \cup {"tag"})
    BY DEF Follows, PiecesLeft, GatewayLeft, ControllerLeft
<1>7. CASE PiecesLeft(c, s) = {} /\ ctl.tag = cmd[c].self
    BY <1>2, <1>3, <1>6, <1>7, LeftNone DEF WellPlanned, u, Follows
<1>8. CASE ~(PiecesLeft(c, s) = {} /\ ctl.tag = cmd[c].self)
    <2>1. u = Append(p, "tag") /\ ~(PiecesLeft(c, s) = {} /\ ctl.tag = cmd[c].self)  BY <1>2, <1>3, <1>8
    <2>2. Left(u) = PiecesLeft(c, s) \cup {"tag"}  BY <1>5, <2>1
    <2>3. "apply" \notin Left(u) /\ "save" \notin Left(u)  BY <1>4, <2>2
    <2>4. WellPlanned(u)  BY <1>5, <1>6, <2>1, <2>2, <2>3 DEF WellPlanned
    <2> QED  BY <1>5, <2>1, <2>2, <2>4 DEF u
<1> QED  BY <1>7, <1>8

\* After a step its plan is at its end or well-ordered still, and the step was the first.
LEMMA NextOf ==
    ASSUME NEW p \in Seq(Steps), p # <<>>, WellPlanned(p)
    PROVE  /\ Tail(p) \in Seq(Steps) /\ WellPlanned(Tail(p))
           /\ Head(p) \in Left(p)
           /\ Left(Tail(p)) = Left(p) \ {Head(p)}
           /\ \A x \in Left(p) : x = Head(p) \/ Rank[Head(p)] < Rank[x]
<1>1. /\ Tail(p) \in Seq(Steps) /\ Ordered(Tail(p), Rank) /\ Head(p) \in Left(p)
      /\ Left(Tail(p)) = Left(p) \ {Head(p)}
      /\ \A x \in Left(p) : x = Head(p) \/ Rank[Head(p)] < Rank[x]
    BY LeftTail, Ranks DEF WellPlanned
<1>2. Follows(Left(p) \ {Head(p)})
    <2> DEFINE h == Head(p)
               left == Left(p)
    <2>1. Follows(left) /\ \A x \in left : x = h \/ Rank[h] < Rank[x]  BY <1>1 DEF WellPlanned
    <2>0. left \subseteq Steps /\ h \in Steps  BY <1>1, LeftEmpty
    <2> HIDE DEF h, left
    <2>2. h = "create" => "destroy" \notin left /\ "find" \notin left  BY <2>0, <2>1, Ranks
    <2>3. h = "disk" => "create" \notin left  BY <2>0, <2>1, Ranks
    <2>4. h = "start" => "disk" \notin left  BY <2>0, <2>1, Ranks
    <2>5. h = "configure" => "start" \notin left  BY <2>0, <2>1, Ranks
    <2>6. h = "push" => "upgrade" \notin left  BY <2>0, <2>1, Ranks
    <2>7. h = "restart" => "push" \notin left  BY <2>0, <2>1, Ranks
    <2>8. Follows(left \ {h})  BY <2>1, <2>2, <2>3, <2>4, <2>5, <2>6, <2>7 DEF Follows
    <2> QED  BY <2>8 DEF h, left
<1> QED  BY <1>1, <1>2 DEF WellPlanned

\* A step is known by its rank.
LEMMA RankOnly ==
    ASSUME NEW x \in Steps
    PROVE  /\ Rank[x] \in Nat
           /\ Rank[x] = 5 => x = "create"
           /\ Rank[x] = 6 => x = "disk"
           /\ Rank[x] = 7 => x = "start"
           /\ Rank[x] = 8 => x = "configure"
<1>1. \/ x = "binary" \/ x = "template" \/ x = "find" \/ x = "destroy" \/ x = "create" \/ x = "disk"
      \/ x = "start" \/ x = "configure" \/ x = "upgrade" \/ x = "push" \/ x = "save" \/ x = "restart"
      \/ x = "apply" \/ x = "tag" \/ x = "offloads" \/ x = "asyncPF"
    BY AllSteps
<1> QED  BY <1>1, Ranks

\* What is left of a plan when createGateway finds a gateway.
LEMMA FoundRest ==
    ASSUME NEW p \in Seq(Steps), p # <<>>, WellPlanned(p), Head(p) = "find"
    PROVE  LET q == SubSeq(p, 1 + Len(CreateSteps), Len(p))
           IN  q \in Seq(Steps) /\ WellPlanned(q) /\ Left(q) = Left(p) \ {"find", "create", "disk", "start"}
<1> DEFINE p1 == Tail(p)
           p2 == Tail(p1)
           p3 == Tail(p2)
           p4 == Tail(p3)
<1>1. /\ p1 \in Seq(Steps) /\ WellPlanned(p1) /\ Left(p1) = Left(p) \ {"find"} /\ "find" \in Left(p)
      /\ \A x \in Left(p1) : Rank["find"] < Rank[x]
    BY NextOf
<1>2. {"create", "disk", "start", "configure"} \subseteq Left(p)  BY <1>1 DEF WellPlanned, Follows
<1> HIDE DEF p1
<1>3. p1 # <<>> /\ Head(p1) = "create"
    <2>1. p1 # <<>> /\ "create" \in Left(p1)  BY <1>1, <1>2, LeftEmpty
    <2>2. Head(p1) \in Left(p1) /\ (Head(p1) = "create" \/ Rank[Head(p1)] < Rank["create"])  BY <1>1, <2>1, NextOf
    <2>3. Head(p1) \in Steps /\ Rank["find"] < Rank[Head(p1)]  BY <1>1, <2>2, LeftEmpty
    <2>4. Rank["find"] = 4 /\ Rank["create"] = 5  BY Ranks
    <2> QED  BY <2>1, <2>2, <2>3, <2>4, RankOnly
<1>4. /\ p2 \in Seq(Steps) /\ WellPlanned(p2) /\ Left(p2) = Left(p1) \ {"create"}
      /\ \A x \in Left(p2) : Rank["create"] < Rank[x]
    BY <1>1, <1>3, NextOf
<1> HIDE DEF p2
<1>5. p2 # <<>> /\ Head(p2) = "disk"
    <2>1. p2 # <<>> /\ "disk" \in Left(p2)  BY <1>1, <1>2, <1>4, LeftEmpty
    <2>2. Head(p2) \in Left(p2) /\ (Head(p2) = "disk" \/ Rank[Head(p2)] < Rank["disk"])  BY <1>4, <2>1, NextOf
    <2>3. Head(p2) \in Steps /\ Rank["create"] < Rank[Head(p2)]  BY <1>4, <2>2, LeftEmpty
    <2>4. Rank["create"] = 5 /\ Rank["disk"] = 6  BY Ranks
    <2> QED  BY <2>1, <2>2, <2>3, <2>4, RankOnly
<1>6. /\ p3 \in Seq(Steps) /\ WellPlanned(p3) /\ Left(p3) = Left(p2) \ {"disk"}
      /\ \A x \in Left(p3) : Rank["disk"] < Rank[x]
    BY <1>4, <1>5, NextOf
<1> HIDE DEF p3
<1>7. p3 # <<>> /\ Head(p3) = "start"
    <2>1. p3 # <<>> /\ "start" \in Left(p3)  BY <1>1, <1>2, <1>4, <1>6, LeftEmpty
    <2>2. Head(p3) \in Left(p3) /\ (Head(p3) = "start" \/ Rank[Head(p3)] < Rank["start"])  BY <1>6, <2>1, NextOf
    <2>3. Head(p3) \in Steps /\ Rank["disk"] < Rank[Head(p3)]  BY <1>6, <2>2, LeftEmpty
    <2>4. Rank["disk"] = 6 /\ Rank["start"] = 7  BY Ranks
    <2> QED  BY <2>1, <2>2, <2>3, <2>4, RankOnly
<1>8. p4 \in Seq(Steps) /\ WellPlanned(p4) /\ Left(p4) = Left(p3) \ {"start"}
    BY <1>6, <1>7, NextOf
<1>9. SubSeq(p, 1 + Len(CreateSteps), Len(p)) = p4
    <2>1. Len(CreateSteps) = 4  BY DEF CreateSteps
    <2>2. Len(p1) = Len(p) - 1 /\ \A i \in 1..(Len(p) - 1) : p1[i] = p[i + 1]  BY DEF p1
    <2>3. Len(p2) = Len(p1) - 1 /\ \A i \in 1..(Len(p1) - 1) : p2[i] = p1[i + 1]  BY <1>1, <1>3 DEF p2
    <2>4. Len(p3) = Len(p2) - 1 /\ \A i \in 1..(Len(p2) - 1) : p3[i] = p2[i + 1]  BY <1>4, <1>5 DEF p3
    <2>5. Len(p4) = Len(p3) - 1 /\ \A i \in 1..(Len(p3) - 1) : p4[i] = p3[i + 1]  BY <1>6, <1>7
    <2>6. Len(p) \in Nat /\ Len(p) >= 4
        <3>1. Len(p3) > 0  BY <1>6, <1>7
        <3> QED  BY <2>2, <2>3, <2>4, <3>1
    <2>7. Len(p4) = Len(p) - 4  BY <2>2, <2>3, <2>4, <2>5, <2>6
    <2> HIDE DEF p4
    <2>8. ASSUME NEW i \in 1..(Len(p) - 4) PROVE p4[i] = p[i + 4]
        <3>1. p4[i] = p3[i + 1]  BY <2>2, <2>3, <2>4, <2>5, <2>6
        <3>2. p3[i + 1] = p2[(i + 1) + 1]  BY <2>2, <2>3, <2>4, <2>6
        <3>3. p2[i + 2] = p1[(i + 2) + 1]  BY <2>2, <2>3, <2>6
        <3>4. p1[i + 3] = p[(i + 3) + 1]  BY <2>2, <2>6
        <3> QED  BY <3>1, <3>2, <3>3, <3>4, <2>6
    <2>9. /\ SubSeq(p, 5, Len(p)) \in Seq(Steps) /\ Len(SubSeq(p, 5, Len(p))) = Len(p) - 4
          /\ \A i \in 1..(Len(p) - 4) : SubSeq(p, 5, Len(p))[i] = p[i + 4]
        <3> DEFINE r == SubSeq(p, 5, Len(p))
        <3>1. r = [i \in 1..(1 + Len(p) - 5) |-> p[i + 5 - 1]]  BY <2>6
        <3>2. 1 + Len(p) - 5 = Len(p) - 4 /\ Len(p) - 4 \in Nat  BY <2>6
        <3>3. r = [i \in 1..(Len(p) - 4) |-> p[i + 5 - 1]]  BY <3>1, <3>2
        <3> HIDE DEF r
        <3>4. \A i \in 1..(Len(p) - 4) : r[i] = p[i + 4]  BY <3>3, <2>6
        <3>5. \A i \in 1..(Len(p) - 4) : p[i + 4] \in Steps  BY <2>6
        <3>6. r \in [1..(Len(p) - 4) -> Steps]  BY <3>3, <3>4, <3>5
        <3>7. r \in Seq(Steps) /\ Len(r) = Len(p) - 4  BY <3>2, <3>6, PlanOf
        <3> QED  BY <3>4, <3>7 DEF r
    <2>10. SubSeq(p, 5, Len(p)) = p4  BY <1>8, <2>6, <2>7, <2>8, <2>9
    <2> QED  BY <2>1, <2>10
<1>10. Left(p4) = Left(p) \ {"find", "create", "disk", "start"}  BY <1>1, <1>4, <1>6, <1>8
<1> QED  BY <1>8, <1>9, <1>10

-----------------------------------------------------------------------------
(* Any number of commands *)

\* The types of everything but the commands and the lock.
WorldOK ==
    /\ published \in Releases
    /\ host \in [bin : Releases, settings : Settings, tuned : SUBSET Tunings]
    /\ images \in [have : SUBSET Releases, newest : Releases]
    /\ gw \in [at : {"none", "created", "disk", "booted", "up"}, release : Releases]
    /\ ctl \in [up : BOOLEAN, bin : Releases, config : Config, tag : Releases,
                service : [bin : Releases, config : Config]]
    /\ faults \in 0..MaxFaults
    /\ outages \in 0..MaxOutages

\* The lock and the commands that hold it.
LockOK ==
    /\ lock \in Cmds \cup {None}
    /\ cmd \in [Cmds -> Command]
    /\ \A c \in Cmds : lock = c <=> cmd[c].pc \in {"replace", "run"}

\* The two parts of the type invariant.
LEMMA TypeParts == TypeOK <=> WorldOK /\ LockOK
BY DEF TypeOK, WorldOK, LockOK

\* Command c goes on as m, which takes the lock only when nobody else has it and gives it back when it ends: the types
\* are kept, and the other commands are as they were.
LEMMA LockStep ==
    ASSUME LockOK, NEW c \in Cmds, NEW m \in Command, cmd' = [cmd EXCEPT ![c] = m],
           m.pc \in {"replace", "run"} => lock \in {c, None},
           lock' = IF m.pc \in {"replace", "run"} THEN c ELSE IF lock = c THEN None ELSE lock
    PROVE  /\ LockOK' /\ cmd'[c] = m
           /\ \A d \in Cmds \ {c} : cmd'[d] = cmd[d] /\ (cmd[d].pc = "run" => lock # c)
<1>1. cmd \in [Cmds -> Command] /\ lock \in Cmds \cup {None} /\ None \notin Cmds  BY UpdateAssumption DEF LockOK
<1>2. cmd' \in [Cmds -> Command] /\ cmd'[c] = m /\ \A d \in Cmds \ {c} : cmd'[d] = cmd[d]  BY <1>1
<1>3. lock' \in Cmds \cup {None}  BY <1>1
<1>4. lock' = c <=> cmd'[c].pc \in {"replace", "run"}  BY <1>1, <1>2
<1>5. ASSUME NEW d \in Cmds \ {c}
      PROVE  (lock' = d <=> cmd'[d].pc \in {"replace", "run"}) /\ (cmd[d].pc = "run" => lock # c)
    <2>1. cmd'[d] = cmd[d]  BY <1>2
    <2>2. lock = d <=> cmd[d].pc \in {"replace", "run"}  BY DEF LockOK
    <2>3. lock' = d <=> lock = d  BY <1>1
    <2> QED  BY <2>1, <2>2, <2>3
<1> QED  BY <1>2, <1>3, <1>4, <1>5 DEF LockOK

\* A command that isn't c sees no change, if c left the node alone or has the lock.
LEMMA OtherCommands ==
    ASSUME NEW d \in Cmds, PlanShape(d), RunShape(d), cmd'[d] = cmd[d],
           cmd[d].pc = "run" => UNCHANGED nodeVars
    PROVE  PlanShape(d)' /\ RunShape(d)'
<1>1. PlanShape(d)'  BY DEF PlanShape, Planned, ToDo
<1>2. CASE cmd[d].pc = "run"
    <2>1. UNCHANGED nodeVars  BY <1>2
    <2> QED  BY <1>1, <1>2, <2>1 DEF RunShape, Repairs, Configures, ServiceCurrent, ToDo, nodeVars
<1>3. CASE cmd[d].pc # "run"  BY <1>1, <1>3 DEF RunShape
<1> QED  BY <1>2, <1>3

\* What a step of command c has to show for the invariant.
LEMMA CommandMoves ==
    ASSUME UpdateInv, NEW c \in Cmds, NEW m \in Command, cmd' = [cmd EXCEPT ![c] = m], WorldOK',
           m.pc \in {"replace", "run"} => lock \in {c, None},
           lock' = IF m.pc \in {"replace", "run"} THEN c ELSE IF lock = c THEN None ELSE lock,
           lock = c \/ UNCHANGED nodeVars,
           PlanShape(c)' /\ RunShape(c)'
    PROVE  UpdateInv'
<1>1. LockOK  BY TypeParts DEF UpdateInv
<1>2. LockOK' /\ \A d \in Cmds \ {c} : cmd'[d] = cmd[d] /\ (cmd[d].pc = "run" => lock # c)  BY <1>1, LockStep
<1>3. TypeOK'  BY <1>2, TypeParts, PTL
<1>4. ASSUME NEW d \in Cmds PROVE PlanShape(d)' /\ RunShape(d)'
    <2>1. CASE d = c  BY <2>1
    <2>2. CASE d # c
        <3>1. PlanShape(d) /\ RunShape(d)  BY DEF UpdateInv
        <3>2. cmd'[d] = cmd[d] /\ (cmd[d].pc = "run" => UNCHANGED nodeVars)  BY <1>2, <2>2
        <3> QED  BY <3>1, <3>2, OtherCommands
    <2> QED  BY <2>1, <2>2
<1> QED  BY <1>3, <1>4 DEF UpdateInv

\* The fields of a command.
LEMMA CommandFields ==
    ASSUME UpdateInv, NEW c \in Cmds
    PROVE  /\ cmd[c] \in Command /\ WorldOK /\ LockOK /\ PlanShape(c) /\ RunShape(c)
           /\ cmd[c].self \in Releases /\ cmd[c].to \in Releases /\ cmd[c].installed \in Releases
           /\ cmd[c].script \in BOOLEAN /\ cmd[c].force \in BOOLEAN
           /\ cmd[c].s \in Settings /\ cmd[c].plan \in Seq(Steps) /\ cmd[c].keys \in SUBSET Keys
           /\ cmd[c].kind \in {"update", "set", "apply"}
           /\ lock = c <=> cmd[c].pc \in {"replace", "run"}
<1>1. WorldOK /\ LockOK /\ PlanShape(c) /\ RunShape(c)  BY TypeParts DEF UpdateInv
<1>2. cmd[c] \in Command  BY <1>1 DEF LockOK
<1>3. lock = c <=> cmd[c].pc \in {"replace", "run"}  BY <1>1 DEF LockOK
<1> QED  BY <1>1, <1>2, <1>3 DEF Command

\* The shapes of a command that has no plan yet, or none any more.
LEMMA NoPlan ==
    ASSUME NEW c \in Cmds, cmd[c].pc \notin {"lock", "run"},
           cmd[c].pc \in {"self", "replace", "exec", "plan"} => cmd[c].kind = "update"
    PROVE  PlanShape(c) /\ RunShape(c)
BY DEF PlanShape, RunShape, Planned

\* Starting a command.
LEMMA StartKeeps ==
    ASSUME UpdateInv, NEW c \in Cmds, NEW pc \in {"self", "plan", "lock", "done"}, NEW kind \in {"update", "set", "apply"},
           NEW self \in Releases, NEW script \in BOOLEAN, NEW force \in BOOLEAN, NEW st \in Settings,
           NEW keys \in SUBSET Keys, NEW plan \in Seq(Steps),
           Start(c, pc, kind, self, script, force, st, keys, plan),
           pc \in {"self", "plan"} => kind = "update",
           pc = "lock" => kind # "update" /\ plan = <<"apply">>
    PROVE  UpdateInv' /\ cmd'[c].pc = pc /\ cmd'[c].kind = kind /\ \A d \in Cmds \ {c} : cmd'[d] = cmd[d]
<1> DEFINE m == [pc |-> pc, kind |-> kind, self |-> self, to |-> published, installed |-> ctl.tag, script |-> script,
                 force |-> force, s |-> st, keys |-> keys, plan |-> plan]
<1>1. WorldOK /\ LockOK /\ cmd[c].pc \in {"idle", "done", "failed"}  BY CommandFields DEF Start, Ended
<1>2. published \in Releases /\ ctl.tag \in Releases  BY <1>1 DEF WorldOK
<1>3. m \in Command  BY <1>2 DEF Command
<1>4. cmd' = [cmd EXCEPT ![c] = m] /\ UNCHANGED <<published, nodeVars, lock, faults, outages>>  BY DEF Start
<1>5. m.pc = pc /\ m.kind = kind /\ m.plan = plan  OBVIOUS
<1> HIDE DEF m
<1>6. lock # c  BY <1>1, CommandFields
<1>7. lock' = IF m.pc \in {"replace", "run"} THEN c ELSE IF lock = c THEN None ELSE lock  BY <1>4, <1>5, <1>6
<1>8. WorldOK'  BY <1>1, <1>4 DEF WorldOK, nodeVars
<1>9. cmd'[c] = m /\ \A d \in Cmds \ {c} : cmd'[d] = cmd[d]  BY <1>1, <1>4 DEF LockOK
<1>10. PlanShape(c)' /\ RunShape(c)'
    <2>1. CASE pc = "lock"
        <3>1. <<"apply">> # <<>> /\ <<"apply">> \in ConfigPlans  BY DEF ConfigPlans
        <3>2. cmd'[c].pc = "lock" /\ cmd'[c].kind # "update" /\ cmd'[c].plan = <<"apply">>  BY <1>5, <1>9, <2>1
        <3> QED  BY <3>1, <3>2 DEF PlanShape, RunShape, Planned
    <2>2. CASE pc # "lock"
        <3>1. /\ cmd'[c].pc \notin {"lock", "run"}
              /\ cmd'[c].pc \in {"self", "replace", "exec", "plan"} => cmd'[c].kind = "update"
            BY <1>5, <1>9, <2>2
        <3> QED  BY <3>1 DEF PlanShape, RunShape, Planned
    <2> QED  BY <2>1, <2>2
<1>11. UpdateInv'  BY <1>3, <1>4, <1>5, <1>7, <1>8, <1>10, CommandMoves
<1> QED  BY <1>5, <1>9, <1>11

\* A command ends early.
LEMMA StopKeeps ==
    ASSUME UpdateInv, NEW c \in Cmds, Stop(c), faults' \in 0..MaxFaults
    PROVE  UpdateInv' /\ cmd'[c].pc = "failed" /\ \A d \in Cmds \ {c} : cmd'[d] = cmd[d]
<1> DEFINE m == [cmd[c] EXCEPT !.pc = "failed", !.plan = <<>>]
<1>1. cmd[c] \in Command /\ WorldOK /\ LockOK  BY CommandFields
<1>0. <<>> \in Seq(Steps)  OBVIOUS
<1>2. m \in Command /\ m.pc = "failed"  BY <1>0, <1>1 DEF Command
<1>3. cmd' = [cmd EXCEPT ![c] = m]
    <2>1. cmd \in [Cmds -> Command]  BY <1>1 DEF LockOK
    <2>2. cmd' = [cmd EXCEPT ![c].pc = "failed", ![c].plan = <<>>]  BY DEF Stop
    <2>3. cmd'[c] = m  BY <2>1, <2>2
    <2>4. DOMAIN cmd' = Cmds /\ cmd' = [d \in Cmds |-> cmd'[d]] /\ \A d \in Cmds \ {c} : cmd'[d] = cmd[d]  BY <2>1, <2>2
    <2> HIDE DEF m
    <2> QED  BY <2>1, <2>3, <2>4
<1> HIDE DEF m
<1>4. lock' = IF m.pc \in {"replace", "run"} THEN c ELSE IF lock = c THEN None ELSE lock  BY <1>2 DEF Stop
<1>5. UNCHANGED nodeVars /\ WorldOK'  BY <1>1 DEF Stop, WorldOK, nodeVars
<1>6. cmd'[c] = m /\ \A d \in Cmds \ {c} : cmd'[d] = cmd[d]  BY <1>1, <1>3 DEF LockOK
<1>7. PlanShape(c)' /\ RunShape(c)'  BY <1>2, <1>6 DEF PlanShape, RunShape, Planned
<1>8. UpdateInv'  BY <1>2, <1>3, <1>4, <1>5, <1>7, CommandMoves
<1> QED  BY <1>2, <1>6, <1>8

\* What a step of command c does besides keeping the invariant: it leaves the other commands alone, and an update
\* --force that ends with it has repaired what only runs.
Leaves(c) ==
    /\ \A d \in Cmds \ {c} : cmd'[d] = cmd[d]
    /\ cmd'[c].pc = "done" /\ cmd'[c].kind = "update" /\ cmd'[c].force => (gw.at = "up" /\ ServiceCurrent)'

\* The four ways to start a command.
LEMMA StartsKeep ==
    ASSUME UpdateInv, NEW c \in Cmds,
           \/ \E force \in BOOLEAN : Update(c, force)
           \/ \E v \in Releases : Install(c, v)
           \/ \E k \in Keys, x \in Values : SetConfig(c, k, x)
           \/ ApplyConfig(c)
    PROVE  UpdateInv' /\ Leaves(c)
<1>1. WorldOK  BY CommandFields
<1>2. host.bin \in Releases /\ host.settings \in Settings /\ published \in Releases  BY <1>1 DEF WorldOK
<1>3. <<>> \in Seq(Steps) /\ <<"apply">> \in Seq(Steps) /\ {} \in SUBSET Keys  BY AllSteps
<1>4. ASSUME NEW force \in BOOLEAN, Update(c, force) PROVE UpdateInv' /\ Leaves(c)
    <2>1. \/ Start(c, "self", "update", host.bin, FALSE, force, host.settings, {}, <<>>)
          \/ Start(c, "plan", "update", host.bin, FALSE, force, host.settings, {}, <<>>)
        BY <1>4 DEF Update
    <2>2. CASE Start(c, "self", "update", host.bin, FALSE, force, host.settings, {}, <<>>)
        <3>1. /\ "self" \in {"self", "plan", "lock", "done"} /\ "update" \in {"update", "set", "apply"} /\ FALSE \in BOOLEAN
              /\ "self" # "lock"
            OBVIOUS
        <3>2. UpdateInv' /\ cmd'[c].pc = "self" /\ \A d \in Cmds \ {c} : cmd'[d] = cmd[d]
            BY <1>2, <1>3, <2>2, <3>1, StartKeeps, ZenonT(30)
        <3> QED  BY <3>2 DEF Leaves
    <2>3. CASE Start(c, "plan", "update", host.bin, FALSE, force, host.settings, {}, <<>>)
        <3>1. /\ "plan" \in {"self", "plan", "lock", "done"} /\ "update" \in {"update", "set", "apply"} /\ FALSE \in BOOLEAN
              /\ "plan" # "lock"
            OBVIOUS
        <3>2. UpdateInv' /\ cmd'[c].pc = "plan" /\ \A d \in Cmds \ {c} : cmd'[d] = cmd[d]
            BY <1>2, <1>3, <2>3, <3>1, StartKeeps, ZenonT(30)
        <3> QED  BY <3>2 DEF Leaves
    <2> QED  BY <2>1, <2>2, <2>3
<1>5. ASSUME NEW v \in Releases, Install(c, v) PROVE UpdateInv' /\ Leaves(c)
    <2>1. Start(c, "plan", "update", v, TRUE, FALSE, host.settings, {}, <<>>)  BY <1>5 DEF Install
    <2> QED  BY <1>2, <1>3, <2>1, StartKeeps DEF Leaves
<1>6. ASSUME NEW k \in Keys, NEW x \in Values, SetConfig(c, k, x) PROVE UpdateInv' /\ Leaves(c)
    <2> DEFINE st == [host.settings EXCEPT ![k] = x]
    <2>1. st \in Settings  BY <1>2 DEF Settings
    <2>2. {k} \in SUBSET Keys  OBVIOUS
    <2>3. \/ Start(c, "done", "set", host.bin, FALSE, FALSE, st, {k}, <<>>)
          \/ Start(c, "lock", "set", host.bin, FALSE, FALSE, st, {k}, <<"apply">>)
        BY <1>6 DEF SetConfig
    <2> HIDE DEF st
    <2>4. CASE Start(c, "done", "set", host.bin, FALSE, FALSE, st, {k}, <<>>)
        BY <1>2, <1>3, <2>1, <2>2, <2>4, StartKeeps DEF Leaves
    <2>5. CASE Start(c, "lock", "set", host.bin, FALSE, FALSE, st, {k}, <<"apply">>)
        BY <1>2, <1>3, <2>1, <2>2, <2>5, StartKeeps DEF Leaves
    <2> QED  BY <2>3, <2>4, <2>5
<1>7. ASSUME ApplyConfig(c) PROVE UpdateInv' /\ Leaves(c)
    <2>1. Start(c, "lock", "apply", host.bin, FALSE, FALSE, host.settings, {}, <<"apply">>)  BY <1>7 DEF ApplyConfig
    <2> QED  BY <1>2, <1>3, <2>1, StartKeeps DEF Leaves
<1> QED  BY <1>4, <1>5, <1>6, <1>7

\* Planning an upgrade.
LEMMA PlanKeeps ==
    ASSUME UpdateInv, NEW c \in Cmds, Plan(c)
    PROVE  UpdateInv' /\ Leaves(c)
<1> DEFINE u == UpgradeSteps(c, host.settings)
           pc == IF Refuses(c) THEN "failed" ELSE IF u = <<>> THEN "done" ELSE "lock"
           plan == IF Refuses(c) THEN <<>> ELSE u
           m == [cmd[c] EXCEPT !.pc = pc, !.s = host.settings, !.plan = plan]
<1>1. /\ cmd[c] \in Command /\ WorldOK /\ LockOK /\ cmd[c].pc = "plan" /\ cmd[c].kind = "update"
      /\ cmd[c].script \in BOOLEAN /\ cmd[c].force \in BOOLEAN /\ lock # c
    BY CommandFields DEF Plan, PlanShape
<1>2. host.settings \in Settings /\ cmd \in [Cmds -> Command]  BY <1>1 DEF WorldOK, LockOK
<1>3. u \in Seq(Steps) /\ WellPlanned(u)  BY <1>1, UpgradePlan
<1>4. cmd[c].force => {"configure", "restart"} \subseteq Left(u) /\ u # <<>>
    <2>1. PiecesLeft(c, host.settings) \subseteq Left(u)  BY <1>1, UpgradePlan
    <2> HIDE DEF u
    <2>2. cmd[c].force => {"configure", "restart"} \subseteq PiecesLeft(c, host.settings)
        BY DEF PiecesLeft, GatewayLeft, ControllerLeft
    <2>3. cmd[c].force => {"configure", "restart"} \subseteq Left(u)  BY <2>1, <2>2
    <2> QED  BY <1>3, <2>3, LeftEmpty
<1>5. cmd' = [cmd EXCEPT ![c].pc = pc, ![c].s = host.settings, ![c].plan = plan]  BY DEF Plan
<1>6. UNCHANGED <<published, nodeVars, lock, faults, outages>>  BY DEF Plan
<1> HIDE DEF u
<1>7. plan \in Seq(Steps) /\ pc \in {"failed", "done", "lock"} /\ (pc = "lock" => plan = u /\ u # <<>>)
      /\ (cmd[c].force => pc # "done")
    BY <1>3, <1>4
<1> HIDE DEF pc, plan
<1>8. /\ m \in Command /\ m.pc = pc /\ m.plan = plan /\ m.kind = "update" /\ m.force = cmd[c].force
    BY <1>1, <1>2, <1>7 DEF Command
<1>9. cmd'[c] = m  BY <1>1, <1>2, <1>5
<1>10. DOMAIN cmd' = Cmds /\ cmd' = [d \in Cmds |-> cmd'[d]] /\ \A d \in Cmds \ {c} : cmd'[d] = cmd[d]
    BY <1>2, <1>5
<1> HIDE DEF m
<1>11. cmd' = [cmd EXCEPT ![c] = m]  BY <1>2, <1>9, <1>10
<1>12. WorldOK'  BY <1>1, <1>6 DEF WorldOK, nodeVars
<1>13. PlanShape(c)' /\ RunShape(c)'
    <2>1. CASE pc = "lock"
        <3>1. /\ cmd'[c].pc = "lock" /\ cmd'[c].kind = "update" /\ cmd'[c].plan = u /\ u # <<>>
              /\ cmd'[c].force = cmd[c].force
            BY <1>7, <1>8, <1>9, <2>1
        <3> QED  BY <1>3, <1>4, <3>1 DEF PlanShape, RunShape, Planned, ToDo
    <2>2. CASE pc # "lock"  BY <1>7, <1>8, <1>9, <2>2 DEF PlanShape, RunShape, Planned
    <2> QED  BY <2>1, <2>2
<1>14. lock' = IF m.pc \in {"replace", "run"} THEN c ELSE IF lock = c THEN None ELSE lock  BY <1>1, <1>6, <1>7, <1>8
<1>15. ~(m.pc \in {"replace", "run"}) /\ UNCHANGED nodeVars  BY <1>6, <1>7, <1>8
<1>16. UpdateInv'  BY <1>8, <1>11, <1>12, <1>13, <1>14, <1>15, CommandMoves
<1> QED  BY <1>7, <1>8, <1>9, <1>10, <1>16 DEF Leaves

\* Taking the lock, or ending because another command has it.
LEMMA LockKeeps ==
    ASSUME UpdateInv, NEW c \in Cmds, Lock(c)
    PROVE  UpdateInv' /\ Leaves(c)
<1>1. /\ cmd[c] \in Command /\ WorldOK /\ LockOK /\ cmd[c].pc \in {"self", "lock"} /\ lock # c
      /\ PlanShape(c) /\ cmd[c].plan \in Seq(Steps)
    BY CommandFields DEF Lock
<1>2. cmd \in [Cmds -> Command]  BY <1>1 DEF LockOK
<1>3. CASE lock # None
    <2>1. Stop(c) /\ faults' = faults  BY <1>1, <1>3 DEF Lock, Stop
    <2>2. faults' \in 0..MaxFaults  BY <1>1, <2>1 DEF WorldOK
    <2> QED  BY <2>1, <2>2, StopKeeps DEF Leaves
<1>4. CASE lock = None
    <2> DEFINE pc == IF cmd[c].pc = "self" THEN "replace" ELSE "run"
               m == [cmd[c] EXCEPT !.pc = pc]
    <2>1. /\ cmd' = [cmd EXCEPT ![c] = m] /\ lock' = c /\ UNCHANGED <<published, nodeVars, faults, outages>>
        BY <1>2, <1>4 DEF Lock
    <2>2. /\ pc \in {"replace", "run"} /\ (pc = "replace" => cmd[c].pc = "self") /\ (pc = "run" => cmd[c].pc = "lock")
        BY <1>1
    <2> HIDE DEF pc
    <2>3. /\ m \in Command /\ m.pc = pc /\ m.plan = cmd[c].plan /\ m.kind = cmd[c].kind /\ m.force = cmd[c].force
          /\ m.s = cmd[c].s /\ m.self = cmd[c].self
        BY <1>1, <2>2 DEF Command
    <2> HIDE DEF m
    <2>4. cmd'[c] = m /\ \A d \in Cmds \ {c} : cmd'[d] = cmd[d]  BY <1>2, <2>1
    <2>5. WorldOK' /\ UNCHANGED nodeVars  BY <1>1, <2>1 DEF WorldOK, nodeVars
    <2>6. CASE pc = "replace"
        <3>1. cmd'[c].pc = "replace" /\ cmd'[c].kind = "update"  BY <1>1, <2>2, <2>3, <2>4, <2>6 DEF PlanShape
        <3>2. PlanShape(c)' /\ RunShape(c)'  BY <3>1 DEF PlanShape, RunShape, Planned
        <3>3. UpdateInv'  BY <1>4, <2>1, <2>2, <2>3, <2>5, <3>2, CommandMoves
        <3> QED  BY <2>4, <3>1, <3>3 DEF Leaves
    <2>7. CASE pc = "run"
        <3>1. /\ cmd'[c].pc = "run" /\ cmd[c].pc = "lock" /\ cmd'[c].kind = cmd[c].kind /\ cmd'[c].plan = cmd[c].plan
              /\ cmd'[c].force = cmd[c].force
            BY <2>2, <2>3, <2>4, <2>7
        <3>2. PlanShape(c)'  BY <1>1, <3>1 DEF PlanShape, Planned, ToDo
        <3>3. RunShape(c)'
            <4>1. CASE cmd[c].kind = "update"
                BY <1>1, <3>1, <4>1 DEF PlanShape, RunShape, Repairs, ToDo
            <4>2. CASE cmd[c].kind # "update"
                <5>1. cmd'[c].plan = <<"apply">>  BY <1>1, <3>1, <4>2 DEF PlanShape, Planned
                <5>2. <<"apply">> # <<"restart">> /\ <<"apply">> # <<"save", "restart">>  OBVIOUS
                <5> QED  BY <3>1, <4>2, <5>1, <5>2 DEF RunShape, Configures
            <4> QED  BY <4>1, <4>2
        <3>4. UpdateInv'  BY <1>4, <2>1, <2>2, <2>3, <2>5, <3>2, <3>3, CommandMoves
        <3> QED  BY <2>4, <3>1, <3>4 DEF Leaves
    <2> QED  BY <2>2, <2>6, <2>7
<1> QED  BY <1>3, <1>4

\* Replacing the host's parcon.
LEMMA ReplaceSelfKeeps ==
    ASSUME UpdateInv, NEW c \in Cmds, ReplaceSelf(c)
    PROVE  UpdateInv' /\ Leaves(c)
<1> DEFINE m == [cmd[c] EXCEPT !.pc = "exec"]
<1>1. /\ cmd[c] \in Command /\ WorldOK /\ LockOK /\ cmd[c].pc = "replace" /\ lock = c /\ cmd[c].kind = "update"
      /\ cmd[c].to \in Releases
    BY CommandFields DEF ReplaceSelf, PlanShape
<1>2. cmd \in [Cmds -> Command]  BY <1>1 DEF LockOK
<1>3. cmd' = [cmd EXCEPT ![c] = m] /\ lock' = None  BY <1>2 DEF ReplaceSelf
<1>4. m \in Command /\ m.pc = "exec" /\ m.kind = "update"  BY <1>1 DEF Command
<1> HIDE DEF m
<1>5. cmd'[c] = m /\ \A d \in Cmds \ {c} : cmd'[d] = cmd[d]  BY <1>2, <1>3
<1>6. WorldOK'  BY <1>1 DEF ReplaceSelf, WorldOK
<1>7. PlanShape(c)' /\ RunShape(c)'  BY <1>4, <1>5 DEF PlanShape, RunShape, Planned
<1>8. lock' = IF m.pc \in {"replace", "run"} THEN c ELSE IF lock = c THEN None ELSE lock  BY <1>1, <1>3, <1>4
<1>9. UpdateInv'  BY <1>1, <1>3, <1>4, <1>6, <1>7, <1>8, CommandMoves
<1> QED  BY <1>4, <1>5, <1>9 DEF Leaves

\* Running the parcon that is on the host.
LEMMA ExecKeeps ==
    ASSUME UpdateInv, NEW c \in Cmds, Exec(c)
    PROVE  UpdateInv' /\ Leaves(c)
<1> DEFINE m == [cmd[c] EXCEPT !.pc = "plan", !.self = host.bin, !.installed = ctl.tag]
<1>1. cmd[c] \in Command /\ WorldOK /\ LockOK /\ cmd[c].pc = "exec" /\ lock # c /\ cmd[c].kind = "update"
    BY CommandFields DEF Exec, PlanShape
<1>2. cmd \in [Cmds -> Command] /\ host.bin \in Releases /\ ctl.tag \in Releases  BY <1>1 DEF LockOK, WorldOK
<1>3. cmd' = [cmd EXCEPT ![c].pc = "plan", ![c].self = host.bin, ![c].installed = ctl.tag]
      /\ UNCHANGED <<published, nodeVars, lock, faults, outages>>
    BY DEF Exec
<1>4. m \in Command /\ m.pc = "plan" /\ m.kind = "update"  BY <1>1, <1>2 DEF Command
<1>5. cmd'[c] = m  BY <1>2, <1>3
<1>6. DOMAIN cmd' = Cmds /\ cmd' = [d \in Cmds |-> cmd'[d]] /\ \A d \in Cmds \ {c} : cmd'[d] = cmd[d]
    BY <1>2, <1>3
<1> HIDE DEF m
<1>7. cmd' = [cmd EXCEPT ![c] = m]  BY <1>2, <1>5, <1>6
<1>8. WorldOK' /\ UNCHANGED nodeVars  BY <1>1, <1>3 DEF WorldOK, nodeVars
<1>9. PlanShape(c)' /\ RunShape(c)'  BY <1>4, <1>5 DEF PlanShape, RunShape, Planned
<1>10. lock' = IF m.pc \in {"replace", "run"} THEN c ELSE IF lock = c THEN None ELSE lock  BY <1>1, <1>3, <1>4
<1>11. UpdateInv'  BY <1>4, <1>7, <1>8, <1>9, <1>10, CommandMoves
<1> QED  BY <1>4, <1>5, <1>6, <1>11 DEF Leaves

\* A refused or failed step.
LEMMA StopsKeep ==
    ASSUME UpdateInv, NEW c \in Cmds, Refused(c) \/ Fail(c)
    PROVE  UpdateInv' /\ Leaves(c)
<1>1. faults \in 0..MaxFaults /\ MaxFaults \in Nat  BY CommandFields, UpdateAssumption DEF WorldOK
<1>2. Stop(c) /\ faults' \in 0..MaxFaults  BY <1>1 DEF Refused, Fail
<1> QED  BY <1>2, StopKeeps DEF Leaves

-----------------------------------------------------------------------------
(* The steps of a plan *)

\* What doing a step changes of the command that does it.
LEMMA DoFacts ==
    ASSUME UpdateInv, NEW c \in Cmds, NEW step, NEW rest \in Seq(Steps), Do(c, step, rest)
    PROVE  /\ cmd[c].pc = "run" /\ lock = c /\ cmd[c].plan # <<>> /\ Head(cmd[c].plan) = step
           /\ cmd[c].plan \in Seq(Steps) /\ cmd[c].self \in Releases /\ cmd[c].s \in Settings
           /\ cmd[c].force \in BOOLEAN /\ WorldOK /\ PlanShape(c) /\ RunShape(c) /\ LockOK'
           /\ cmd'[c] \in Command /\ cmd' = [cmd EXCEPT ![c] = cmd'[c]]
           /\ \A d \in Cmds \ {c} : cmd'[d] = cmd[d]
           /\ cmd'[c].plan = rest /\ cmd'[c].pc = IF rest = <<>> THEN "done" ELSE "run"
           /\ cmd'[c].kind = cmd[c].kind /\ cmd'[c].self = cmd[c].self /\ cmd'[c].force = cmd[c].force
           /\ cmd'[c].s = cmd[c].s /\ cmd'[c].script = cmd[c].script /\ cmd'[c].to = cmd[c].to
           /\ lock' = IF cmd'[c].pc \in {"replace", "run"} THEN c ELSE IF lock = c THEN None ELSE lock
           /\ UNCHANGED <<published, faults, outages>>
<1> DEFINE pc == IF rest = <<>> THEN "done" ELSE "run"
           m == [cmd[c] EXCEPT !.plan = rest, !.pc = pc]
<1>1. /\ cmd[c].pc = "run" /\ lock = c /\ Head(cmd[c].plan) = step /\ cmd[c] \in Command /\ cmd[c].plan \in Seq(Steps)
      /\ cmd[c].self \in Releases /\ cmd[c].s \in Settings /\ WorldOK /\ LockOK /\ PlanShape(c) /\ RunShape(c)
      /\ cmd[c].force \in BOOLEAN
    BY CommandFields DEF Do
<1>2. cmd[c].plan # <<>>  BY <1>1 DEF PlanShape, Planned
<1>3. cmd \in [Cmds -> Command]  BY <1>1 DEF LockOK
<1>4. cmd' = [cmd EXCEPT ![c].plan = rest, ![c].pc = IF rest = <<>> THEN "done" ELSE @]  BY DEF Do
<1>5. pc \in {"done", "run"} /\ (pc = "done" <=> rest = <<>>)  OBVIOUS
<1>6. cmd'[c] = m  BY <1>1, <1>3, <1>4
<1>7. DOMAIN cmd' = Cmds /\ cmd' = [d \in Cmds |-> cmd'[d]] /\ \A d \in Cmds \ {c} : cmd'[d] = cmd[d]
    BY <1>3, <1>4
<1>8. lock' = (IF rest = <<>> THEN None ELSE lock) /\ UNCHANGED <<published, faults, outages>>  BY DEF Do
<1> HIDE DEF pc
<1>9. /\ m \in Command /\ m.plan = rest /\ m.pc = pc /\ m.kind = cmd[c].kind /\ m.self = cmd[c].self
      /\ m.force = cmd[c].force /\ m.s = cmd[c].s /\ m.script = cmd[c].script /\ m.to = cmd[c].to
    BY <1>1, <1>5 DEF Command
<1> HIDE DEF m
<1>10. cmd' = [cmd EXCEPT ![c] = m]  BY <1>3, <1>6, <1>7
<1>11. lock' = IF m.pc \in {"replace", "run"} THEN c ELSE IF lock = c THEN None ELSE lock
    BY <1>1, <1>5, <1>8, <1>9
<1>12. LockOK'  BY <1>1, <1>9, <1>10, <1>11, LockStep
<1> QED  BY <1>1, <1>2, <1>6, <1>7, <1>8, <1>9, <1>10, <1>11, <1>12 DEF pc

\* What a step of a plan has to show.
LEMMA DoKeeps ==
    ASSUME UpdateInv, NEW c \in Cmds, NEW step, NEW rest \in Seq(Steps), Do(c, step, rest), WorldOK',
           cmd[c].kind = "update" => WellPlanned(rest) /\ (cmd[c].force => Repairs(c)'),
           cmd[c].kind # "update" => rest = <<>> \/ (rest \in ConfigPlans /\ rest # <<"apply">> /\ Configures(c)')
    PROVE  UpdateInv' /\ Leaves(c)
<1>1. /\ cmd[c].pc = "run" /\ lock = c /\ cmd'[c] \in Command /\ cmd' = [cmd EXCEPT ![c] = cmd'[c]]
      /\ \A d \in Cmds \ {c} : cmd'[d] = cmd[d]
      /\ cmd'[c].plan = rest /\ cmd'[c].pc = IF rest = <<>> THEN "done" ELSE "run"
      /\ cmd'[c].kind = cmd[c].kind /\ cmd'[c].force = cmd[c].force
      /\ lock' = IF cmd'[c].pc \in {"replace", "run"} THEN c ELSE IF lock = c THEN None ELSE lock
    BY DoFacts
<1>2. PlanShape(c)' /\ RunShape(c)'
    <2>1. CASE rest = <<>>  BY <1>1, <2>1 DEF PlanShape, RunShape, Planned
    <2>2. CASE rest # <<>> /\ cmd[c].kind = "update"
        <3>1. cmd'[c].pc = "run" /\ cmd'[c].plan = rest  BY <1>1, <2>2
        <3> QED  BY <1>1, <2>2, <3>1 DEF PlanShape, RunShape, Planned
    <2>3. CASE rest # <<>> /\ cmd[c].kind # "update"
        <3>1. cmd'[c].pc = "run" /\ cmd'[c].plan = rest  BY <1>1, <2>3
        <3> QED  BY <1>1, <2>3, <3>1 DEF PlanShape, RunShape, Planned
    <2> QED  BY <2>1, <2>2, <2>3
<1>3. UpdateInv'  BY <1>1, <1>2, CommandMoves
<1>4. ASSUME cmd'[c].pc = "done", cmd'[c].kind = "update", cmd'[c].force PROVE (gw.at = "up" /\ ServiceCurrent)'
    <2>1. rest = <<>>  BY <1>1, <1>4
    <2>2. ToDo(c)' = {}  BY <1>1, <2>1, LeftNone DEF ToDo
    <2>3. Repairs(c)'  BY <1>1, <1>4
    <2> QED  BY <2>2, <2>3 DEF Repairs
<1> QED  BY <1>1, <1>3, <1>4 DEF Leaves

\* An update does the next step of its plan.
LEMMA UpdateDoes ==
    ASSUME UpdateInv, NEW c \in Cmds, NEW step, DoNext(c, step), cmd[c].kind = "update"
    PROVE  /\ Tail(cmd[c].plan) \in Seq(Steps) /\ WellPlanned(Tail(cmd[c].plan))
           /\ step \in ToDo(c) /\ ToDo(c)' = ToDo(c) \ {step} /\ Follows(ToDo(c))
           /\ "save" \notin ToDo(c) /\ "apply" \notin ToDo(c)
           /\ \A x \in ToDo(c) : x = step \/ Rank[step] < Rank[x]
<1> DEFINE p == cmd[c].plan
<1>1. p \in Seq(Steps) /\ PlanShape(c) /\ cmd[c].pc = "run" /\ Head(p) = step  BY CommandFields DEF DoNext, Do
<1>2. p # <<>> /\ WellPlanned(p)  BY <1>1 DEF PlanShape, Planned
<1>3. /\ Tail(p) \in Seq(Steps) /\ WellPlanned(Tail(p)) /\ Head(p) \in Left(p) /\ Left(Tail(p)) = Left(p) \ {Head(p)}
      /\ \A x \in Left(p) : x = Head(p) \/ Rank[Head(p)] < Rank[x]
    BY <1>1, <1>2, NextOf
<1>4. cmd'[c].plan = Tail(p)  BY <1>3, DoFacts DEF DoNext
<1>5. Follows(Left(p)) /\ "save" \notin Left(p) /\ "apply" \notin Left(p)  BY <1>2 DEF WellPlanned
<1> QED  BY <1>1, <1>3, <1>4, <1>5 DEF ToDo

\* A config set or apply does the next step of its plan.
LEMMA ConfigDoes ==
    ASSUME UpdateInv, NEW c \in Cmds, NEW step, cmd[c].pc = "run", Head(cmd[c].plan) = step, cmd[c].kind # "update"
    PROVE  \/ step = "apply" /\ cmd[c].plan = <<"apply">>
           \/ step = "push" /\ cmd[c].plan = <<"push", "save", "restart">> /\ Tail(cmd[c].plan) = <<"save", "restart">>
           \/ step = "save" /\ cmd[c].plan = <<"save", "restart">> /\ Tail(cmd[c].plan) = <<"restart">>
           \/ step = "save" /\ cmd[c].plan = <<"save">> /\ Tail(cmd[c].plan) = <<>>
           \/ step = "restart" /\ cmd[c].plan = <<"restart">> /\ Tail(cmd[c].plan) = <<>>
<1>1. PlanShape(c)  BY CommandFields
<1>2. cmd[c].plan \in ConfigPlans  BY <1>1 DEF PlanShape, Planned
<1>3. CASE cmd[c].plan = <<"apply">>  BY <1>3
<1>4. CASE cmd[c].plan = <<"push", "save", "restart">>
    <2>1. Head(<<"push", "save", "restart">>) = "push" /\ Tail(<<"push", "save", "restart">>) = <<"save", "restart">>
        OBVIOUS
    <2> QED  BY <1>4, <2>1
<1>5. CASE cmd[c].plan = <<"save", "restart">>
    <2>1. Head(<<"save", "restart">>) = "save" /\ Tail(<<"save", "restart">>) = <<"restart">>  OBVIOUS
    <2> QED  BY <1>5, <2>1
<1>6. CASE cmd[c].plan = <<"save">>
    <2>1. Head(<<"save">>) = "save" /\ Tail(<<"save">>) = <<>>  OBVIOUS
    <2> QED  BY <1>6, <2>1
<1>7. CASE cmd[c].plan = <<"restart">>
    <2>1. Head(<<"restart">>) = "restart" /\ Tail(<<"restart">>) = <<>>  OBVIOUS
    <2> QED  BY <1>7, <2>1
<1> QED  BY <1>2, <1>3, <1>4, <1>5, <1>6, <1>7 DEF ConfigPlans

\* A step that only updates have: what is left afterwards, and what it has to show.
LEMMA OnlyUpdates ==
    ASSUME UpdateInv, NEW c \in Cmds, NEW step, cmd[c].pc = "run", Head(cmd[c].plan) = step,
           step \notin {"apply", "push", "save", "restart"}
    PROVE  cmd[c].kind = "update" /\ (cmd[c].force => Repairs(c))
<1>1. cmd[c].kind = "update"  BY ConfigDoes
<1> QED  BY <1>1, CommandFields DEF RunShape

LEMMA UpdateStep ==
    ASSUME UpdateInv, NEW c \in Cmds, NEW step, DoNext(c, step), step \notin {"apply", "push", "save", "restart"},
           WorldOK',
           cmd[c].force /\ Repairs(c) /\ step \in ToDo(c) /\ ToDo(c)' = ToDo(c) \ {step} /\ Follows(ToDo(c)) => Repairs(c)'
    PROVE  UpdateInv' /\ Leaves(c)
<1>1. cmd[c].pc = "run" /\ Head(cmd[c].plan) = step  BY DEF DoNext, Do
<1>2. cmd[c].kind = "update" /\ (cmd[c].force => Repairs(c))  BY <1>1, OnlyUpdates
<1>3. /\ Tail(cmd[c].plan) \in Seq(Steps) /\ WellPlanned(Tail(cmd[c].plan))
      /\ step \in ToDo(c) /\ ToDo(c)' = ToDo(c) \ {step} /\ Follows(ToDo(c))
    BY <1>2, UpdateDoes
<1> QED  BY <1>2, <1>3, DoKeeps DEF DoNext

\* Doing a step changes neither the types of the rest of the world nor the command's own release and settings.
LEMMA DoTypes ==
    ASSUME UpdateInv, NEW c \in Cmds, NEW step, NEW rest, Do(c, step, rest)
    PROVE  WorldOK /\ cmd[c].self \in Releases /\ cmd[c].s \in Settings /\ UNCHANGED <<published, faults, outages>>
BY CommandFields DEF Do

\* The steps of the host and the templates.
LEMMA HostStepsKeep ==
    ASSUME UpdateInv, NEW c \in Cmds,
           InstallBinary(c) \/ ImportTemplate(c) \/ \E t \in Tunings : Tune(c, t)
    PROVE  UpdateInv' /\ Leaves(c)
<1>1. CASE InstallBinary(c)
    <2>1. WorldOK'  BY <1>1, DoTypes DEF InstallBinary, DoNext, WorldOK
    <2>2. ToDo(c)' = ToDo(c) \ {"binary"} /\ Repairs(c) => Repairs(c)'
        BY <1>1 DEF InstallBinary, Repairs, ServiceCurrent
    <2> QED  BY <1>1, <2>1, <2>2, UpdateStep DEF InstallBinary
<1>2. CASE ImportTemplate(c)
    <2>1. WorldOK'  BY <1>2, DoTypes DEF ImportTemplate, DoNext, WorldOK
    <2>2. ToDo(c)' = ToDo(c) \ {"template"} /\ Repairs(c) => Repairs(c)'
        BY <1>2 DEF ImportTemplate, Repairs, ServiceCurrent
    <2> QED  BY <1>2, <2>1, <2>2, UpdateStep DEF ImportTemplate
<1>3. ASSUME NEW t \in Tunings, Tune(c, t) PROVE UpdateInv' /\ Leaves(c)
    <2>1. WorldOK'  BY <1>3, DoTypes DEF Tune, DoNext, WorldOK
    <2>2. t \notin {"configure", "restart", "apply", "push", "save"}  BY DEF Tunings
    <2>3. ToDo(c)' = ToDo(c) \ {t} /\ Repairs(c) => Repairs(c)'
        BY <1>3, <2>2 DEF Tune, Repairs, ServiceCurrent
    <2> QED  BY <1>3, <2>1, <2>2, <2>3, UpdateStep DEF Tune
<1> QED  BY <1>1, <1>2, <1>3

\* The steps that replace or create the gateway.
LEMMA GatewayStepsKeep ==
    ASSUME UpdateInv, NEW c \in Cmds,
           DestroyGateway(c) \/ CreateVM(c) \/ ImportDisk(c) \/ StartGateway(c) \/ ConfigureGateway(c)
    PROVE  UpdateInv' /\ Leaves(c)
<1>1. CASE DestroyGateway(c)
    <2>1. WorldOK'  BY <1>1, DoTypes DEF DestroyGateway, DoNext, WorldOK
    <2>2. Follows(ToDo(c)) /\ "destroy" \in ToDo(c) /\ ToDo(c)' = ToDo(c) \ {"destroy"} /\ Repairs(c) => Repairs(c)'
        BY <1>1 DEF DestroyGateway, Repairs, ServiceCurrent, Follows
    <2> QED  BY <1>1, <2>1, <2>2, UpdateStep DEF DestroyGateway
<1>2. CASE CreateVM(c)
    <2>1. WorldOK'  BY <1>2, DoTypes DEF CreateVM, DoNext, WorldOK
    <2>2. Follows(ToDo(c)) /\ "create" \in ToDo(c) /\ ToDo(c)' = ToDo(c) \ {"create"} /\ Repairs(c) => Repairs(c)'
        BY <1>2 DEF CreateVM, Repairs, ServiceCurrent, Follows
    <2> QED  BY <1>2, <2>1, <2>2, UpdateStep DEF CreateVM
<1>3. CASE ImportDisk(c)
    <2>1. WorldOK'  BY <1>3, DoTypes DEF ImportDisk, DoNext, WorldOK
    <2>2. Follows(ToDo(c)) /\ "disk" \in ToDo(c) /\ ToDo(c)' = ToDo(c) \ {"disk"} /\ Repairs(c) => Repairs(c)'
        BY <1>3 DEF ImportDisk, Repairs, ServiceCurrent, Follows
    <2> QED  BY <1>3, <2>1, <2>2, UpdateStep DEF ImportDisk
<1>4. CASE StartGateway(c)
    <2>1. WorldOK'  BY <1>4, DoTypes DEF StartGateway, DoNext, WorldOK
    <2>2. Follows(ToDo(c)) /\ "start" \in ToDo(c) /\ ToDo(c)' = ToDo(c) \ {"start"} /\ Repairs(c) => Repairs(c)'
        BY <1>4 DEF StartGateway, Repairs, ServiceCurrent, Follows
    <2> QED  BY <1>4, <2>1, <2>2, UpdateStep DEF StartGateway
<1>5. CASE ConfigureGateway(c)
    <2>1. WorldOK'  BY <1>5, DoTypes DEF ConfigureGateway, DoNext, WorldOK
    <2>2. gw'.at = "up"  BY <1>5, DoTypes DEF ConfigureGateway, DoNext, WorldOK
    <2>3. ToDo(c)' = ToDo(c) \ {"configure"} /\ Repairs(c) => Repairs(c)'
        BY <1>5, <2>2 DEF ConfigureGateway, Repairs, ServiceCurrent
    <2> QED  BY <1>5, <2>1, <2>3, UpdateStep DEF ConfigureGateway
<1> QED  BY <1>1, <1>2, <1>3, <1>4, <1>5

\* createGateway looking for a gateway.
LEMMA FindKeeps ==
    ASSUME UpdateInv, NEW c \in Cmds, FindGateway(c)
    PROVE  UpdateInv' /\ Leaves(c)
<1> DEFINE p == cmd[c].plan
           q == SubSeq(p, 1 + Len(CreateSteps), Len(p))
<1>1. CASE gw.at \in {"none", "created"}
    <2>1. DoNext(c, "find") /\ gw' = [gw EXCEPT !.at = "none"] /\ UNCHANGED <<host, images, ctl>>
        BY <1>1 DEF FindGateway
    <2>2. WorldOK'  BY <2>1, DoTypes DEF DoNext, WorldOK
    <2>3. Follows(ToDo(c)) /\ "find" \in ToDo(c) /\ ToDo(c)' = ToDo(c) \ {"find"} /\ Repairs(c) => Repairs(c)'
        BY <2>1 DEF Repairs, ServiceCurrent, Follows
    <2> QED  BY <2>1, <2>2, <2>3, UpdateStep
<1>2. CASE gw.at \notin {"none", "created"}
    <2>1. /\ Do(c, "find", q) /\ gw' = [gw EXCEPT !.at = IF @ = "disk" THEN "booted" ELSE @]
          /\ UNCHANGED <<host, images, ctl>>
        BY <1>2 DEF FindGateway
    <2>2. WorldOK'  BY <2>1, DoTypes DEF WorldOK
    <2>3. cmd[c].pc = "run" /\ Head(p) = "find" /\ p \in Seq(Steps) /\ PlanShape(c)  BY <2>1, CommandFields DEF Do
    <2>4. cmd[c].kind = "update" /\ (cmd[c].force => Repairs(c))  BY <2>3, OnlyUpdates
    <2>5. p # <<>> /\ WellPlanned(p)  BY <2>3, <2>4 DEF PlanShape, Planned
    <2>6. q \in Seq(Steps) /\ WellPlanned(q) /\ Left(q) = Left(p) \ {"find", "create", "disk", "start"}
        BY <2>3, <2>5, FoundRest
    <2> HIDE DEF q
    <2>7. cmd'[c].plan = q  BY <2>1, <2>6, DoFacts
    <2>8. ToDo(c)' = ToDo(c) \ {"find", "create", "disk", "start"}  BY <2>6, <2>7 DEF ToDo
    <2>9. "find" \in Left(p) /\ Follows(Left(p))  BY <2>3, <2>5, NextOf DEF WellPlanned
    <2>10. "configure" \in ToDo(c)'  BY <2>8, <2>9 DEF ToDo, Follows
    <2>11. Repairs(c) => Repairs(c)'  BY <2>1, <2>8, <2>10 DEF Repairs, ServiceCurrent
    <2> QED  BY <2>1, <2>2, <2>4, <2>6, <2>11, DoKeeps
<1> QED  BY <1>1, <1>2

\* A config is a config, whatever release renders it.
LEMMA RenderType ==
    ASSUME NEW st \in Settings, NEW v \in Releases
    PROVE  Render(st, v) \in Config
BY UpdateAssumption DEF Render, Config

\* The steps of an update that touch the controller: its parcon and its tag.
LEMMA ControllerStepsKeep ==
    ASSUME UpdateInv, NEW c \in Cmds, UpgradeControllerBinary(c) \/ TagController(c)
    PROVE  UpdateInv' /\ Leaves(c)
<1>1. CASE UpgradeControllerBinary(c)
    <2>1. WorldOK'  BY <1>1, DoTypes DEF UpgradeControllerBinary, DoNext, WorldOK
    <2>2. Follows(ToDo(c)) /\ "upgrade" \in ToDo(c) /\ ToDo(c)' = ToDo(c) \ {"upgrade"} /\ Repairs(c) => Repairs(c)'
        BY <1>1 DEF UpgradeControllerBinary, Repairs, ServiceCurrent, Follows
    <2> QED  BY <1>1, <2>1, <2>2, UpdateStep DEF UpgradeControllerBinary
<1>2. CASE TagController(c)
    <2>1. WorldOK'  BY <1>2, DoTypes DEF TagController, DoNext, WorldOK
    <2>2. ServiceCurrent => ServiceCurrent'
        <3>1. ctl' = [ctl EXCEPT !.tag = cmd[c].self]  BY <1>2 DEF TagController
        <3>2. /\ ctl \in [up : BOOLEAN, bin : Releases, config : Config, tag : Releases,
                          service : [bin : Releases, config : Config]]
            BY <1>2, DoTypes DEF TagController, DoNext, WorldOK
        <3>3. ctl'.up = ctl.up /\ ctl'.bin = ctl.bin /\ ctl'.config = ctl.config /\ ctl'.service = ctl.service
            BY <3>1, <3>2
        <3> QED  BY <3>3 DEF ServiceCurrent
    <2>3. ToDo(c)' = ToDo(c) \ {"tag"} /\ Repairs(c) => Repairs(c)'  BY <1>2, <2>2 DEF TagController, Repairs
    <2> QED  BY <1>2, <2>1, <2>3, UpdateStep DEF TagController
<1> QED  BY <1>1, <1>2

\* Pushing the config, of an update or of config set and apply.
LEMMA PushKeeps ==
    ASSUME UpdateInv, NEW c \in Cmds, PushConfig(c)
    PROVE  UpdateInv' /\ Leaves(c)
<1>1. /\ DoNext(c, "push") /\ ctl' = [ctl EXCEPT !.config = Render(cmd[c].s, cmd[c].self)] /\ UNCHANGED <<host, images, gw>>
      /\ cmd[c].pc = "run" /\ Head(cmd[c].plan) = "push"
    BY DEF PushConfig, DoNext, Do
<1>2. WorldOK /\ cmd[c].self \in Releases /\ cmd[c].s \in Settings /\ UNCHANGED <<published, faults, outages>>
    BY <1>1, DoTypes DEF DoNext
<1>3. WorldOK' /\ ctl'.config = Render(cmd[c].s, cmd[c].self)  BY <1>1, <1>2, RenderType DEF WorldOK
<1>4. CASE cmd[c].kind = "update"
    <2>1. /\ Tail(cmd[c].plan) \in Seq(Steps) /\ WellPlanned(Tail(cmd[c].plan))
          /\ "push" \in ToDo(c) /\ ToDo(c)' = ToDo(c) \ {"push"} /\ Follows(ToDo(c))
        BY <1>1, <1>4, UpdateDoes
    <2>2. cmd[c].force => Repairs(c)  BY <1>1, <1>4, CommandFields DEF RunShape
    <2>3. Repairs(c) => Repairs(c)'  BY <1>1, <2>1 DEF Repairs, Follows
    <2> QED  BY <1>1, <1>3, <1>4, <2>1, <2>2, <2>3, DoKeeps DEF DoNext
<1>5. CASE cmd[c].kind # "update"
    <2>1. Tail(cmd[c].plan) = <<"save", "restart">>  BY <1>1, <1>5, ConfigDoes
    <2>2. /\ <<"save", "restart">> \in Seq(Steps) /\ <<"save", "restart">> \in ConfigPlans
          /\ <<"save", "restart">> # <<"apply">> /\ <<"save", "restart">> # <<"restart">>
        BY AllSteps DEF ConfigPlans
    <2>3. Do(c, "push", <<"save", "restart">>)  BY <1>1, <2>1 DEF DoNext
    <2>4. cmd'[c].plan = <<"save", "restart">> /\ cmd'[c].s = cmd[c].s /\ cmd'[c].self = cmd[c].self
        BY <2>2, <2>3, DoFacts
    <2>5. Configures(c)'  BY <1>3, <2>2, <2>4 DEF Configures, Render
    <2> QED  BY <1>3, <1>5, <2>2, <2>3, <2>5, DoKeeps
<1> QED  BY <1>4, <1>5

\* Restarting parcon.service.
LEMMA RestartKeeps ==
    ASSUME UpdateInv, NEW c \in Cmds, RestartController(c)
    PROVE  UpdateInv' /\ Leaves(c)
<1>1. /\ DoNext(c, "restart") /\ ctl' = Started /\ UNCHANGED <<host, images, gw>>
      /\ cmd[c].pc = "run" /\ Head(cmd[c].plan) = "restart"
    BY DEF RestartController, DoNext, Do
<1>2. WorldOK /\ UNCHANGED <<published, faults, outages>>  BY <1>1, DoTypes DEF DoNext
<1>3. WorldOK' /\ ServiceCurrent'  BY <1>1, <1>2 DEF WorldOK, Started, ServiceCurrent
<1>4. CASE cmd[c].kind = "update"
    <2>1. /\ Tail(cmd[c].plan) \in Seq(Steps) /\ WellPlanned(Tail(cmd[c].plan))
          /\ ToDo(c)' = ToDo(c) \ {"restart"}
        BY <1>1, <1>4, UpdateDoes
    <2>2. cmd[c].force => Repairs(c)  BY <1>1, <1>4, CommandFields DEF RunShape
    <2>3. Repairs(c) => Repairs(c)'  BY <1>1, <1>3, <2>1 DEF Repairs
    <2> QED  BY <1>1, <1>3, <1>4, <2>1, <2>2, <2>3, DoKeeps DEF DoNext
<1>5. CASE cmd[c].kind # "update"
    <2>1. Tail(cmd[c].plan) = <<>>  BY <1>1, <1>5, ConfigDoes
    <2>2. Do(c, "restart", <<>>)  BY <1>1, <2>1 DEF DoNext
    <2>3. <<>> \in Seq(Steps)  OBVIOUS
    <2> QED  BY <1>3, <1>5, <2>2, <2>3, DoKeeps
<1> QED  BY <1>4, <1>5

\* Looking at the controller at the start of an apply.
LEMMA ApplyKeeps ==
    ASSUME UpdateInv, NEW c \in Cmds, Apply(c)
    PROVE  UpdateInv' /\ Leaves(c)
<1> DEFINE rest == IF ctl.up THEN <<"push", "save", "restart">> ELSE <<"save">>
<1>1. Do(c, "apply", rest) /\ UNCHANGED nodeVars /\ cmd[c].pc = "run" /\ Head(cmd[c].plan) = "apply"
    BY DEF Apply, Do
<1>2. /\ rest \in Seq(Steps) /\ rest \in ConfigPlans /\ rest # <<"apply">> /\ rest # <<"restart">>
      /\ rest # <<"save", "restart">>
    <2> DEFINE three == <<"push", "save", "restart">>
    <2>1. "push" \in Steps /\ "save" \in Steps /\ "restart" \in Steps  BY AllSteps
    <2>2. /\ three \in Seq(Steps) /\ three # <<"apply">> /\ three # <<"restart">> /\ three # <<"save", "restart">>
        BY <2>1
    <2>3. /\ <<"save">> \in Seq(Steps) /\ <<"save">> # <<"apply">> /\ <<"save">> # <<"restart">>
          /\ <<"save">> # <<"save", "restart">>
        BY <2>1
    <2>4. three \in ConfigPlans /\ <<"save">> \in ConfigPlans  BY DEF ConfigPlans
    <2>5. rest = three \/ rest = <<"save">>  OBVIOUS
    <2> HIDE DEF three, rest
    <2> QED  BY <2>2, <2>3, <2>4, <2>5
<1> HIDE DEF rest
<1>3. WorldOK'  BY <1>1, DoTypes DEF WorldOK, nodeVars
<1>4. cmd[c].kind # "update"
    <2>1. ASSUME cmd[c].kind = "update" PROVE FALSE
        <3>1. cmd[c].plan \in Seq(Steps) /\ PlanShape(c)  BY CommandFields
        <3>2. cmd[c].plan # <<>> /\ WellPlanned(cmd[c].plan)  BY <1>1, <2>1, <3>1 DEF PlanShape, Planned
        <3>3. "apply" \in Left(cmd[c].plan)  BY <1>1, <3>1, <3>2, NextOf
        <3> QED  BY <3>2, <3>3 DEF WellPlanned
    <2> QED  BY <2>1
<1>5. cmd'[c].plan = rest  BY <1>1, <1>2, DoFacts
<1>6. Configures(c)'  BY <1>2, <1>5 DEF Configures
<1> QED  BY <1>1, <1>2, <1>3, <1>4, <1>6, DoKeeps

\* Saving the settings.
LEMMA SaveKeeps ==
    ASSUME UpdateInv, NEW c \in Cmds, SaveSettings(c)
    PROVE  UpdateInv' /\ Leaves(c)
<1>1. /\ DoNext(c, "save") /\ host' = [host EXCEPT !.settings = cmd[c].s] /\ UNCHANGED <<images, gw, ctl>>
      /\ cmd[c].pc = "run" /\ Head(cmd[c].plan) = "save"
    BY DEF SaveSettings, DoNext, Do
<1>2. WorldOK /\ cmd[c].s \in Settings /\ UNCHANGED <<published, faults, outages>>  BY <1>1, DoTypes DEF DoNext
<1>3. WorldOK' /\ host'.settings = cmd[c].s  BY <1>1, <1>2 DEF WorldOK
<1>4. cmd[c].kind # "update"
    <2>1. ASSUME cmd[c].kind = "update" PROVE FALSE
        <3>1. "save" \in ToDo(c) /\ "save" \notin ToDo(c)  BY <1>1, <2>1, UpdateDoes
        <3> QED  BY <3>1
    <2> QED  BY <2>1
<1>5. Configures(c)  BY <1>1, <1>4, CommandFields DEF RunShape
<1>6. CASE cmd[c].plan = <<"save", "restart">> /\ Tail(cmd[c].plan) = <<"restart">>
    <2>1. Do(c, "save", <<"restart">>)  BY <1>1, <1>6 DEF DoNext
    <2>2. <<"restart">> \in Seq(Steps) /\ <<"restart">> \in ConfigPlans /\ <<"restart">> # <<"apply">>
        BY AllSteps DEF ConfigPlans
    <2>3. cmd'[c].s = cmd[c].s /\ cmd'[c].self = cmd[c].self  BY <2>1, <2>2, DoFacts
    <2>4. ctl.config = Render(cmd[c].s, cmd[c].self)  BY <1>5, <1>6 DEF Configures
    <2>5. Configures(c)'  BY <1>1, <1>3, <2>3, <2>4 DEF Configures, Render
    <2> QED  BY <1>3, <1>4, <2>1, <2>2, <2>5, DoKeeps
<1>7. CASE Tail(cmd[c].plan) = <<>>
    <2>1. Do(c, "save", <<>>)  BY <1>1, <1>7 DEF DoNext
    <2>2. <<>> \in Seq(Steps)  OBVIOUS
    <2> QED  BY <1>3, <1>4, <2>1, <2>2, DoKeeps
<1> QED  BY <1>1, <1>4, <1>6, <1>7, ConfigDoes

\* Every step of a command.
LEMMA CommandKeeps ==
    ASSUME UpdateInv, NEW c \in Cmds, CommandStep(c)
    PROVE  UpdateInv' /\ Leaves(c)
<1>1. CASE \/ \E force \in BOOLEAN : Update(c, force)
           \/ \E v \in Releases : Install(c, v)
           \/ \E k \in Keys, x \in Values : SetConfig(c, k, x)
           \/ ApplyConfig(c)
    BY <1>1, StartsKeep
<1>2. CASE Plan(c)  BY <1>2, PlanKeeps
<1>3. CASE Lock(c)  BY <1>3, LockKeeps
<1>4. CASE ReplaceSelf(c)  BY <1>4, ReplaceSelfKeeps
<1>5. CASE Exec(c)  BY <1>5, ExecKeeps
<1>6. CASE PlanStep(c)
    BY <1>6, HostStepsKeep, GatewayStepsKeep, FindKeeps, ControllerStepsKeep, PushKeeps, RestartKeeps, ApplyKeeps,
       SaveKeeps
       DEF PlanStep
<1>7. CASE Refused(c) \/ Fail(c)  BY <1>7, StopsKeep
<1> QED  BY <1>1, <1>2, <1>3, <1>4, <1>5, <1>6, <1>7 DEF CommandStep

\* Releases, outages and pruning.
LEMMA WorldKeeps ==
    ASSUME UpdateInv, Publish \/ ControllerStops \/ ControllerStarts \/ GatewayLost \/ \E v \in Releases : Prune(v)
    PROVE  UpdateInv' /\ cmd' = cmd
<1>1. WorldOK /\ LockOK /\ \A c \in Cmds : PlanShape(c) /\ RunShape(c)  BY TypeParts DEF UpdateInv
<1>2. cmd' = cmd /\ lock' = lock
    BY DEF Publish, ControllerStops, ControllerStarts, GatewayLost, Prune
<1>3. LockOK'  BY <1>1, <1>2 DEF LockOK
<1>4. \A c \in Cmds : PlanShape(c)'  BY <1>1, <1>2 DEF PlanShape, Planned, ToDo
<1>5. CASE Publish \/ \E v \in Releases : Prune(v)
    <2>1. host' = host /\ gw' = gw /\ ctl' = ctl  BY <1>5 DEF Publish, Prune, nodeVars
    <2>2. WorldOK'
        <3>1. CASE Publish
            <4>1. MaxRelease \in Nat /\ published \in 1..MaxRelease  BY <1>1, UpdateAssumption DEF WorldOK, Releases
            <4>2. published' \in 1..MaxRelease  BY <3>1, <4>1 DEF Publish
            <4> QED  BY <1>1, <3>1, <4>2 DEF Publish, WorldOK, nodeVars, Releases
        <3>2. CASE \E v \in Releases : Prune(v)  BY <1>1, <3>2 DEF Prune, WorldOK
        <3> QED  BY <1>5, <3>1, <3>2
    <2>3. \A c \in Cmds : RunShape(c)'
        BY <1>1, <1>2, <2>1 DEF RunShape, Repairs, Configures, ServiceCurrent, ToDo
    <2>4. TypeOK'  BY <1>3, <2>2, TypeParts, PTL
    <2> QED  BY <1>2, <1>4, <2>3, <2>4 DEF UpdateInv
<1>6. CASE ControllerStops \/ ControllerStarts
    <2>1. host' = host /\ gw' = gw /\ images' = images /\ published' = published /\ faults' = faults
        BY <1>6 DEF ControllerStops, ControllerStarts
    <2>2. ctl \in [up : BOOLEAN, bin : Releases, config : Config, tag : Releases,
                   service : [bin : Releases, config : Config]]
        BY <1>1 DEF WorldOK
    <2>3. /\ ctl' \in [up : BOOLEAN, bin : Releases, config : Config, tag : Releases,
                       service : [bin : Releases, config : Config]]
          /\ ctl'.config = ctl.config /\ ServiceCurrent'
        <3>1. CASE ControllerStops  BY <2>2, <3>1 DEF ControllerStops, ServiceCurrent
        <3>2. CASE ControllerStarts
            <4> DEFINE sv == [bin |-> ctl.bin, config |-> ctl.config]
            <4>1. ctl' = [[ctl EXCEPT !.service = sv] EXCEPT !.up = TRUE]  BY <3>2 DEF ControllerStarts, Started
            <4>2. sv \in [bin : Releases, config : Config]  BY <2>2
            <4> HIDE DEF sv
            <4>3. /\ ctl' \in [up : BOOLEAN, bin : Releases, config : Config, tag : Releases,
                               service : [bin : Releases, config : Config]]
                  /\ ctl'.bin = ctl.bin /\ ctl'.config = ctl.config /\ ctl'.service = sv
                BY <2>2, <4>1, <4>2
            <4> QED  BY <4>3 DEF sv, ServiceCurrent
        <3> QED  BY <1>6, <3>1, <3>2
    <2>4. outages' \in 0..MaxOutages
        <3>1. outages \in 0..MaxOutages /\ MaxOutages \in Nat  BY <1>1, UpdateAssumption DEF WorldOK
        <3> QED  BY <1>6, <3>1 DEF ControllerStops, ControllerStarts, Outage
    <2>5. WorldOK'  BY <1>1, <2>1, <2>3, <2>4 DEF WorldOK
    <2>6. \A c \in Cmds : RunShape(c)'
        BY <1>1, <1>2, <2>1, <2>3 DEF RunShape, Repairs, Configures, ToDo
    <2>7. TypeOK'  BY <1>3, <2>5, TypeParts, PTL
    <2> QED  BY <1>2, <1>4, <2>6, <2>7 DEF UpdateInv
<1>7. CASE GatewayLost
    <2>1. outages' \in 0..MaxOutages
        <3>1. outages \in 0..MaxOutages /\ MaxOutages \in Nat  BY <1>1, UpdateAssumption DEF WorldOK
        <3> QED  BY <1>7, <3>1 DEF GatewayLost, Outage
    <2>2. WorldOK'  BY <1>1, <1>7, <2>1 DEF GatewayLost, WorldOK
    <2>3. \A c \in Cmds : RunShape(c)'  BY <1>2, <1>7 DEF GatewayLost, Ended, RunShape
    <2>4. TypeOK'  BY <1>3, <2>2, TypeParts, PTL
    <2> QED  BY <1>2, <1>4, <2>3, <2>4 DEF UpdateInv
<1> QED  BY <1>5, <1>6, <1>7

\* At the start no command runs and the node is at release 1.
LEMMA UpdateInit == Init => UpdateInv
<1> SUFFICES ASSUME Init PROVE UpdateInv
    OBVIOUS
<1>1. 1 \in Releases /\ None \notin Cmds  BY UpdateAssumption DEF Releases
<1>2. PICK s \in Settings, t \in SUBSET Tunings :
        /\ host = [bin |-> 1, settings |-> s, tuned |-> t]
        /\ ctl = [up |-> TRUE, bin |-> 1, config |-> Render(s, 1), tag |-> 1,
                  service |-> [bin |-> 1, config |-> Render(s, 1)]]
        /\ cmd = [c \in Cmds |-> [pc |-> "idle", kind |-> "apply", self |-> 1, to |-> 1, installed |-> 1,
                                  script |-> FALSE, force |-> FALSE, s |-> s, keys |-> {}, plan |-> <<>>]]
    BY DEF Init
<1>3. Render(s, 1) \in Config  BY <1>1, RenderType
<1>4. /\ published = 1 /\ images = [have |-> {1}, newest |-> 1] /\ gw = [at |-> "up", release |-> 1]
      /\ lock = None /\ faults = 0 /\ outages = 0
    BY DEF Init
<1>5. 0 \in 0..MaxFaults /\ 0 \in 0..MaxOutages  BY UpdateAssumption
<1>6. WorldOK  BY <1>1, <1>2, <1>3, <1>4, <1>5 DEF WorldOK
<1>7. <<>> \in Seq(Steps)  OBVIOUS
<1>8. cmd \in [Cmds -> Command] /\ \A c \in Cmds : cmd[c].pc = "idle"  BY <1>1, <1>2, <1>7 DEF Command
<1>9. LockOK  BY <1>1, <1>4, <1>8 DEF LockOK
<1>10. \A c \in Cmds : PlanShape(c) /\ RunShape(c)  BY <1>8 DEF PlanShape, RunShape, Planned
<1> QED  BY <1>6, <1>9, <1>10, TypeParts DEF UpdateInv

\* A step that changes nothing.
LEMMA UpdateStutters == UpdateInv /\ UNCHANGED vars => UpdateInv'
<1> SUFFICES ASSUME UpdateInv, UNCHANGED vars PROVE UpdateInv'
    OBVIOUS
<1>1. TypeOK'  BY DEF UpdateInv, TypeOK, vars, nodeVars
<1>2. ASSUME NEW c \in Cmds PROVE PlanShape(c)' /\ RunShape(c)'
    <2>1. PlanShape(c) /\ RunShape(c) /\ cmd'[c] = cmd[c] /\ UNCHANGED nodeVars  BY DEF UpdateInv, vars
    <2> QED  BY <2>1, OtherCommands
<1> QED  BY <1>1, <1>2 DEF UpdateInv

\* The inductive invariant of overlapping commands holds: whatever the order of the commands and failures, the one with
\* the lock has an ordered plan that ends what it has begun.
THEOREM UpdateInvHolds == Spec => []UpdateInv
<1>1. UpdateInv /\ [Next]_vars => UpdateInv'
    <2> SUFFICES ASSUME UpdateInv, [Next]_vars PROVE UpdateInv'
        OBVIOUS
    <2>1. CASE UNCHANGED vars  BY <2>1, UpdateStutters
    <2>2. CASE Next  BY <2>2, CommandKeeps, WorldKeeps DEF Next
    <2> QED  BY <2>1, <2>2
<1> QED  BY <1>1, UpdateInit, PTL DEF Spec

\* The state of update, install and config is well typed, and the lock is held exactly while a command changes the node.
THEOREM UpdateTypes == Spec => []TypeOK
<1>1. UpdateInv => TypeOK  BY DEF UpdateInv
<1> QED  BY <1>1, UpdateInvHolds, PTL

\* An update --force that ends without an error leaves a configured gateway and a service that runs what is on disk,
\* whatever stopped before it and whatever other commands were started.
THEOREM ForceRepairsHolds == Spec => ForceRepairs
<1> DEFINE Repaired == \A c \in Cmds : Finishes(c) /\ cmd'[c].kind = "update" /\ cmd'[c].force
                                           => (gw.at = "up" /\ ServiceCurrent)'
<1>1. UpdateInv /\ [Next]_vars => [Repaired]_vars
    <2> SUFFICES ASSUME UpdateInv, Next, NEW c \in Cmds, Finishes(c), cmd'[c].kind = "update", cmd'[c].force
                 PROVE  (gw.at = "up" /\ ServiceCurrent)'
        OBVIOUS
    <2>1. cmd'[c] # cmd[c] /\ cmd'[c].pc = "done"  BY DEF Finishes
    <2>2. PICK d \in Cmds : CommandStep(d)  BY <2>1, WorldKeeps DEF Next
    <2>3. Leaves(d)  BY <2>2, CommandKeeps
    <2>4. d = c  BY <2>1, <2>3 DEF Leaves
    <2> QED  BY <2>1, <2>3, <2>4 DEF Leaves
<1>2. Spec => [][Repaired]_vars  BY <1>1, UpdateInvHolds, PTL DEF Spec
<1> QED  BY <1>2 DEF ForceRepairs

\* When config set or apply restarts parcon.service, it comes back with the settings that are on the host, those the
\* command sets included, with any number of commands at the same time.
THEOREM AppliedConfigRunsHolds == Spec => AppliedConfigRuns
<1> DEFINE Runs == \A c \in Cmds : RestartController(c) /\ cmd[c].kind \in {"set", "apply"}
                       => /\ ctl'.service.config = Render(host'.settings, cmd[c].self)
                          /\ \A k \in cmd[c].keys : host'.settings[k] = cmd[c].s[k]
<1>1. UpdateInv => Runs
    <2> SUFFICES ASSUME UpdateInv, NEW c \in Cmds, RestartController(c), cmd[c].kind \in {"set", "apply"}
                 PROVE  /\ ctl'.service.config = Render(host'.settings, cmd[c].self)
                        /\ \A k \in cmd[c].keys : host'.settings[k] = cmd[c].s[k]
        OBVIOUS
    <2>1. cmd[c].pc = "run" /\ Head(cmd[c].plan) = "restart" /\ cmd[c].kind # "update"
        BY DEF RestartController, DoNext, Do
    <2>2. cmd[c].plan = <<"restart">>  BY <2>1, ConfigDoes
    <2>3. WorldOK /\ Configures(c)  BY <2>1, CommandFields DEF RunShape
    <2>4. ctl.config = Render(cmd[c].s, cmd[c].self) /\ host.settings = cmd[c].s  BY <2>2, <2>3 DEF Configures
    <2>5. ctl'.service.config = ctl.config /\ host' = host  BY <2>3 DEF RestartController, Started, WorldOK
    <2> QED  BY <2>4, <2>5
<1>2. Spec => [][Runs]_vars  BY <1>1, UpdateInvHolds, PTL DEF Spec
<1> QED  BY <1>2 DEF AppliedConfigRuns

-----------------------------------------------------------------------------
(* One command after another *)

OneCommand == \A c, d \in Cmds : c = d

\* The node between and during commands: no piece is newer than the host's parcon, and none is older than the tag.
NodeInv ==
    /\ TagIsHonest /\ ConfigReadable
    /\ \A v \in images.have : v <= images.newest
    /\ images.newest <= host.bin /\ ctl.bin <= host.bin /\ host.bin <= published

\* What an update with a plan has brought to its release, or still has to.
Brings(c) ==
    LET m == cmd[c]
    IN  /\ m.s = host.settings
        /\ host.bin = m.self \/ "binary" \in ToDo(c)
        /\ (m.self \in images.have /\ images.newest = m.self) \/ "template" \in ToDo(c)
        /\ (gw.at # "none" /\ gw.release = m.self) \/ "create" \in ToDo(c)
        /\ "find" \in ToDo(c) => gw.at = "none"
        /\ ctl.bin = m.self \/ "upgrade" \in ToDo(c)
        /\ ctl.config = Render(m.s, m.self) \/ "push" \in ToDo(c)
        /\ \A t \in Tunings : t \in host.tuned \/ t \in ToDo(c)
        /\ ctl.tag = m.self \/ "tag" \in ToDo(c)

\* The release of an update: it isn't older than the node, and only install.sh's parcon isn't the host's.
GoesUp(c) ==
    /\ host.bin <= cmd[c].self /\ cmd[c].self <= published
    /\ cmd[c].script \/ cmd[c].self = host.bin
    /\ ctl.tag <= cmd[c].self

AloneInv(c) ==
    /\ cmd[c].pc \in {"self", "replace"} => host.bin <= cmd[c].to /\ cmd[c].to <= published
    /\ cmd[c].pc \in {"plan", "lock", "run"} /\ cmd[c].kind = "update" => GoesUp(c)
    /\ Planned(c) /\ cmd[c].kind = "update" => Brings(c)

\* The inductive invariant of commands that don't overlap.
OneInv == UpdateInv /\ NodeInv /\ \A c \in Cmds : AloneInv(c)

\* What a step of command c has to keep, and what it has done when it ends an update.
Holds(c) ==
    /\ NodeInv' /\ AloneInv(c)'
    /\ cmd'[c].pc = "done" /\ cmd'[c].kind = "update" => AtItsRelease(c)'

\* Releases are numbers.
LEMMA Numbers ==
    ASSUME WorldOK
    PROVE  /\ host.bin \in Int /\ published \in Int /\ images.newest \in Int /\ ctl.bin \in Int /\ ctl.tag \in Int
           /\ gw.release \in Int /\ images.have \subseteq Int /\ Releases \subseteq Int
           /\ host.bin \in Releases /\ ctl.bin \in Releases
<1>1. Releases \subseteq Int  BY UpdateAssumption DEF Releases
<1> QED  BY <1>1 DEF WorldOK

\* What is known before a step of command c.
LEMMA OneFacts ==
    ASSUME OneInv, NEW c \in Cmds
    PROVE  /\ WorldOK /\ NodeInv /\ AloneInv(c) /\ cmd[c].self \in Int /\ cmd[c].to \in Int
           /\ cmd[c].self \in Releases /\ cmd[c].script \in BOOLEAN /\ cmd[c].force \in BOOLEAN
<1>1. WorldOK /\ cmd[c].self \in Releases /\ cmd[c].to \in Releases /\ cmd[c].script \in BOOLEAN /\ cmd[c].force \in BOOLEAN
    BY CommandFields DEF OneInv
<1> QED  BY <1>1, Numbers DEF OneInv

\* A step that leaves the node alone, by a command without a plan afterwards.
LEMMA NodeAlone ==
    ASSUME NodeInv, UNCHANGED nodeVars, published' = published
    PROVE  NodeInv'
BY DEF NodeInv, TagIsHonest, ConfigReadable, nodeVars

\* Starting a command.
LEMMA OneStarts ==
    ASSUME ~OldScripts, OneInv, NEW c \in Cmds,
           \/ \E force \in BOOLEAN : Update(c, force)
           \/ \E v \in Releases : Install(c, v)
           \/ \E k \in Keys, x \in Values : SetConfig(c, k, x)
           \/ ApplyConfig(c)
    PROVE  Holds(c)
<1>1. WorldOK /\ NodeInv /\ cmd \in [Cmds -> Command]  BY OneFacts, CommandFields DEF OneInv, LockOK
<1>2. host.bin \in Int /\ published \in Int /\ ctl.tag \in Int  BY <1>1, Numbers
<1>3. host.bin <= published /\ ctl.tag <= host.bin  BY <1>1, <1>2 DEF NodeInv, TagIsHonest
<1>4. ASSUME NEW pc, NEW kind, NEW self, NEW script, NEW force, NEW st, NEW keys, NEW plan,
             Start(c, pc, kind, self, script, force, st, keys, plan)
      PROVE  /\ NodeInv' /\ UNCHANGED nodeVars /\ published' = published
             /\ cmd'[c].pc = pc /\ cmd'[c].kind = kind /\ cmd'[c].self = self /\ cmd'[c].to = published
             /\ cmd'[c].script = script
    <2>1. UNCHANGED nodeVars /\ published' = published  BY <1>4 DEF Start
    <2>2. cmd'[c] = [pc |-> pc, kind |-> kind, self |-> self, to |-> published, installed |-> ctl.tag,
                     script |-> script, force |-> force, s |-> st, keys |-> keys, plan |-> plan]
        BY <1>1, <1>4 DEF Start
    <2> QED  BY <1>1, <2>1, <2>2, NodeAlone
<1>5. ASSUME NEW force \in BOOLEAN, Update(c, force) PROVE Holds(c)
    <2>1. CASE published > host.bin
        <3>1. Start(c, "self", "update", host.bin, FALSE, force, host.settings, {}, <<>>)  BY <1>5, <2>1 DEF Update
        <3>2. /\ NodeInv' /\ UNCHANGED nodeVars /\ published' = published /\ cmd'[c].pc = "self"
              /\ cmd'[c].to = published
            BY <1>4, <3>1
        <3> QED  BY <1>2, <1>3, <3>2 DEF Holds, AloneInv, Planned, nodeVars
    <2>2. CASE ~(published > host.bin)
        <3>1. Start(c, "plan", "update", host.bin, FALSE, force, host.settings, {}, <<>>)  BY <1>5, <2>2 DEF Update
        <3>2. /\ NodeInv' /\ UNCHANGED nodeVars /\ published' = published /\ cmd'[c].pc = "plan"
              /\ cmd'[c].self = host.bin
            BY <1>4, <3>1
        <3> QED  BY <1>2, <1>3, <3>2 DEF Holds, AloneInv, GoesUp, Planned, nodeVars
    <2> QED  BY <2>1, <2>2
<1>6. ASSUME NEW v \in Releases, Install(c, v) PROVE Holds(c)
    <2>1. Start(c, "plan", "update", v, TRUE, FALSE, host.settings, {}, <<>>) /\ v = published /\ ctl.tag < v
        BY <1>6 DEF Install
    <2>2. /\ NodeInv' /\ UNCHANGED nodeVars /\ published' = published /\ cmd'[c].pc = "plan"
          /\ cmd'[c].self = v /\ cmd'[c].script = TRUE
        BY <1>4, <2>1
    <2> QED  BY <1>2, <1>3, <2>1, <2>2 DEF Holds, AloneInv, GoesUp, Planned, nodeVars
<1>7. ASSUME NEW k \in Keys, NEW x \in Values, SetConfig(c, k, x) PROVE Holds(c)
    <2>1. NodeInv' /\ cmd'[c].pc \in {"done", "lock"} /\ cmd'[c].kind = "set"  BY <1>4, <1>7 DEF SetConfig
    <2> QED  BY <2>1 DEF Holds, AloneInv
<1>8. ASSUME ApplyConfig(c) PROVE Holds(c)
    <2>1. NodeInv' /\ cmd'[c].pc = "lock" /\ cmd'[c].kind = "apply"  BY <1>4, <1>8 DEF ApplyConfig
    <2> QED  BY <2>1 DEF Holds, AloneInv
<1> QED  BY <1>5, <1>6, <1>7, <1>8

\* An update with nothing left to do has brought everything to its release.
NothingLeft == \A c \in Cmds : Brings(c) /\ ToDo(c) = {} => AtItsRelease(c)

LEMMA NothingMissed == WorldOK => NothingLeft
<1> SUFFICES ASSUME WorldOK, NEW c \in Cmds, Brings(c), ToDo(c) = {} PROVE AtItsRelease(c)
    BY DEF NothingLeft
<1>1. host.tuned \subseteq Tunings  BY DEF WorldOK
<1> QED  BY <1>1 DEF Brings, AtItsRelease

\* A plan misses nothing: what upgradeSteps doesn't plan is at the update's release already.
LEMMA PlanBrings ==
    ASSUME OneInv, NEW c \in Cmds, GoesUp(c)
    PROVE  LET v == cmd[c].self
               left == Left(UpgradeSteps(c, host.settings))
           IN  /\ host.bin = v \/ "binary" \in left
               /\ (v \in images.have /\ images.newest = v) \/ "template" \in left
               /\ (gw.at # "none" /\ gw.release = v) \/ "create" \in left
               /\ "find" \in left => gw.at = "none"
               /\ ctl.bin = v \/ "upgrade" \in left
               /\ ctl.config = Render(host.settings, v) \/ "push" \in left
               /\ \A t \in Tunings : t \in host.tuned \/ t \in left
               /\ ctl.tag = v \/ "tag" \in left
<1> DEFINE v == cmd[c].self
           pieces == PiecesLeft(c, host.settings)
           left == Left(UpgradeSteps(c, host.settings))
<1>1. /\ WorldOK /\ NodeInv /\ cmd[c].script \in BOOLEAN /\ cmd[c].force \in BOOLEAN /\ v \in Int
    BY OneFacts
<1>2. left = pieces \cup (IF pieces = {} /\ ctl.tag = v THEN {} ELSE {"tag"})  BY <1>1, UpgradePlan
<1> HIDE DEF left
<1>3. host.bin = v \/ "binary" \in pieces  BY DEF GoesUp, PiecesLeft
<1>4. (v \in images.have /\ images.newest = v) \/ "template" \in pieces
    <2>1. ASSUME v \in images.have PROVE images.newest = v
        <3>1. v <= images.newest /\ images.newest <= host.bin /\ host.bin <= v  BY <1>1, <2>1 DEF NodeInv, GoesUp
        <3>2. images.newest \in Int /\ host.bin \in Int  BY <1>1, Numbers
        <3> QED  BY <1>1, <3>1, <3>2
    <2>2. v \notin images.have => "template" \in pieces  BY DEF PiecesLeft
    <2> QED  BY <2>1, <2>2
<1>5. (gw.at # "none" /\ gw.release = v) \/ "create" \in pieces  BY DEF PiecesLeft, GatewayLeft
<1>6. "find" \in pieces => gw.at = "none"  BY DEF PiecesLeft, GatewayLeft, ControllerLeft
<1>7. /\ ctl.bin = v \/ "upgrade" \in pieces
      /\ ctl.config = Render(host.settings, v) \/ "push" \in pieces
    BY DEF PiecesLeft, ControllerLeft
<1>8. \A t \in Tunings : t \in host.tuned \/ t \in pieces  BY DEF PiecesLeft, Tunings
<1> HIDE DEF pieces
<1>9. pieces \subseteq left /\ ("find" \in left => "find" \in pieces) /\ (ctl.tag = v \/ "tag" \in left)  BY <1>2
<1> QED  BY <1>3, <1>4, <1>5, <1>6, <1>7, <1>8, <1>9 DEF left

\* Planning.
LEMMA OnePlans ==
    ASSUME OneInv, NEW c \in Cmds, Plan(c)
    PROVE  Holds(c)
<1> DEFINE u == UpgradeSteps(c, host.settings)
<1>1. /\ WorldOK /\ NodeInv /\ AloneInv(c) /\ cmd[c].pc = "plan" /\ cmd \in [Cmds -> Command] /\ cmd[c] \in Command
      /\ cmd[c].script \in BOOLEAN /\ cmd[c].force \in BOOLEAN /\ PlanShape(c)
    BY OneFacts, CommandFields DEF OneInv, LockOK, Plan
<1>2. cmd[c].kind = "update" /\ GoesUp(c)  BY <1>1 DEF PlanShape, AloneInv
<1>3. UNCHANGED nodeVars /\ published' = published  BY DEF Plan
<1>4. NodeInv'  BY <1>1, <1>3, NodeAlone
<1>5. CASE Refuses(c)
    <2>1. cmd'[c].pc = "failed"  BY <1>1, <1>5 DEF Plan
    <2> QED  BY <1>4, <2>1 DEF Holds, AloneInv, Planned
<1>6. CASE ~Refuses(c)
    <2>1. cmd' = [cmd EXCEPT ![c].pc = IF u = <<>> THEN "done" ELSE "lock", ![c].s = host.settings, ![c].plan = u]
        BY <1>6 DEF Plan
    <2>2. u \in Seq(Steps)  BY <1>1, UpgradePlan
    <2> HIDE DEF u
    <2>3. /\ cmd'[c].pc = (IF u = <<>> THEN "done" ELSE "lock") /\ cmd'[c].s = host.settings /\ cmd'[c].plan = u
          /\ cmd'[c].kind = cmd[c].kind /\ cmd'[c].self = cmd[c].self /\ cmd'[c].script = cmd[c].script
        BY <1>1, <2>1 DEF Command
    <2>4. GoesUp(c)'  BY <1>2, <1>3, <2>3 DEF GoesUp, nodeVars
    <2>5. Brings(c)'
        <3>1. /\ host' = host /\ images' = images /\ gw' = gw /\ ctl' = ctl /\ ToDo(c)' = Left(u)
            BY <1>3, <2>3 DEF nodeVars, ToDo
        <3> QED  BY <1>2, <2>3, <3>1, PlanBrings DEF Brings, Render, u
    <2>6. ASSUME cmd'[c].pc = "done" PROVE AtItsRelease(c)'
        <3>1. ToDo(c)' = {}  BY <2>2, <2>3, <2>6, LeftNone DEF ToDo
        <3>2. WorldOK'  BY CommandKeeps, TypeParts, PTL DEF OneInv, UpdateInv, CommandStep
        <3>3. NothingLeft'  BY <3>2, NothingMissed, PTL
        <3> QED  BY <2>5, <3>1, <3>3 DEF NothingLeft
    <2> QED  BY <1>4, <2>3, <2>4, <2>5, <2>6 DEF Holds, AloneInv
<1> QED  BY <1>5, <1>6

\* Locking, replacing the host's parcon, running it, and stopping.
LEMMA OneMoves ==
    ASSUME OneInv, NEW c \in Cmds, Lock(c) \/ ReplaceSelf(c) \/ Exec(c) \/ Refused(c) \/ Fail(c)
    PROVE  Holds(c)
<1>1. /\ WorldOK /\ NodeInv /\ AloneInv(c) /\ cmd \in [Cmds -> Command] /\ cmd[c] \in Command /\ PlanShape(c)
      /\ cmd[c].to \in Int
    BY OneFacts, CommandFields DEF OneInv, LockOK
<1>2. /\ host.bin \in Int /\ published \in Int /\ ctl.tag \in Int /\ images.newest \in Int /\ ctl.bin \in Int
    BY <1>1, Numbers
<1>3. CASE Lock(c)
    <2>1. UNCHANGED nodeVars /\ published' = published /\ NodeInv'  BY <1>1, <1>3, NodeAlone DEF Lock
    <2>2. CASE lock # None
        <3>1. cmd'[c].pc = "failed"
            <4>1. cmd' = [cmd EXCEPT ![c].pc = "failed", ![c].plan = <<>>]  BY <1>3, <2>2 DEF Lock
            <4>2. cmd'[c] = [cmd[c] EXCEPT !.pc = "failed", !.plan = <<>>]  BY <1>1, <4>1
            <4> QED  BY <1>1, <4>2 DEF Command
        <3> QED  BY <2>1, <3>1 DEF Holds, AloneInv, Planned
    <2>3. CASE lock = None
        <3>1. /\ cmd'[c] = [cmd[c] EXCEPT !.pc = IF cmd[c].pc = "self" THEN "replace" ELSE "run"]
              /\ cmd[c].pc \in {"self", "lock"}
            BY <1>1, <1>3, <2>3 DEF Lock
        <3>2. /\ cmd'[c].pc = (IF cmd[c].pc = "self" THEN "replace" ELSE "run") /\ cmd'[c].kind = cmd[c].kind
              /\ cmd'[c].self = cmd[c].self /\ cmd'[c].to = cmd[c].to /\ cmd'[c].s = cmd[c].s
              /\ cmd'[c].plan = cmd[c].plan /\ cmd'[c].script = cmd[c].script
            BY <1>1, <3>1 DEF Command
        <3>3. host' = host /\ images' = images /\ gw' = gw /\ ctl' = ctl  BY <2>1 DEF nodeVars
        <3>4. CASE cmd[c].pc = "self"
            BY <1>1, <2>1, <3>2, <3>3, <3>4 DEF Holds, AloneInv, Planned
        <3>5. CASE cmd[c].pc = "lock"
            BY <1>1, <2>1, <3>2, <3>3, <3>5 DEF Holds, AloneInv, Planned, GoesUp, Brings, ToDo, Render
        <3> QED  BY <3>1, <3>4, <3>5
    <2> QED  BY <2>2, <2>3
<1>4. CASE ReplaceSelf(c)
    <2>1. cmd[c].pc = "replace" /\ host' = [host EXCEPT !.bin = cmd[c].to] /\ published' = published
          /\ images' = images /\ gw' = gw /\ ctl' = ctl
        BY <1>4 DEF ReplaceSelf
    <2>2. host'.bin = cmd[c].to  BY <1>1, <2>1 DEF WorldOK
    <2>3. host.bin <= cmd[c].to /\ cmd[c].to <= published  BY <1>1, <2>1 DEF AloneInv
    <2>4. NodeInv'  BY <1>1, <1>2, <2>1, <2>2, <2>3 DEF NodeInv, TagIsHonest, ConfigReadable
    <2>5. cmd'[c].pc = "exec"  BY <1>1, <1>4 DEF ReplaceSelf
    <2> QED  BY <2>4, <2>5 DEF Holds, AloneInv, Planned
<1>5. CASE Exec(c)
    <2>1. UNCHANGED nodeVars /\ published' = published /\ NodeInv'  BY <1>1, <1>5, NodeAlone DEF Exec
    <2>2. cmd'[c].pc = "plan" /\ cmd'[c].self = host.bin  BY <1>1, <1>5 DEF Exec, Command
    <2>3. host.bin <= published /\ ctl.tag <= host.bin  BY <1>1, <1>2 DEF NodeInv, TagIsHonest
    <2>4. GoesUp(c)'  BY <1>2, <2>1, <2>2, <2>3 DEF GoesUp, nodeVars
    <2> QED  BY <2>1, <2>2, <2>4 DEF Holds, AloneInv, Planned
<1>6. CASE Refused(c) \/ Fail(c)
    <2>1. Stop(c)  BY <1>6 DEF Refused, Fail
    <2>2. UNCHANGED nodeVars /\ published' = published /\ NodeInv'  BY <1>1, <2>1, NodeAlone DEF Stop
    <2>3. cmd'[c].pc = "failed"  BY <1>1, <2>1 DEF Stop
    <2> QED  BY <2>2, <2>3 DEF Holds, AloneInv, Planned
<1> QED  BY <1>3, <1>4, <1>5, <1>6

\* An update before a step of its plan.
LEMMA OneStep ==
    ASSUME OneInv, NEW c \in Cmds, NEW step, DoNext(c, step), cmd[c].kind = "update"
    PROVE  /\ WorldOK /\ NodeInv /\ GoesUp(c) /\ Brings(c) /\ ToDo(c)' = ToDo(c) \ {step} /\ step \in ToDo(c)
           /\ Follows(ToDo(c)) /\ (\A x \in ToDo(c) : x = step \/ Rank[step] < Rank[x])
           /\ cmd'[c].self = cmd[c].self /\ cmd'[c].s = cmd[c].s /\ cmd'[c].script = cmd[c].script
           /\ published' = published /\ cmd[c].self \in Int /\ cmd[c].self \in Releases
           /\ host.bin \in Int /\ published \in Int /\ images.newest \in Int /\ ctl.bin \in Int /\ ctl.tag \in Int
           /\ gw.release \in Int
<1>1. UpdateInv /\ WorldOK /\ NodeInv /\ AloneInv(c) /\ cmd[c].self \in Int /\ cmd[c].self \in Releases
    BY OneFacts DEF OneInv
<1>2. cmd[c].pc = "run"  BY DEF DoNext, Do
<1>3. GoesUp(c) /\ Brings(c)  BY <1>1, <1>2 DEF AloneInv, Planned
<1>4. /\ Tail(cmd[c].plan) \in Seq(Steps) /\ step \in ToDo(c) /\ ToDo(c)' = ToDo(c) \ {step} /\ Follows(ToDo(c))
      /\ \A x \in ToDo(c) : x = step \/ Rank[step] < Rank[x]
    BY <1>1, UpdateDoes
<1>5. /\ cmd'[c].self = cmd[c].self /\ cmd'[c].s = cmd[c].s /\ cmd'[c].script = cmd[c].script
      /\ published' = published
    BY <1>1, <1>4, DoFacts DEF DoNext
<1>6. /\ host.bin \in Int /\ published \in Int /\ images.newest \in Int /\ ctl.bin \in Int /\ ctl.tag \in Int
      /\ gw.release \in Int
    BY <1>1, Numbers
<1> QED  BY <1>1, <1>3, <1>4, <1>5, <1>6

\* What a step of an update has to show.
LEMMA OneDone ==
    ASSUME OneInv, NEW c \in Cmds, NEW step, DoNext(c, step), cmd[c].kind = "update",
           PlanStep(c), NodeInv', GoesUp(c)', Brings(c)'
    PROVE  Holds(c)
<1>1. UpdateInv /\ Tail(cmd[c].plan) \in Seq(Steps)  BY UpdateDoes DEF OneInv
<1>2. /\ cmd'[c].kind = "update" /\ cmd'[c].plan = Tail(cmd[c].plan)
      /\ cmd'[c].pc = IF Tail(cmd[c].plan) = <<>> THEN "done" ELSE "run"
    BY <1>1, DoFacts DEF DoNext
<1>3. ASSUME cmd'[c].pc = "done" PROVE AtItsRelease(c)'
    <2>1. ToDo(c)' = {}  BY <1>2, <1>3, LeftNone DEF ToDo
    <2>2. WorldOK'  BY <1>1, CommandKeeps, TypeParts, PTL DEF UpdateInv, CommandStep
    <2>3. NothingLeft'  BY <2>2, NothingMissed, PTL
    <2> QED  BY <2>1, <2>3 DEF NothingLeft
<1> QED  BY <1>2, <1>3 DEF Holds, AloneInv

\* The kinds of commands that have a step, for a command that runs.
LEMMA OneKind ==
    ASSUME OneInv, NEW c \in Cmds, NEW step, NEW rest, Do(c, step, rest),
           step \notin {"apply", "push", "save", "restart"}
    PROVE  cmd[c].kind = "update"
BY OnlyUpdates DEF OneInv, Do

\* The steps of the host and the templates.
LEMMA OneHostSteps ==
    ASSUME OneInv, NEW c \in Cmds,
           InstallBinary(c) \/ ImportTemplate(c) \/ \E t \in Tunings : Tune(c, t)
    PROVE  Holds(c)
<1>0. PlanStep(c)  BY DEF PlanStep
<1>1. CASE InstallBinary(c)
    <2>1. DoNext(c, "binary") /\ cmd[c].kind = "update"  BY <1>1, OneKind DEF InstallBinary, DoNext
    <2>2. /\ WorldOK /\ NodeInv /\ GoesUp(c) /\ Brings(c) /\ ToDo(c)' = ToDo(c) \ {"binary"}
          /\ cmd'[c].self = cmd[c].self /\ cmd'[c].s = cmd[c].s /\ cmd'[c].script = cmd[c].script
          /\ published' = published /\ cmd[c].self \in Int
          /\ host.bin \in Int /\ published \in Int /\ images.newest \in Int /\ ctl.bin \in Int /\ ctl.tag \in Int
        BY <2>1, OneStep
    <2>3. /\ host'.bin = cmd[c].self /\ host'.settings = host.settings /\ host'.tuned = host.tuned
          /\ images' = images /\ gw' = gw /\ ctl' = ctl
        BY <1>1, <2>2 DEF InstallBinary, WorldOK
    <2>4. NodeInv'  BY <2>2, <2>3 DEF NodeInv, TagIsHonest, ConfigReadable, GoesUp
    <2>5. GoesUp(c)'  BY <2>2, <2>3 DEF GoesUp
    <2>6. Brings(c)'  BY <2>2, <2>3 DEF Brings, Tunings, Render
    <2> QED  BY <1>0, <2>1, <2>4, <2>5, <2>6, OneDone
<1>2. CASE ImportTemplate(c)
    <2>1. DoNext(c, "template") /\ cmd[c].kind = "update"  BY <1>2, OneKind DEF ImportTemplate, DoNext
    <2>2. /\ WorldOK /\ NodeInv /\ GoesUp(c) /\ Brings(c) /\ ToDo(c)' = ToDo(c) \ {"template"}
          /\ (\A x \in ToDo(c) : x = "template" \/ Rank["template"] < Rank[x])
          /\ cmd'[c].self = cmd[c].self /\ cmd'[c].s = cmd[c].s /\ cmd'[c].script = cmd[c].script
          /\ published' = published /\ cmd[c].self \in Int
          /\ host.bin \in Int /\ published \in Int /\ images.newest \in Int /\ ctl.bin \in Int /\ ctl.tag \in Int
        BY <2>1, OneStep
    <2>3. "binary" \notin ToDo(c)  BY <2>2, Ranks
    <2>4. host.bin = cmd[c].self  BY <2>2, <2>3 DEF Brings
    <2>5. host' = host /\ gw' = gw /\ ctl' = ctl  BY <1>2 DEF ImportTemplate
    <2>6. /\ images'.newest = cmd[c].self /\ cmd[c].self \in images'.have
          /\ \A v \in images'.have : v \in images.have \/ v = cmd[c].self
        <3>1. CASE cmd[c].self \in images.have /\ ~cmd[c].force
            <4>1. images' = images  BY <1>2, <3>1 DEF ImportTemplate
            <4>2. cmd[c].self <= images.newest /\ images.newest <= host.bin  BY <2>2, <3>1 DEF NodeInv
            <4>3. images.newest = cmd[c].self  BY <2>2, <2>4, <4>2
            <4> QED  BY <3>1, <4>1, <4>3
        <3>2. CASE ~(cmd[c].self \in images.have /\ ~cmd[c].force)
            <4>1. images' = [have |-> images.have \cup {cmd[c].self}, newest |-> cmd[c].self]
                BY <1>2, <3>2 DEF ImportTemplate
            <4> QED  BY <4>1
        <3> QED  BY <3>1, <3>2
    <2>7. \A v \in images.have : v \in Int /\ v <= cmd[c].self
        <3>1. images.have \subseteq Int  BY <2>2, Numbers
        <3>2. \A v \in images.have : v <= images.newest /\ images.newest <= host.bin  BY <2>2 DEF NodeInv
        <3> QED  BY <2>2, <2>4, <3>1, <3>2
    <2>8. NodeInv'
        <3>1. \A v \in images'.have : v <= images'.newest  BY <2>2, <2>6, <2>7
        <3>2. images'.newest \in images'.have /\ images'.newest <= host'.bin /\ images'.newest >= ctl'.tag
            BY <2>2, <2>4, <2>5, <2>6 DEF GoesUp
        <3> QED  BY <2>2, <2>5, <3>1, <3>2 DEF NodeInv, TagIsHonest, ConfigReadable
    <2>9. GoesUp(c)'  BY <2>2, <2>5 DEF GoesUp
    <2>10. Brings(c)'  BY <2>2, <2>5, <2>6 DEF Brings, Tunings, Render
    <2> QED  BY <1>0, <2>1, <2>8, <2>9, <2>10, OneDone
<1>3. ASSUME NEW t \in Tunings, Tune(c, t) PROVE Holds(c)
    <2>0. t \notin {"apply", "push", "save", "restart"} /\ t \in {"offloads", "asyncPF"}  BY DEF Tunings
    <2>1. DoNext(c, t) /\ cmd[c].kind = "update"  BY <1>3, <2>0, OneKind DEF Tune, DoNext
    <2>2. /\ WorldOK /\ NodeInv /\ GoesUp(c) /\ Brings(c) /\ ToDo(c)' = ToDo(c) \ {t}
          /\ cmd'[c].self = cmd[c].self /\ cmd'[c].s = cmd[c].s /\ cmd'[c].script = cmd[c].script
          /\ published' = published
        BY <2>1, OneStep
    <2>3. /\ host'.bin = host.bin /\ host'.settings = host.settings /\ host'.tuned = host.tuned \cup {t}
          /\ images' = images /\ gw' = gw /\ ctl' = ctl
        BY <1>3, <2>2 DEF Tune, WorldOK
    <2>4. NodeInv'  BY <2>2, <2>3 DEF NodeInv, TagIsHonest, ConfigReadable
    <2>5. GoesUp(c)'  BY <2>2, <2>3 DEF GoesUp
    <2>6. Brings(c)'  BY <2>0, <2>2, <2>3 DEF Brings, Tunings, Render
    <2> QED  BY <1>0, <2>1, <2>4, <2>5, <2>6, OneDone
<1> QED  BY <1>1, <1>2, <1>3

\* A step that changes only the gateway: what it has to show.
LEMMA OneGateway ==
    ASSUME OneInv, NEW c \in Cmds, NEW step \in {"destroy", "find", "create", "disk", "start", "configure"},
           DoNext(c, step), PlanStep(c), UNCHANGED <<host, images, ctl>>,
           gw'.at # "none" => gw'.release = IF step = "create" THEN cmd[c].self ELSE gw.release,
           step \in {"destroy", "find"} => gw'.at = "none",
           step \notin {"destroy", "find"} => gw'.at # "none" /\ (gw.at # "none" \/ step = "create")
    PROVE  Holds(c)
<1>1. cmd[c].kind = "update"  BY OneKind DEF DoNext
<1>2. /\ WorldOK /\ NodeInv /\ GoesUp(c) /\ Brings(c) /\ ToDo(c)' = ToDo(c) \ {step} /\ step \in ToDo(c)
      /\ Follows(ToDo(c)) /\ (\A x \in ToDo(c) : x = step \/ Rank[step] < Rank[x])
      /\ cmd'[c].self = cmd[c].self /\ cmd'[c].s = cmd[c].s /\ cmd'[c].script = cmd[c].script
      /\ published' = published /\ cmd[c].self \in Int /\ ctl.tag \in Int /\ gw.release \in Int
    BY <1>1, OneStep
<1>3. step \notin {"destroy", "find"} => "find" \notin ToDo(c)  BY <1>2, Ranks
<1>4. step \in {"destroy", "find"} => "create" \in ToDo(c)'  BY <1>2 DEF Follows
<1>5. gw'.at # "none" => gw'.release >= ctl'.tag  BY <1>2 DEF NodeInv, TagIsHonest, GoesUp
<1>6. NodeInv'  BY <1>2, <1>5 DEF NodeInv, TagIsHonest, ConfigReadable
<1>7. GoesUp(c)'  BY <1>2 DEF GoesUp
<1>8. (gw'.at # "none" /\ gw'.release = cmd[c].self) \/ "create" \in ToDo(c)'
    <2>1. CASE step \in {"destroy", "find"}  BY <1>4, <2>1
    <2>2. CASE step = "create"  BY <2>2
    <2>3. CASE step \in {"disk", "start", "configure"}
        <3>1. (gw.at # "none" /\ gw.release = cmd[c].self) \/ "create" \in ToDo(c)  BY <1>2 DEF Brings
        <3> QED  BY <1>2, <2>3, <3>1
    <2> QED  BY <2>1, <2>2, <2>3
<1>9. "find" \in ToDo(c)' => gw'.at = "none"  BY <1>2, <1>3
<1>10. Brings(c)'  BY <1>2, <1>8, <1>9 DEF Brings, Tunings, Render
<1> QED  BY <1>1, <1>6, <1>7, <1>10, OneDone

\* The steps that replace or create the gateway.
LEMMA OneGatewaySteps ==
    ASSUME OneInv, NEW c \in Cmds,
           FindGateway(c) \/ DestroyGateway(c) \/ CreateVM(c) \/ ImportDisk(c) \/ StartGateway(c) \/ ConfigureGateway(c)
    PROVE  Holds(c)
<1>0. PlanStep(c) /\ gw \in [at : {"none", "created", "disk", "booted", "up"}, release : Releases]
    BY OneFacts DEF PlanStep, WorldOK
<1>1. CASE FindGateway(c)
    <2>1. gw.at = "none"
        <3>1. cmd[c].pc = "run" /\ Head(cmd[c].plan) = "find"  BY <1>1 DEF FindGateway, DoNext, Do
        <3>2. cmd[c].kind = "update"  BY <3>1, OnlyUpdates DEF OneInv
        <3>3. cmd[c].plan \in Seq(Steps) /\ PlanShape(c)  BY CommandFields DEF OneInv
        <3>4. cmd[c].plan # <<>> /\ WellPlanned(cmd[c].plan)  BY <3>1, <3>2, <3>3 DEF PlanShape, Planned
        <3>5. "find" \in ToDo(c)  BY <3>1, <3>3, <3>4, NextOf DEF ToDo
        <3>6. Brings(c)  BY <3>1, <3>2, OneFacts DEF AloneInv, Planned
        <3> QED  BY <3>5, <3>6 DEF Brings
    <2>2. DoNext(c, "find") /\ gw' = [gw EXCEPT !.at = "none"] /\ UNCHANGED <<host, images, ctl>>
        BY <1>1, <2>1 DEF FindGateway
    <2>3. gw'.at = "none"  BY <1>0, <2>2
    <2> QED  BY <1>0, <2>2, <2>3, OneGateway
<1>2. CASE DestroyGateway(c)
    <2>1. DoNext(c, "destroy") /\ UNCHANGED <<host, images, ctl>> /\ gw'.at = "none"  BY <1>0, <1>2 DEF DestroyGateway
    <2> QED  BY <1>0, <2>1, OneGateway
<1>3. CASE CreateVM(c)
    <2>1. DoNext(c, "create") /\ UNCHANGED <<host, images, ctl>> /\ gw'.at = "created" /\ gw'.release = cmd[c].self
        BY <1>3 DEF CreateVM
    <2> QED  BY <1>0, <2>1, OneGateway
<1>4. CASE ImportDisk(c)
    <2>1. DoNext(c, "disk") /\ UNCHANGED <<host, images, ctl>> /\ gw'.at = "disk" /\ gw'.release = gw.release
        BY <1>0, <1>4 DEF ImportDisk
    <2>2. gw.at # "none"  BY <2>1 DEF DoNext, Do, Possible
    <2> QED  BY <1>0, <2>1, <2>2, OneGateway
<1>5. CASE StartGateway(c)
    <2>1. DoNext(c, "start") /\ UNCHANGED <<host, images, ctl>> /\ gw'.at = "booted" /\ gw'.release = gw.release
        BY <1>0, <1>5 DEF StartGateway
    <2>2. gw.at # "none"  BY <2>1 DEF DoNext, Do, Possible
    <2> QED  BY <1>0, <2>1, <2>2, OneGateway
<1>6. CASE ConfigureGateway(c)
    <2>1. DoNext(c, "configure") /\ UNCHANGED <<host, images, ctl>> /\ gw'.at = "up" /\ gw'.release = gw.release
        BY <1>0, <1>6 DEF ConfigureGateway
    <2>2. gw.at # "none"  BY <2>1 DEF DoNext, Do, Possible
    <2> QED  BY <1>0, <2>1, <2>2, OneGateway
<1> QED  BY <1>1, <1>2, <1>3, <1>4, <1>5, <1>6

\* The controller's parcon, and its tag: the last step, when nothing else is left.
LEMMA OneControllerSteps ==
    ASSUME OneInv, NEW c \in Cmds, UpgradeControllerBinary(c) \/ TagController(c)
    PROVE  Holds(c)
<1>0. PlanStep(c) /\ WorldOK  BY OneFacts DEF PlanStep
<1>1. CASE UpgradeControllerBinary(c)
    <2>1. DoNext(c, "upgrade") /\ cmd[c].kind = "update"  BY <1>1, OneKind DEF UpgradeControllerBinary, DoNext
    <2>2. /\ NodeInv /\ GoesUp(c) /\ Brings(c) /\ ToDo(c)' = ToDo(c) \ {"upgrade"}
          /\ (\A x \in ToDo(c) : x = "upgrade" \/ Rank["upgrade"] < Rank[x])
          /\ cmd'[c].self = cmd[c].self /\ cmd'[c].s = cmd[c].s /\ cmd'[c].script = cmd[c].script
          /\ published' = published /\ cmd[c].self \in Int /\ cmd[c].self \in Releases
          /\ host.bin \in Int /\ ctl.bin \in Int /\ ctl.tag \in Int
        BY <2>1, OneStep
    <2>3. "binary" \notin ToDo(c)  BY <2>2, Ranks
    <2>4. host.bin = cmd[c].self  BY <2>2, <2>3 DEF Brings
    <2>5. /\ ctl'.bin = cmd[c].self /\ ctl'.config = ctl.config /\ ctl'.tag = ctl.tag
          /\ host' = host /\ gw' = gw /\ images' = images
        BY <1>0, <1>1 DEF UpgradeControllerBinary, WorldOK
    <2>6. ConfigReadable'
        <3>1. ctl.bin \in Releases /\ ctl.bin <= cmd[c].self  BY <1>0, <2>2, <2>4, Numbers DEF NodeInv
        <3>2. Format[ctl.bin] <= Format[cmd[c].self] /\ Format[ctl.bin] \in Int /\ Format[cmd[c].self] \in Int
            BY <2>2, <3>1, UpdateAssumption
        <3>3. ctl.config.format <= Format[ctl.bin] /\ ctl.config.format \in Int
            BY <1>0, <2>2 DEF NodeInv, ConfigReadable, WorldOK, Config
        <3> QED  BY <2>5, <3>2, <3>3 DEF ConfigReadable
    <2>7. NodeInv'  BY <2>2, <2>4, <2>5, <2>6 DEF NodeInv, TagIsHonest, GoesUp
    <2>8. GoesUp(c)'  BY <2>2, <2>5 DEF GoesUp
    <2>9. Brings(c)'  BY <2>2, <2>5 DEF Brings, Tunings, Render
    <2> QED  BY <1>0, <2>1, <2>7, <2>8, <2>9, OneDone
<1>2. CASE TagController(c)
    <2>1. DoNext(c, "tag") /\ cmd[c].kind = "update"  BY <1>2, OneKind DEF TagController, DoNext
    <2>2. /\ NodeInv /\ GoesUp(c) /\ Brings(c) /\ ToDo(c)' = ToDo(c) \ {"tag"}
          /\ (\A x \in ToDo(c) : x = "tag" \/ Rank["tag"] < Rank[x])
          /\ cmd'[c].self = cmd[c].self /\ cmd'[c].s = cmd[c].s /\ cmd'[c].script = cmd[c].script
          /\ published' = published /\ cmd[c].self \in Int
        BY <2>1, OneStep
    <2>3. "binary" \notin ToDo(c) /\ "template" \notin ToDo(c) /\ "create" \notin ToDo(c) /\ "upgrade" \notin ToDo(c)
        BY <2>2, Ranks
    <2>4. /\ host.bin = cmd[c].self /\ images.newest = cmd[c].self /\ gw.release = cmd[c].self /\ ctl.bin = cmd[c].self
        BY <2>2, <2>3 DEF Brings
    <2>5. /\ ctl'.tag = cmd[c].self /\ ctl'.bin = ctl.bin /\ ctl'.config = ctl.config
          /\ host' = host /\ gw' = gw /\ images' = images
        BY <1>0, <1>2 DEF TagController, WorldOK
    <2>6. TagIsHonest'  BY <2>2, <2>4, <2>5 DEF NodeInv, TagIsHonest
    <2>7. NodeInv'  BY <2>2, <2>5, <2>6 DEF NodeInv, ConfigReadable
    <2>8. GoesUp(c)'  BY <2>2, <2>5 DEF GoesUp
    <2>9. Brings(c)'  BY <2>2, <2>5 DEF Brings, Tunings, Render
    <2> QED  BY <1>0, <2>1, <2>7, <2>8, <2>9, OneDone
<1> QED  BY <1>1, <1>2

\* A step of config set or apply, which has no release to keep to.
LEMMA OneConfig ==
    ASSUME OneInv, NEW c \in Cmds, NEW step, NEW rest \in Seq(Steps), Do(c, step, rest), cmd[c].kind # "update", NodeInv'
    PROVE  Holds(c)
<1>1. cmd'[c].kind # "update" /\ cmd'[c].pc \in {"done", "run"}  BY DoFacts DEF OneInv
<1> QED  BY <1>1 DEF Holds, AloneInv

\* Pushing the config, once the controller's parcon has accepted it, and restarting the service.
LEMMA OneServiceSteps ==
    ASSUME OneInv, NEW c \in Cmds, PushConfig(c) \/ RestartController(c)
    PROVE  Holds(c)
<1>0. PlanStep(c) /\ WorldOK /\ NodeInv  BY OneFacts DEF PlanStep
<1>1. CASE PushConfig(c)
    <2>1. /\ DoNext(c, "push") /\ Format[cmd[c].self] <= Format[ctl.bin]
          /\ cmd[c].pc = "run" /\ Head(cmd[c].plan) = "push" /\ published' = published
        BY <1>1 DEF PushConfig, DoNext, Do, Possible, Accepts
    <2>2. /\ ctl'.config = Render(cmd[c].s, cmd[c].self) /\ ctl'.bin = ctl.bin /\ ctl'.tag = ctl.tag
          /\ host' = host /\ gw' = gw /\ images' = images
        BY <1>0, <1>1 DEF PushConfig, WorldOK
    <2>3. ConfigReadable'  BY <2>1, <2>2 DEF ConfigReadable, Render
    <2>4. NodeInv'  BY <1>0, <2>1, <2>2, <2>3 DEF NodeInv, TagIsHonest
    <2>5. CASE cmd[c].kind = "update"
        <3>1. /\ GoesUp(c) /\ Brings(c) /\ ToDo(c)' = ToDo(c) \ {"push"}
              /\ cmd'[c].self = cmd[c].self /\ cmd'[c].s = cmd[c].s /\ cmd'[c].script = cmd[c].script
            BY <2>1, <2>5, OneStep
        <3>2. GoesUp(c)'  BY <2>1, <2>2, <3>1 DEF GoesUp
        <3>3. Brings(c)'  BY <2>2, <3>1 DEF Brings, Tunings, Render
        <3> QED  BY <1>0, <2>1, <2>4, <2>5, <3>2, <3>3, OneDone
    <2>6. CASE cmd[c].kind # "update"
        <3>1. Tail(cmd[c].plan) = <<"save", "restart">>  BY <2>1, <2>6, ConfigDoes DEF OneInv
        <3>2. <<"save", "restart">> \in Seq(Steps)  BY AllSteps
        <3> QED  BY <2>1, <2>4, <2>6, <3>1, <3>2, OneConfig DEF DoNext
    <2> QED  BY <2>5, <2>6
<1>2. CASE RestartController(c)
    <2>1. DoNext(c, "restart") /\ cmd[c].pc = "run" /\ Head(cmd[c].plan) = "restart" /\ published' = published
        BY <1>2 DEF RestartController, DoNext, Do
    <2>2. /\ ctl'.config = ctl.config /\ ctl'.bin = ctl.bin /\ ctl'.tag = ctl.tag
          /\ host' = host /\ gw' = gw /\ images' = images
        BY <1>0, <1>2 DEF RestartController, Started, WorldOK
    <2>3. NodeInv'  BY <1>0, <2>1, <2>2 DEF NodeInv, TagIsHonest, ConfigReadable
    <2>4. CASE cmd[c].kind = "update"
        <3>1. /\ GoesUp(c) /\ Brings(c) /\ ToDo(c)' = ToDo(c) \ {"restart"}
              /\ cmd'[c].self = cmd[c].self /\ cmd'[c].s = cmd[c].s /\ cmd'[c].script = cmd[c].script
            BY <2>1, <2>4, OneStep
        <3>2. GoesUp(c)'  BY <2>1, <2>2, <3>1 DEF GoesUp
        <3>3. Brings(c)'  BY <2>2, <3>1 DEF Brings, Tunings, Render
        <3> QED  BY <1>0, <2>1, <2>3, <2>4, <3>2, <3>3, OneDone
    <2>5. CASE cmd[c].kind # "update"
        <3>1. Tail(cmd[c].plan) = <<>>  BY <2>1, <2>5, ConfigDoes DEF OneInv
        <3>2. <<>> \in Seq(Steps)  OBVIOUS
        <3> QED  BY <2>1, <2>3, <2>5, <3>1, <3>2, OneConfig DEF DoNext
    <2> QED  BY <2>4, <2>5
<1> QED  BY <1>1, <1>2

\* Looking at the controller, and saving the settings.
LEMMA OneSettingsSteps ==
    ASSUME OneInv, NEW c \in Cmds, Apply(c) \/ SaveSettings(c)
    PROVE  Holds(c)
<1>0. WorldOK /\ NodeInv /\ UpdateInv  BY OneFacts DEF OneInv
<1>1. CASE Apply(c)
    <2> DEFINE rest == IF ctl.up THEN <<"push", "save", "restart">> ELSE <<"save">>
    <2>1. /\ Do(c, "apply", rest) /\ UNCHANGED nodeVars /\ published' = published
          /\ cmd[c].pc = "run" /\ Head(cmd[c].plan) = "apply"
        BY <1>1 DEF Apply, Do
    <2>2. rest \in Seq(Steps)
        <3>1. "push" \in Steps /\ "save" \in Steps /\ "restart" \in Steps  BY AllSteps
        <3>2. <<"push", "save", "restart">> \in Seq(Steps) /\ <<"save">> \in Seq(Steps)  BY <3>1
        <3> QED  BY <3>2
    <2>3. cmd[c].kind # "update"
        <3>1. ASSUME cmd[c].kind = "update" PROVE FALSE
            <4>1. cmd[c].plan \in Seq(Steps) /\ PlanShape(c)  BY <1>0, CommandFields
            <4>2. cmd[c].plan # <<>> /\ WellPlanned(cmd[c].plan)  BY <2>1, <3>1, <4>1 DEF PlanShape, Planned
            <4>3. "apply" \in Left(cmd[c].plan)  BY <2>1, <4>1, <4>2, NextOf
            <4> QED  BY <4>2, <4>3 DEF WellPlanned
        <3> QED  BY <3>1
    <2>4. NodeInv'  BY <1>0, <2>1, NodeAlone
    <2> HIDE DEF rest
    <2> QED  BY <2>1, <2>2, <2>3, <2>4, OneConfig
<1>2. CASE SaveSettings(c)
    <2>1. DoNext(c, "save") /\ cmd[c].pc = "run" /\ Head(cmd[c].plan) = "save" /\ published' = published
        BY <1>2 DEF SaveSettings, DoNext, Do
    <2>2. host'.bin = host.bin /\ images' = images /\ gw' = gw /\ ctl' = ctl  BY <1>0, <1>2 DEF SaveSettings, WorldOK
    <2>3. NodeInv'  BY <1>0, <2>1, <2>2 DEF NodeInv, TagIsHonest, ConfigReadable
    <2>4. cmd[c].kind # "update"
        <3>1. ASSUME cmd[c].kind = "update" PROVE FALSE
            <4>1. "save" \in ToDo(c) /\ "save" \notin ToDo(c)  BY <1>0, <2>1, <3>1, UpdateDoes
            <4> QED  BY <4>1
        <3> QED  BY <3>1
    <2>5. Tail(cmd[c].plan) \in Seq(Steps)
        <3>1. Tail(cmd[c].plan) = <<"restart">> \/ Tail(cmd[c].plan) = <<>>  BY <1>0, <2>1, <2>4, ConfigDoes
        <3>2. <<"restart">> \in Seq(Steps)  BY AllSteps
        <3>3. <<>> \in Seq(Steps)  OBVIOUS
        <3> QED  BY <3>1, <3>2, <3>3
    <2> QED  BY <2>1, <2>3, <2>4, <2>5, OneConfig DEF DoNext
<1> QED  BY <1>1, <1>2

\* Every step of the one command.
LEMMA OneCommandKeeps ==
    ASSUME ~OldScripts, OneInv, NEW c \in Cmds, CommandStep(c)
    PROVE  Holds(c)
<1>1. CASE \/ \E force \in BOOLEAN : Update(c, force)
           \/ \E v \in Releases : Install(c, v)
           \/ \E k \in Keys, x \in Values : SetConfig(c, k, x)
           \/ ApplyConfig(c)
    BY <1>1, OneStarts
<1>2. CASE Plan(c)  BY <1>2, OnePlans
<1>3. CASE Lock(c) \/ ReplaceSelf(c) \/ Exec(c) \/ Refused(c) \/ Fail(c)  BY <1>3, OneMoves
<1>4. CASE PlanStep(c)
    BY <1>4, OneHostSteps, OneGatewaySteps, OneControllerSteps, OneServiceSteps, OneSettingsSteps DEF PlanStep
<1> QED  BY <1>1, <1>2, <1>3, <1>4 DEF CommandStep

\* Releases, outages and pruning.
LEMMA OneWorldKeeps ==
    ASSUME OneInv, Publish \/ ControllerStops \/ ControllerStarts \/ GatewayLost \/ \E v \in Releases : Prune(v)
    PROVE  NodeInv' /\ \A c \in Cmds : AloneInv(c)'
<1>1. WorldOK /\ NodeInv  BY TypeParts DEF OneInv, UpdateInv
<1>2. cmd' = cmd  BY WorldKeeps DEF OneInv
<1>3. /\ host.bin \in Int /\ published \in Int /\ images.newest \in Int
    BY <1>1, Numbers
<1>4. ASSUME NEW c \in Cmds
      PROVE  AloneInv(c) /\ ToDo(c)' = ToDo(c) /\ cmd'[c] = cmd[c] /\ cmd[c].to \in Int /\ cmd[c].self \in Int
    BY <1>2, OneFacts DEF ToDo
<1>5. CASE Publish
    <2>1. UNCHANGED nodeVars /\ published' = published + 1  BY <1>5 DEF Publish
    <2>2. host' = host /\ images' = images /\ gw' = gw /\ ctl' = ctl  BY <2>1 DEF nodeVars
    <2>3. NodeInv'  BY <1>1, <1>3, <2>1, <2>2 DEF NodeInv, TagIsHonest, ConfigReadable
    <2>4. ASSUME NEW c \in Cmds PROVE AloneInv(c)'
        <3>1. AloneInv(c) /\ ToDo(c)' = ToDo(c) /\ cmd'[c] = cmd[c] /\ cmd[c].to \in Int /\ cmd[c].self \in Int  BY <1>4
        <3>2. GoesUp(c) => GoesUp(c)'  BY <1>3, <2>1, <2>2, <3>1 DEF GoesUp
        <3>3. Brings(c) => Brings(c)'  BY <2>2, <3>1 DEF Brings, Render
        <3> QED  BY <1>3, <2>1, <2>2, <3>1, <3>2, <3>3 DEF AloneInv, Planned
    <2> QED  BY <2>3, <2>4
<1>6. CASE ControllerStops \/ ControllerStarts
    <2>1. /\ host' = host /\ images' = images /\ gw' = gw /\ published' = published
          /\ ctl'.bin = ctl.bin /\ ctl'.config = ctl.config /\ ctl'.tag = ctl.tag
        BY <1>1, <1>6 DEF ControllerStops, ControllerStarts, Started, WorldOK
    <2>2. NodeInv'  BY <1>1, <2>1 DEF NodeInv, TagIsHonest, ConfigReadable
    <2>3. ASSUME NEW c \in Cmds PROVE AloneInv(c)'
        <3>1. AloneInv(c) /\ ToDo(c)' = ToDo(c) /\ cmd'[c] = cmd[c]  BY <1>4
        <3>2. GoesUp(c) => GoesUp(c)'  BY <2>1, <3>1 DEF GoesUp
        <3>3. Brings(c) => Brings(c)'  BY <2>1, <3>1 DEF Brings, Render
        <3> QED  BY <2>1, <3>1, <3>2, <3>3 DEF AloneInv, Planned
    <2> QED  BY <2>2, <2>3
<1>7. CASE GatewayLost
    <2>1. /\ host' = host /\ images' = images /\ ctl' = ctl /\ published' = published /\ gw'.at = "none"
          /\ \A c \in Cmds : cmd[c].pc \in {"idle", "done", "failed"}
        BY <1>1, <1>7 DEF GatewayLost, Ended, WorldOK
    <2>2. NodeInv'  BY <1>1, <2>1 DEF NodeInv, TagIsHonest, ConfigReadable
    <2>3. \A c \in Cmds : AloneInv(c)'  BY <1>2, <2>1 DEF AloneInv, Planned
    <2> QED  BY <2>2, <2>3
<1>8. ASSUME NEW v \in Releases, Prune(v) PROVE NodeInv' /\ \A c \in Cmds : AloneInv(c)'
    <2>1. /\ host' = host /\ gw' = gw /\ ctl' = ctl /\ published' = published /\ v # images.newest
          /\ images'.have = images.have \ {v} /\ images'.newest = images.newest
        BY <1>1, <1>8 DEF Prune, WorldOK
    <2>2. NodeInv'  BY <1>1, <2>1 DEF NodeInv, TagIsHonest, ConfigReadable
    <2>3. ASSUME NEW c \in Cmds PROVE AloneInv(c)'
        <3>1. AloneInv(c) /\ ToDo(c)' = ToDo(c) /\ cmd'[c] = cmd[c]  BY <1>4
        <3>2. GoesUp(c) => GoesUp(c)'  BY <2>1, <3>1 DEF GoesUp
        <3>3. Brings(c) => Brings(c)'  BY <2>1, <3>1 DEF Brings, Render
        <3> QED  BY <2>1, <3>1, <3>2, <3>3 DEF AloneInv, Planned
    <2> QED  BY <2>2, <2>3
<1> QED  BY <1>5, <1>6, <1>7, <1>8

\* At the start every piece is at release 1.
LEMMA OneInit == Init => OneInv
<1> SUFFICES ASSUME Init PROVE OneInv
    OBVIOUS
<1>1. UpdateInv  BY UpdateInit
<1>2. /\ host.bin = 1 /\ ctl.bin = 1 /\ ctl.tag = 1 /\ published = 1 /\ images.have = {1} /\ images.newest = 1
      /\ gw.release = 1 /\ ctl.config.format = Format[1] /\ (\A c \in Cmds : cmd[c].pc = "idle")
    BY DEF Init, Render
<1>3. Format[1] \in Int  BY UpdateAssumption DEF Releases
<1>4. NodeInv  BY <1>2, <1>3 DEF NodeInv, TagIsHonest, ConfigReadable
<1>5. \A c \in Cmds : AloneInv(c)  BY <1>2 DEF AloneInv, Planned
<1> QED  BY <1>1, <1>4, <1>5 DEF OneInv

\* A step of the whole system, one command at a time.
LEMMA OneNext ==
    ASSUME OneCommand, ~OldScripts, OneInv, [Next]_vars
    PROVE  OneInv'
<1>1. UpdateInv'
    <2>1. CASE UNCHANGED vars  BY <2>1, UpdateStutters DEF OneInv
    <2>2. CASE Next  BY <2>2, CommandKeeps, WorldKeeps DEF Next, OneInv
    <2> QED  BY <2>1, <2>2
<1>2. CASE UNCHANGED vars
    <2>1. NodeInv'  BY <1>2, NodeAlone DEF OneInv, vars
    <2>2. ASSUME NEW c \in Cmds PROVE AloneInv(c)'
        BY <1>2 DEF OneInv, AloneInv, GoesUp, Brings, ToDo, Planned, Render, vars, nodeVars
    <2> QED  BY <1>1, <2>1, <2>2 DEF OneInv
<1>3. ASSUME NEW c \in Cmds, CommandStep(c) PROVE OneInv'
    <2>1. NodeInv' /\ AloneInv(c)'  BY <1>3, OneCommandKeeps DEF Holds
    <2>2. \A d \in Cmds : d = c  BY DEF OneCommand
    <2> QED  BY <1>1, <2>1, <2>2 DEF OneInv
<1>4. CASE Publish \/ ControllerStops \/ ControllerStarts \/ GatewayLost \/ \E v \in Releases : Prune(v)
    BY <1>1, <1>4, OneWorldKeeps DEF OneInv
<1> QED  BY <1>2, <1>3, <1>4 DEF Next

\* The inductive invariant of commands that run one after another, from the install.sh of the newest release.
THEOREM OneInvHolds ==
    ASSUME OneCommand, ~OldScripts
    PROVE  Spec => []OneInv
<1>1. OneInv /\ [Next]_vars => OneInv'  BY OneNext
<1> QED  BY <1>1, OneInit, PTL DEF Spec

\* The release tag never promises more than there is: no piece of the node is older, wherever an update is or stopped,
\* so InstalledRelease can be trusted.
THEOREM TagStaysHonest ==
    ASSUME OneCommand, ~OldScripts
    PROVE  Spec => []TagIsHonest
<1>1. OneInv => TagIsHonest  BY DEF OneInv, NodeInv
<1> QED  BY <1>1, OneInvHolds, PTL

\* The controller's parcon can read its config file at any time, for any formats that don't go back.
THEOREM ConfigStaysReadable ==
    ASSUME OneCommand, ~OldScripts
    PROVE  Spec => []ConfigReadable
<1>1. OneInv => ConfigReadable  BY DEF OneInv, NodeInv
<1> QED  BY <1>1, OneInvHolds, PTL

\* An update that ends without an error has brought every piece to its release, wherever earlier ones stopped.
THEOREM UpdateInstallsAll ==
    ASSUME OneCommand, ~OldScripts
    PROVE  Spec => UpdateInstalls
<1> DEFINE Installs == \A c \in Cmds : Finishes(c) /\ cmd'[c].kind = "update" => AtItsRelease(c)'
<1>1. OneInv /\ [Next]_vars => [Installs]_vars
    <2> SUFFICES ASSUME OneInv, Next, NEW c \in Cmds, Finishes(c), cmd'[c].kind = "update"
                 PROVE  AtItsRelease(c)'
        OBVIOUS
    <2>1. cmd'[c] # cmd[c] /\ cmd'[c].pc = "done"  BY DEF Finishes
    <2>2. PICK d \in Cmds : CommandStep(d)  BY <2>1, WorldKeeps DEF Next, OneInv
    <2>3. d = c  BY DEF OneCommand
    <2>4. Holds(c)  BY <2>2, <2>3, OneCommandKeeps
    <2> QED  BY <2>1, <2>4 DEF Holds
<1>2. Spec => [][Installs]_vars  BY <1>1, OneInvHolds, PTL DEF Spec
<1> QED  BY <1>2 DEF UpdateInstalls
=============================================================================
