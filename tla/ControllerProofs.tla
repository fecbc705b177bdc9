-------------------------- MODULE ControllerProofs --------------------------
(***************************************************************************)
(* Proofs that IndInv is an invariant of the controller, and of what       *)
(* follows from it, for any VMID range, scale sets and bounds.             *)
(***************************************************************************)
EXTENDS ControllerProps, TLAPS

-----------------------------------------------------------------------------
(* Types of the records the actions build *)

\* What RangeAssumption says, in the form the leaves use.
LEMMA Constants == "" \notin ScaleSets /\ 0 \notin TemplateIDs /\ WorkerIDs \cap TemplateIDs = {}
BY RangeAssumption DEF RangeAssumption

\* What BoundAssumption says of the bounds.
LEMMA Bounds == MaxCreated \in Nat /\ MaxFaults \in Nat /\ MaxVersion \in Nat /\ MaxVersion > 0
BY BoundAssumption DEF BoundAssumption

\* A creation time handed out next stays in range.
LEMMA NextTime ==
  ASSUME NEW a \in 0..MaxCreated, NEW b \in {a, a + 1}, b <= MaxCreated
  PROVE  a \in Nat /\ b \in 0..MaxCreated /\ b >= a
BY Bounds

\* Creation times handed out so far are creation times.
LEMMA TimesRange ==
  ASSUME NEW a \in 0..MaxCreated
  PROVE  1..a \subseteq Stamps
BY Bounds DEF Stamps

\* The absence of an operation is a value of Op.
LEMMA NoOpType == NoOp \in Op
BY DEF NoOp, Op, Steps, Name

\* The absence of a VM is a value of VM.
LEMMA NoVMType == NoVM \in VM
BY DEF NoVM, VM, Name

\* An operation stays well-typed when it moves to another call.
LEMMA AtType ==
  ASSUME NEW o \in Op, NEW step \in Steps
  PROVE  [o EXCEPT !.at = step] \in Op
BY DEF Op

\* Setting the operation on one VMID leaves the others.
LEMMA OpUpdate ==
  ASSUME op \in [VMIDs -> Op], NEW id \in VMIDs, NEW o \in Op, op' = [op EXCEPT ![id] = o]
  PROVE  op' \in [VMIDs -> Op] /\ op'[id] = o /\ \A u \in VMIDs \ {id} : op'[u] = op[u]
OBVIOUS

\* Setting the VM of one VMID leaves the others.
LEMMA VMUpdate ==
  ASSUME vm \in [WorkerIDs -> VM], NEW v \in WorkerIDs, NEW m \in VM, vm' = [vm EXCEPT ![v] = m]
  PROVE  vm' \in [WorkerIDs -> VM] /\ vm'[v] = m /\ \A u \in WorkerIDs \ {v} : vm'[u] = vm[u]
OBVIOUS

-----------------------------------------------------------------------------
(* Framing *)

\* What a step does to GitHub's runners under the names R that others rely on: nobody registers there.
Kept(r) == /\ runner[r] = "new" => runner'[r] = "new"
           /\ runner[r] \notin {"idle", "job"} => runner'[r] \notin {"idle", "job"}

\* The pass still has its listing of v, or is over.
SeenKept(v) == \/ seen'[v] = seen[v] /\ (v \in used => v \in used')
               \/ seen'[v].kind = "none" /\ seen'[v].stamp = 0

\* A VMID whose VM, operation and listing a step leaves alone keeps its part of the invariant, as long as its names
\* keep what they have in GitHub.
LEMMA FrameWorker ==
  ASSUME NEW v \in WorkerIDs, WorkerInv(v),
         vm'[v] = vm[v], op'[v] = op[v], SeenKept(v),
         shown'[v] # shown[v] => vm[v].kind # "none" /\ (vm[v].kind = "clone" => shown'[v] # "running"),
         \A r \in Times(v) : Kept(r),
         expired \subseteq expired'
  PROVE  WorkerInv(v)'
<1>1. OpShape(v)'
  BY DEF WorkerInv, OpShape
<1>2. VMShape(v)'
  BY DEF WorkerInv, VMShape, Times, Kept
<1>3. CreateShape(v)'
  <2>1. op[v].kind = "create" /\ op[v].at = "clone" => op[v].stamp # 0
    BY DEF WorkerInv, OpShape
  <2> QED BY <2>1 DEF WorkerInv, CreateShape, Times, Kept
<1>4. SeenShape(v)'
  BY DEF WorkerInv, SeenShape, SeenKept
<1>5. RetireShape(v)'
  <2>1. op[v].kind = "retire" /\ ~op[v].force => op[v].name # 0
    BY DEF WorkerInv, OpShape
  <2> QED BY <2>1 DEF WorkerInv, RetireShape, Times, Kept
<1> QED BY <1>1, <1>2, <1>3, <1>4, <1>5 DEF WorkerInv

\* A step of the operation on VMID v: it changes that VMID's operation and VM, only runners connected with it, and
\* takes at most the next creation time. Then only v's part of the invariant is left to prove.
LEMMA WorkerStep ==
  ASSUME IndInv, NEW v \in WorkerIDs,
         NEW o \in Op, op' = [op EXCEPT ![v] = o],
         NEW m \in VM, vm' = [vm EXCEPT ![v] = m],
         shown' \in [WorkerIDs -> Status], \A u \in WorkerIDs \ {v} : shown'[u] = shown[u],
         runner' \in [Stamps -> RunnerState], \A r \in Stamps \ Times(v) : runner'[r] = runner[r],
         created' \in {created, created + 1}, created' <= MaxCreated,
         {m.stamp, o.stamp, o.name} \ {0} \subseteq Times(v) \cup ({created'} \ {created}),
         foreign' \subseteq WorkerIDs, jobs' \subseteq Stamps, backoff' \subseteq ScaleSets,
         faults' \in 0..MaxFaults,
         UNCHANGED <<reserved, expired, proc, configured, known, desired, passVars>>,
         WorkerInv(v)'
  PROVE  IndInv'
<1> v \in VMIDs /\ \A t \in TemplateIDs : t \in VMIDs /\ t # v
  BY Constants DEF VMIDs
<1>1. op' \in [VMIDs -> Op] /\ op'[v] = o /\ \A u \in VMIDs \ {v} : op'[u] = op[u]
  BY OpUpdate DEF IndInv, TypeOK
<1>2. vm' \in [WorkerIDs -> VM] /\ vm'[v] = m /\ \A u \in WorkerIDs \ {v} : vm'[u] = vm[u]
  BY VMUpdate DEF IndInv, TypeOK, PoolTypeOK
<1>3. created \in Nat /\ created' \in 0..MaxCreated /\ created' >= created /\ created \in 0..MaxCreated
  <2>1. created \in 0..MaxCreated
    BY DEF IndInv, TypeOK
  <2> QED BY <2>1, NextTime
<1>4. TypeOK'
  BY <1>1, <1>2, <1>3 DEF IndInv, TypeOK, PoolTypeOK, passVars
<1>5. \A u \in WorkerIDs \ {v} : Times(u)' = Times(u)
  BY <1>1, <1>2 DEF Times, VMIDs, passVars
<1>6. Times(v)' \subseteq Times(v) \cup ({created'} \ {created})
  BY <1>1, <1>2 DEF Times, passVars
<1>7. TimesApart'
  <2>1. \A u \in WorkerIDs : Times(u) \subseteq 1..created
    BY DEF IndInv, TimesApart
  <2>2. \A u \in WorkerIDs : Times(u)' \subseteq 1..created'
    BY <1>3, <1>5, <1>6, <2>1
  <2>3. \A u \in WorkerIDs \ {v} : Times(u)' \cap Times(v)' = {}
    BY <1>3, <1>5, <1>6, <2>1 DEF IndInv, TimesApart
  <2>4. \A u, w \in WorkerIDs \ {v} : u # w => Times(u)' \cap Times(w)' = {}
    BY <1>5 DEF IndInv, TimesApart
  <2>5. \A r \in Stamps : r > created' => runner'[r] = "new"
    <3>1. \A r \in Stamps : r > created => runner[r] = "new"
      BY DEF IndInv, TimesApart
    <3>2. \A r \in Stamps : r > created' => r > created /\ r \notin Times(v)
      BY <1>3, <2>1, Bounds DEF Stamps
    <3> QED BY <3>1, <3>2
  <2> QED BY <2>2, <2>3, <2>4, <2>5 DEF TimesApart
<1>8. ASSUME NEW u \in WorkerIDs PROVE WorkerInv(u)'
  <2>1. CASE u = v
    BY <2>1
  <2>2. CASE u # v
    <3>1. \A r \in Times(u) : r \in Stamps /\ r \notin Times(v)
      <4>1. Times(u) \subseteq 1..created /\ Times(u) \cap Times(v) = {}
        BY <2>2 DEF IndInv, TimesApart
      <4> QED BY <4>1, <1>3, TimesRange
    <3>2. \A r \in Times(u) : Kept(r)
      BY <3>1 DEF Kept
    <3>3. WorkerInv(u) /\ op'[u] = op[u] /\ vm'[u] = vm[u] /\ seen'[u] = seen[u] /\ used' = used
      BY <2>2, <1>1, <1>2 DEF IndInv, VMIDs, passVars
    <3> QED BY <2>2, <3>2, <3>3, FrameWorker DEF SeenKept
  <2> QED BY <2>1, <2>2
<1>9. \A t \in TemplateIDs : TemplateInv(t)'
  BY <1>1 DEF IndInv, TemplateInv
<1>10. PassShape'
  BY DEF IndInv, PassShape, passVars
<1> QED BY <1>4, <1>7, <1>8, <1>9, <1>10 DEF IndInv

-----------------------------------------------------------------------------
(* The steps an operation takes, seen from its own VMID *)

\* The parts of the type invariant that a step on VMID v needs.
LEMMA Basics ==
  ASSUME IndInv, NEW v \in WorkerIDs
  PROVE  /\ v \in VMIDs /\ op[v] \in Op /\ vm[v] \in VM /\ WorkerInv(v)
         /\ vm = [vm EXCEPT ![v] = vm[v]]
         /\ shown \in [WorkerIDs -> Status] /\ runner \in [Stamps -> RunnerState]
         /\ foreign \subseteq WorkerIDs /\ jobs \subseteq Stamps /\ backoff \subseteq ScaleSets
         /\ created \in 0..MaxCreated /\ faults \in 0..MaxFaults
<1>1. v \in VMIDs
  BY DEF VMIDs
<1>2. TypeOK /\ PoolTypeOK
  BY DEF IndInv, TypeOK
<1>3. op[v] \in Op
  BY <1>1, <1>2 DEF TypeOK
<1>4. vm[v] \in VM /\ vm = [vm EXCEPT ![v] = vm[v]]
  BY <1>2 DEF PoolTypeOK
<1> QED BY <1>1, <1>2, <1>3, <1>4 DEF IndInv, TypeOK, PoolTypeOK

\* Changing one operation.
LEMMA OneOp ==
  ASSUME IndInv, NEW v \in WorkerIDs, NEW o, op' = [op EXCEPT ![v] = o]
  PROVE  op'[v] = o /\ \A u \in WorkerIDs \ {v} : op'[u] = op[u]
<1>1. op \in [VMIDs -> Op] /\ WorkerIDs \subseteq VMIDs  BY DEF IndInv, TypeOK, VMIDs
<1> QED  BY <1>1

\* Changing one VM.
LEMMA OneVM ==
  ASSUME IndInv, NEW v \in WorkerIDs, NEW m, vm' = [vm EXCEPT ![v] = m]
  PROVE  vm'[v] = m /\ \A u \in WorkerIDs \ {v} : vm'[u] = vm[u]
<1>1. vm \in [WorkerIDs -> VM]  BY DEF IndInv, TypeOK, PoolTypeOK
<1> QED  BY <1>1

\* The fault counter stays within its bound.
LEMMA FaultCount ==
  ASSUME faults \in 0..MaxFaults, Fault \/ UNCHANGED faults
  PROVE  faults' \in 0..MaxFaults
BY Bounds DEF Fault

\* So does it over a call that works or fails.
LEMMA CallCount ==
  ASSUME faults \in 0..MaxFaults, CallWorks \/ CallFails
  PROVE  faults' \in 0..MaxFaults
BY FaultCount DEF CallWorks, CallFails

\* The operation is over. Its VM stays as it is, stays a worker or is gone.
LEMMA Ended ==
  ASSUME NEW v \in WorkerIDs, WorkerInv(v), op'[v] = NoOp, SeenKept(v),
         \/ vm'[v] = vm[v] /\ shown'[v] = shown[v]
         \/ vm'[v] = NoVM /\ shown'[v] = "unknown"
         \/ vm[v].kind = "worker" /\ vm'[v].kind = "worker" /\ vm'[v].stamp = vm[v].stamp,
         \A r \in Times(v) : Kept(r)
  PROVE  WorkerInv(v)'
<1>1. NoOp.kind = "none" /\ NoOp.at = "none" /\ NoOp.stamp = 0 /\ NoOp.name = 0
  BY DEF NoOp
<1>2. NoVM.kind = "none" /\ NoVM.stamp = 0 /\ ~NoVM.on
  BY DEF NoVM
<1>3. OpShape(v)' /\ CreateShape(v)' /\ RetireShape(v)'
  BY <1>1 DEF OpShape, CreateShape, RetireShape
<1>4. VMShape(v)'
  BY <1>2 DEF WorkerInv, VMShape, Times, Kept
<1>5. SeenShape(v)'
  BY <1>1, <1>2 DEF WorkerInv, SeenShape, SeenKept
<1> QED BY <1>3, <1>4, <1>5 DEF WorkerInv

\* A creation past its clone takes a step, or turns to cleaning up.
LEMMA CreationGoes ==
  ASSUME NEW v \in WorkerIDs, WorkerInv(v), seen'[v] = seen[v], used' = used, shown'[v] = shown[v],
         op[v].kind = "create", op[v].at \in {"configure", "register", "start", "signal", "mark"},
         op'[v].kind = "create", op'[v].ss = op[v].ss, op'[v].tpl = op[v].tpl, op'[v].stamp = op[v].stamp,
         op'[v].name \in {op[v].name, op[v].stamp},
         (op'[v].at \in {"register", "start", "signal", "mark"} /\ vm'[v].kind = "worker") \/ op'[v].at = "stop",
         vm'[v].stamp = vm[v].stamp,
         \/ vm[v].kind # "none" /\ vm'[v].kind = "worker"
         \/ vm'[v] = vm[v] /\ \A r \in Times(v) : Kept(r)
  PROVE  WorkerInv(v)'
<1>1. /\ op[v].ss \in ScaleSets /\ op[v].tpl \in TemplateIDs
      /\ op[v].stamp # 0 /\ op[v].name \in {0, op[v].stamp}
  BY DEF WorkerInv, OpShape
<1>2. vm[v].kind # "none" => vm[v].stamp = op[v].stamp
  BY DEF WorkerInv, CreateShape
<1>3. OpShape(v)'
  BY <1>1 DEF OpShape
<1>4. VMShape(v)'
  BY <1>1, <1>2 DEF WorkerInv, VMShape, Times, Kept
<1>5. CreateShape(v)'
  BY <1>2 DEF CreateShape
<1>6. SeenShape(v)'
  BY <1>2 DEF WorkerInv, SeenShape
<1>7. RetireShape(v)'
  BY DEF RetireShape
<1> QED BY <1>3, <1>4, <1>5, <1>6, <1>7 DEF WorkerInv

\* The same, for the whole invariant.
LEMMA EndStep ==
  ASSUME IndInv, NEW v \in WorkerIDs, NEW failed \in BOOLEAN, EndOp(v, failed),
         NEW m \in VM, vm' = [vm EXCEPT ![v] = m],
         \/ m = vm[v] /\ shown' = shown
         \/ m = NoVM /\ shown'[v] = "unknown"
         \/ vm[v].kind = "worker" /\ m.kind = "worker" /\ m.stamp = vm[v].stamp,
         shown' \in [WorkerIDs -> Status], \A u \in WorkerIDs \ {v} : shown'[u] = shown[u],
         runner' \in [Stamps -> RunnerState], \A r \in Stamps \ Times(v) : runner'[r] = runner[r],
         \A r \in Times(v) : Kept(r),
         foreign' \subseteq WorkerIDs, jobs' \subseteq Stamps, faults' \in 0..MaxFaults,
         UNCHANGED <<reserved, expired, proc, configured, known, desired, passVars, created>>
  PROVE  IndInv'
<1>1. /\ v \in VMIDs /\ WorkerInv(v) /\ backoff \subseteq ScaleSets /\ created \in 0..MaxCreated
      /\ vm \in [WorkerIDs -> VM] /\ op \in [VMIDs -> Op]
  BY Basics DEF IndInv, TypeOK, PoolTypeOK
<1>2. op' = [op EXCEPT ![v] = NoOp] /\ op'[v] = NoOp /\ vm'[v] = m
  BY <1>1 DEF EndOp
<1>3. backoff' \subseteq ScaleSets
  <2>1. op[v].kind = "create" => op[v].ss \in ScaleSets
    BY <1>1 DEF WorkerInv, OpShape
  <2> QED BY <1>1, <2>1 DEF EndOp
<1>4. WorkerInv(v)'
  BY <1>1, <1>2, Ended DEF passVars, SeenKept
<1>5. {m.stamp, NoOp.stamp, NoOp.name} \ {0} \subseteq Times(v) \cup ({created'} \ {created})
  <2>1. NoOp.stamp = 0 /\ NoOp.name = 0 /\ NoVM.stamp = 0
    BY DEF NoOp, NoVM
  <2> QED BY <2>1 DEF Times
<1>6. created' \in {created, created + 1} /\ created' <= MaxCreated
  BY <1>1, Bounds
<1> QED BY <1>2, <1>3, <1>4, <1>5, <1>6, NoOpType, WorkerStep

\* A step of create after its clone keeps the invariant when it leaves its name, scale set and template alone and
\* goes on with a worker, or gives up.
LEMMA CreateStep ==
  ASSUME IndInv, NEW v \in WorkerIDs,
         op[v].kind = "create", op[v].at \in {"configure", "register", "start", "signal", "mark"},
         NEW o \in Op, op' = [op EXCEPT ![v] = o],
         o.kind = "create", o.ss = op[v].ss, o.tpl = op[v].tpl, o.stamp = op[v].stamp,
         o.name \in {op[v].name, op[v].stamp},
         NEW m \in VM, vm' = [vm EXCEPT ![v] = m],
         (o.at \in {"register", "start", "signal", "mark"} /\ m.kind = "worker") \/ o.at = "stop",
         m.stamp = vm[v].stamp,
         (vm[v].kind # "none" /\ m.kind = "worker") \/ (m = vm[v] /\ \A r \in Times(v) : Kept(r)),
         runner' \in [Stamps -> RunnerState], \A r \in Stamps \ Times(v) : runner'[r] = runner[r],
         faults' \in 0..MaxFaults,
         UNCHANGED <<shown, reserved, expired, proc, configured, foreign, known, desired, jobs, backoff, passVars,
                     created>>
  PROVE  IndInv'
<1>1. /\ v \in VMIDs /\ WorkerInv(v) /\ backoff \subseteq ScaleSets /\ created \in 0..MaxCreated
      /\ foreign \subseteq WorkerIDs /\ jobs \subseteq Stamps /\ shown \in [WorkerIDs -> Status]
      /\ vm \in [WorkerIDs -> VM] /\ op \in [VMIDs -> Op]
  BY Basics DEF IndInv, TypeOK, PoolTypeOK
<1>2. op'[v] = o /\ vm'[v] = m
  BY <1>1
<1>3. WorkerInv(v)'
  BY <1>1, <1>2, CreationGoes DEF passVars
<1>4. {m.stamp, o.stamp, o.name} \ {0} \subseteq Times(v) \cup ({created'} \ {created})
  BY DEF Times
<1>5. created' \in {created, created + 1} /\ created' <= MaxCreated
  BY <1>1, Bounds
<1> QED BY <1>1, <1>3, <1>4, <1>5, WorkerStep

\* The operation record after GoOn and after CleanUp.
LEMMA GoOnOp ==
  ASSUME NEW o \in Op, NEW step \in Steps, NEW x, x = [o EXCEPT !.at = step]
  PROVE  /\ x \in Op /\ x.kind = o.kind /\ x.ss = o.ss /\ x.tpl = o.tpl /\ x.stamp = o.stamp /\ x.name = o.name
         /\ x.force = o.force /\ x.run = o.run /\ x.at = step
BY DEF Op

\* The operation that CleanUp leaves.
LEMMA CleanUpOp ==
  ASSUME NEW o \in Op, NEW x, x = [o EXCEPT !.at = "stop", !.force = TRUE, !.run = TRUE]
  PROVE  /\ x \in Op /\ x.kind = o.kind /\ x.ss = o.ss /\ x.tpl = o.tpl /\ x.stamp = o.stamp /\ x.name = o.name
         /\ x.at = "stop"
BY DEF Op, Steps

\* Changing one field of a VM.
LEMMA VMFields ==
  ASSUME NEW m \in VM, NEW b \in BOOLEAN
  PROVE  /\ [m EXCEPT !.on = b] \in VM /\ [m EXCEPT !.jit = b] \in VM /\ [m EXCEPT !.ready = b] \in VM
         /\ \A x \in {[m EXCEPT !.on = b], [m EXCEPT !.jit = b], [m EXCEPT !.ready = b]} :
                x.kind = m.kind /\ x.stamp = m.stamp
BY DEF VM

\* A tagged clone is well-typed.
LEMMA TaggedVM ==
  ASSUME NEW m \in VM, NEW s \in ScaleSets
  PROVE  [m EXCEPT !.kind = "worker", !.ss = s] \in VM
BY DEF VM

\* The steps of create after the clone, one by one.
LEMMA CleanUpStep ==
  ASSUME IndInv, NEW v \in WorkerIDs, CleanUp(v),
         op[v].kind = "create", op[v].at \in {"configure", "register", "start", "signal", "mark"},
         NEW m \in VM, vm' = [vm EXCEPT ![v] = m],
         m.stamp = vm[v].stamp,
         (vm[v].kind # "none" /\ m.kind = "worker") \/ (m = vm[v] /\ \A r \in Times(v) : Kept(r)),
         runner' \in [Stamps -> RunnerState], \A r \in Stamps \ Times(v) : runner'[r] = runner[r],
         faults' \in 0..MaxFaults,
         UNCHANGED <<shown, reserved, expired, proc, configured, foreign, known, desired, jobs, passVars, created>>
  PROVE  IndInv'
<1> DEFINE o == [op[v] EXCEPT !.at = "stop", !.force = TRUE, !.run = TRUE]
<1>1. op[v] \in Op
  BY Basics
<1>2. o \in Op /\ o.kind = "create" /\ o.ss = op[v].ss /\ o.tpl = op[v].tpl /\ o.stamp = op[v].stamp
      /\ o.name = op[v].name /\ o.at = "stop"
  BY <1>1, CleanUpOp
<1>3. op' = [op EXCEPT ![v] = o] /\ UNCHANGED backoff
  BY DEF CleanUp
<1> HIDE DEF o
<1> QED BY <1>2, <1>3, CreateStep

\* A step of create that worked.
LEMMA GoOnStep ==
  ASSUME IndInv, NEW v \in WorkerIDs, NEW step \in {"register", "start", "signal", "mark"}, GoOn(v, step),
         op[v].kind = "create", op[v].at \in {"configure", "register", "start", "signal", "mark"},
         NEW m \in VM, vm' = [vm EXCEPT ![v] = m],
         m.stamp = vm[v].stamp, m.kind = "worker", vm[v].kind # "none",
         faults' \in 0..MaxFaults,
         UNCHANGED <<shown, reserved, runner, expired, proc, configured, foreign, known, desired, jobs, passVars,
                     created>>
  PROVE  IndInv'
<1> DEFINE o == [op[v] EXCEPT !.at = step]
<1>1. op[v] \in Op /\ step \in Steps /\ runner \in [Stamps -> RunnerState]
  BY Basics DEF Steps
<1>2. o \in Op /\ o.kind = "create" /\ o.ss = op[v].ss /\ o.tpl = op[v].tpl /\ o.stamp = op[v].stamp
      /\ o.name = op[v].name /\ o.at = step
  BY <1>1, GoOnOp
<1>3. op' = [op EXCEPT ![v] = o] /\ UNCHANGED backoff
  BY DEF GoOn
<1> HIDE DEF o
<1> QED BY <1>1, <1>2, <1>3, CreateStep

\* Configure keeps the invariant (create: SetConfig and GrowDisk).
LEMMA ConfigureInv ==
  ASSUME IndInv, NEW v \in WorkerIDs, Configure(v)
  PROVE  IndInv'
<1> DEFINE m == [vm[v] EXCEPT !.kind = "worker", !.ss = op[v].ss]
<1>1. /\ vm[v] \in VM /\ WorkerInv(v) /\ vm = [vm EXCEPT ![v] = vm[v]] /\ runner \in [Stamps -> RunnerState]
      /\ faults' \in 0..MaxFaults
  BY Basics, CallCount DEF Configure
<1>2. op[v].ss \in ScaleSets
  BY <1>1 DEF WorkerInv, OpShape, Configure
<1>3. m \in VM /\ m.kind = "worker" /\ m.stamp = vm[v].stamp
  <2>1. [vm[v] EXCEPT !.kind = "worker", !.ss = op[v].ss] \in VM
    BY <1>1, <1>2, TaggedVM
  <2>2. m.kind = "worker" /\ m.stamp = vm[v].stamp
    BY <1>1 DEF VM
  <2> QED BY <2>1, <2>2
<1>4. Tagged(v, op[v].ss) => vm' = [vm EXCEPT ![v] = m]
  BY DEF Tagged
<1> HIDE DEF m
<1>5. CASE vm[v].kind # "none" /\ GoOn(v, After.configure) /\ Tagged(v, op[v].ss)
  BY <1>1, <1>3, <1>4, <1>5, GoOnStep DEF Configure, After
<1>6. CASE CleanUp(v) /\ UNCHANGED vm
  BY <1>1, <1>6, CleanUpStep DEF Configure, Kept
<1>7. CASE vm[v].kind # "none" /\ CleanUp(v) /\ Tagged(v, op[v].ss)
  BY <1>1, <1>3, <1>4, <1>7, CleanUpStep DEF Configure
<1> QED BY <1>5, <1>6, <1>7 DEF Configure

\* The operation that Register leaves.
LEMMA RegisteredOp ==
  ASSUME NEW o \in Op, NEW x, x = [o EXCEPT !.at = "start", !.name = o.stamp]
  PROVE  /\ x \in Op /\ x.kind = o.kind /\ x.ss = o.ss /\ x.tpl = o.tpl /\ x.stamp = o.stamp /\ x.name = o.stamp
         /\ x.at = "start"
BY DEF Op, Steps

\* Register keeps it (create: GenerateJITConfig): the VM is already a tagged worker.
LEMMA RegisterInv ==
  ASSUME IndInv, NEW v \in WorkerIDs, Register(v)
  PROVE  IndInv'
<1>1. /\ op[v] \in Op /\ vm[v] \in VM /\ WorkerInv(v) /\ vm' = [vm EXCEPT ![v] = vm[v]]
      /\ runner \in [Stamps -> RunnerState] /\ faults' \in 0..MaxFaults
  BY Basics, CallCount DEF Register
<1>2. vm[v].kind = "worker" /\ op[v].stamp # 0
  BY <1>1 DEF WorkerInv, CreateShape, OpShape, Register
<1>3. op[v].stamp \in Times(v)
  BY <1>2 DEF Times
<1>4. ASSUME runner' = [runner EXCEPT ![op[v].stamp] = "idle"]
      PROVE  runner' \in [Stamps -> RunnerState] /\ \A r \in Stamps \ Times(v) : runner'[r] = runner[r]
  BY <1>1, <1>3, <1>4 DEF RunnerState
<1>5. CASE CallWorks /\ runner' = [runner EXCEPT ![op[v].stamp] = "idle"]
           /\ op' = [op EXCEPT ![v] = [@ EXCEPT !.at = After.register, !.name = op[v].stamp]] /\ UNCHANGED backoff
  <2> DEFINE o == [op[v] EXCEPT !.at = "start", !.name = op[v].stamp]
  <2>1. o \in Op /\ o.kind = op[v].kind /\ o.ss = op[v].ss /\ o.tpl = op[v].tpl /\ o.stamp = op[v].stamp
        /\ o.name = op[v].stamp /\ o.at = "start"
    BY <1>1, RegisteredOp
  <2>2. op' = [op EXCEPT ![v] = o]
    BY <1>5 DEF After
  <2> HIDE DEF o
  <2>3. /\ op[v].kind = "create" /\ op[v].at = "register"
        /\ UNCHANGED <<shown, reserved, expired, proc, configured, foreign, known, desired, jobs, backoff, passVars,
                       created>>
    BY <1>5 DEF Register
  <2>4. runner' \in [Stamps -> RunnerState] /\ \A r \in Stamps \ Times(v) : runner'[r] = runner[r]
    BY <1>4, <1>5
  <2> QED BY <1>1, <1>2, <2>1, <2>2, <2>3, <2>4, CreateStep
<1>6. CASE CleanUp(v) /\ UNCHANGED runner
  BY <1>1, <1>2, <1>6, CleanUpStep DEF Register
<1>7. CASE CleanUp(v) /\ runner' = [runner EXCEPT ![op[v].stamp] = "idle"]
  BY <1>1, <1>2, <1>4, <1>7, CleanUpStep DEF Register
<1> QED BY <1>5, <1>6, <1>7 DEF Register

\* StartVM keeps it (create: Start).
LEMMA StartVMInv ==
  ASSUME IndInv, NEW v \in WorkerIDs, StartVM(v)
  PROVE  IndInv'
<1> DEFINE m == [vm[v] EXCEPT !.on = TRUE]
<1>1. /\ vm[v] \in VM /\ WorkerInv(v) /\ vm = [vm EXCEPT ![v] = vm[v]] /\ runner \in [Stamps -> RunnerState]
      /\ faults' \in 0..MaxFaults
  BY Basics, CallCount DEF StartVM
<1>2. vm[v].kind = "worker"
  BY <1>1 DEF WorkerInv, CreateShape, StartVM
<1>3. m \in VM /\ m.kind = "worker" /\ m.stamp = vm[v].stamp
  BY <1>1, <1>2, VMFields
<1>4. vm' = [vm EXCEPT ![v] = [@ EXCEPT !.on = TRUE]] => vm' = [vm EXCEPT ![v] = m]
  OBVIOUS
<1> HIDE DEF m
<1>5. CASE GoOn(v, After.start) /\ vm' = [vm EXCEPT ![v] = [@ EXCEPT !.on = TRUE]]
  BY <1>1, <1>2, <1>3, <1>4, <1>5, GoOnStep DEF StartVM, After
<1>6. CASE CleanUp(v) /\ UNCHANGED vm
  BY <1>1, <1>2, <1>6, CleanUpStep DEF StartVM
<1>7. CASE CleanUp(v) /\ vm' = [vm EXCEPT ![v] = [@ EXCEPT !.on = TRUE]]
  BY <1>1, <1>2, <1>3, <1>4, <1>7, CleanUpStep DEF StartVM
<1> QED BY <1>5, <1>6, <1>7 DEF StartVM

\* Signal keeps it (create: waitForAgent and the two file writes).
LEMMA SignalInv ==
  ASSUME IndInv, NEW v \in WorkerIDs, Signal(v)
  PROVE  IndInv'
<1> DEFINE m == [vm[v] EXCEPT !.jit = TRUE]
<1>1. /\ vm[v] \in VM /\ WorkerInv(v) /\ vm = [vm EXCEPT ![v] = vm[v]] /\ runner \in [Stamps -> RunnerState]
      /\ faults' \in 0..MaxFaults
  BY Basics, CallCount DEF Signal
<1>2. vm[v].kind = "worker"
  BY <1>1 DEF WorkerInv, CreateShape, Signal
<1>3. m \in VM /\ m.kind = "worker" /\ m.stamp = vm[v].stamp
  BY <1>1, <1>2, VMFields
<1>4. vm' = [vm EXCEPT ![v] = [@ EXCEPT !.jit = TRUE]] => vm' = [vm EXCEPT ![v] = m]
  OBVIOUS
<1> HIDE DEF m
<1>5. CASE GoOn(v, After.signal) /\ vm' = [vm EXCEPT ![v] = [@ EXCEPT !.jit = TRUE]]
  BY <1>1, <1>2, <1>3, <1>4, <1>5, GoOnStep DEF Signal, After
<1>6. CASE CleanUp(v) /\ UNCHANGED vm
  BY <1>1, <1>2, <1>6, CleanUpStep DEF Signal
<1>7. CASE CleanUp(v) /\ vm' = [vm EXCEPT ![v] = [@ EXCEPT !.jit = TRUE]]
  BY <1>1, <1>2, <1>3, <1>4, <1>7, CleanUpStep DEF Signal
<1> QED BY <1>5, <1>6, <1>7 DEF Signal

\* Mark keeps it (create: the ready tag).
LEMMA MarkInv ==
  ASSUME IndInv, NEW v \in WorkerIDs, Mark(v)
  PROVE  IndInv'
<1> DEFINE m == [vm[v] EXCEPT !.ready = TRUE]
<1>1. /\ vm[v] \in VM /\ WorkerInv(v) /\ vm = [vm EXCEPT ![v] = vm[v]] /\ runner \in [Stamps -> RunnerState]
      /\ shown \in [WorkerIDs -> Status] /\ foreign \subseteq WorkerIDs /\ jobs \subseteq Stamps
      /\ faults' \in 0..MaxFaults
  BY Basics, CallCount DEF Mark
<1>2. vm[v].kind = "worker"
  BY <1>1 DEF WorkerInv, CreateShape, Mark
<1>3. m \in VM /\ m.kind = "worker" /\ m.stamp = vm[v].stamp
  BY <1>1, <1>2, VMFields
<1>4. vm' = [vm EXCEPT ![v] = [@ EXCEPT !.ready = TRUE]] => vm' = [vm EXCEPT ![v] = m]
  OBVIOUS
<1> HIDE DEF m
<1>5. CASE EndOp(v, FALSE) /\ vm' = [vm EXCEPT ![v] = [@ EXCEPT !.ready = TRUE]]
  BY <1>1, <1>2, <1>3, <1>4, <1>5, EndStep DEF Mark, Kept
<1>6. CASE CleanUp(v) /\ UNCHANGED vm
  BY <1>1, <1>2, <1>6, CleanUpStep DEF Mark
<1>7. CASE CleanUp(v) /\ vm' = [vm EXCEPT ![v] = [@ EXCEPT !.ready = TRUE]]
  BY <1>1, <1>2, <1>3, <1>4, <1>7, CleanUpStep DEF Mark
<1> QED BY <1>5, <1>6, <1>7 DEF Mark

\* The clone itself: a new VM with the creation's own time, which nothing else is connected with.
LEMMA CloneWorks ==
  ASSUME IndInv, NEW v \in WorkerIDs, Clone(v), ~Taken(v), Cloned(v, op[v].stamp, op[v].tpl), UNCHANGED foreign,
         GoOn(v, After.clone) \/ EndOp(v, TRUE)
  PROVE  IndInv'
<1> DEFINE m == [NoVM EXCEPT !.kind = "clone", !.stamp = op[v].stamp, !.tpl = op[v].tpl]
<1> DEFINE o == IF GoOn(v, After.clone) THEN [op[v] EXCEPT !.at = "configure"] ELSE NoOp
<1>1. /\ v \in VMIDs /\ op[v] \in Op /\ vm[v] \in VM /\ WorkerInv(v) /\ shown \in [WorkerIDs -> Status]
      /\ runner \in [Stamps -> RunnerState] /\ jobs \subseteq Stamps /\ foreign \subseteq WorkerIDs
      /\ backoff \subseteq ScaleSets /\ created \in 0..MaxCreated /\ faults' \in 0..MaxFaults
      /\ vm \in [WorkerIDs -> VM] /\ op \in [VMIDs -> Op]
  BY Basics, CallCount DEF Clone, IndInv, TypeOK, PoolTypeOK
<1>2. /\ op[v].ss \in ScaleSets /\ op[v].tpl \in TemplateIDs /\ op[v].stamp # 0
      /\ op[v].name \in {0, op[v].stamp} /\ runner[op[v].stamp] = "new"
  BY <1>1 DEF Clone, WorkerInv, OpShape, CreateShape
<1>3. m \in VM /\ m.kind = "clone" /\ m.stamp = op[v].stamp /\ ~m.on
  <2>1. op[v].stamp \in Name /\ op[v].tpl \in TemplateIDs \cup {0}
    BY <1>1 DEF Op
  <2> QED BY <2>1 DEF VM, NoVM, Name
<1>4. vm' = [vm EXCEPT ![v] = m]
  BY DEF Cloned
<1>5. /\ o \in Op /\ op' = [op EXCEPT ![v] = o]
      /\ \/ o = NoOp
         \/ /\ o.kind = "create" /\ o.ss = op[v].ss /\ o.tpl = op[v].tpl /\ o.stamp = op[v].stamp
            /\ o.name = op[v].name /\ o.at = "configure"
  <2>1. CASE GoOn(v, After.clone)
    <3>1. "configure" \in Steps /\ o = [op[v] EXCEPT !.at = "configure"]
      BY <2>1 DEF Steps
    <3>2. op' = [op EXCEPT ![v] = o]
      BY <2>1, <3>1 DEF GoOn, After
    <3>3. op[v].kind = "create"
      BY DEF Clone
    <3> HIDE DEF o
    <3> QED BY <1>1, <3>1, <3>2, <3>3, GoOnOp
  <2>2. CASE ~GoOn(v, After.clone)
    BY <2>2, NoOpType DEF EndOp
  <2> QED BY <2>1, <2>2
<1>6. backoff' \subseteq ScaleSets
  BY <1>1, <1>2 DEF GoOn, EndOp
<1>7. UNCHANGED <<shown, reserved, runner, expired, proc, configured, known, desired, jobs, passVars, created>>
  BY DEF Clone
<1> HIDE DEF m, o
<1>8. vm[v].kind = "none" /\ vm'[v] = m /\ op'[v] = o
  BY <1>1, <1>4, <1>5 DEF Taken
<1>9. NoOp.kind = "none" /\ NoOp.at = "none" /\ NoOp.stamp = 0 /\ NoOp.name = 0
  BY DEF NoOp
<1>10. WorkerInv(v)'
  <2>1. OpShape(v)'
    BY <1>2, <1>5, <1>8, <1>9 DEF OpShape
  <2>2. VMShape(v)'
    <3>1. shown[v] # "running"
      BY <1>1, <1>8 DEF WorkerInv, VMShape
    <3> QED BY <1>2, <1>3, <1>7, <1>8, <3>1 DEF VMShape
  <2>3. CreateShape(v)'
    BY <1>3, <1>5, <1>8, <1>9 DEF CreateShape
  <2>4. SeenShape(v)'
    <3>1. seen[v].kind # "worker"
      BY <1>1, <1>8 DEF WorkerInv, SeenShape, Clone
    <3> QED BY <1>1, <1>7, <3>1 DEF WorkerInv, SeenShape, passVars
  <2>5. RetireShape(v)'
    BY <1>5, <1>8, <1>9 DEF RetireShape
  <2> QED BY <2>1, <2>2, <2>3, <2>4, <2>5 DEF WorkerInv
<1>11. {m.stamp, o.stamp, o.name} \ {0} \subseteq Times(v) \cup ({created'} \ {created})
  BY <1>3, <1>5, <1>9 DEF Times
<1>12. created' \in {created, created + 1} /\ created' <= MaxCreated
  BY <1>1, <1>7, Bounds
<1> QED BY <1>1, <1>3, <1>4, <1>5, <1>6, <1>7, <1>10, <1>11, <1>12, WorkerStep

\* Clone keeps it (create: Clone): a VMID in use is left alone, and a new clone has a new creation time.
LEMMA CloneInv ==
  ASSUME IndInv, NEW v \in WorkerIDs, Clone(v)
  PROVE  IndInv'
<1>1. /\ vm[v] \in VM /\ vm = [vm EXCEPT ![v] = vm[v]] /\ runner \in [Stamps -> RunnerState]
      /\ shown \in [WorkerIDs -> Status] /\ foreign \subseteq WorkerIDs /\ jobs \subseteq Stamps
      /\ faults' \in 0..MaxFaults
  BY Basics, CallCount DEF Clone
<1>2. CASE VMIDInUse(v) /\ UNCHANGED vm
  <2>1. EndOp(v, TRUE) /\ foreign' \subseteq WorkerIDs
    BY <1>1, <1>2 DEF VMIDInUse
  <2> QED BY <1>1, <1>2, <2>1, EndStep DEF Clone, Kept
<1>3. CASE EndOp(v, TRUE) /\ UNCHANGED <<vm, foreign>>
  BY <1>1, <1>3, EndStep DEF Clone, Kept
<1>4. CASE /\ ~Taken(v) /\ Cloned(v, op[v].stamp, op[v].tpl) /\ UNCHANGED foreign
           /\ GoOn(v, After.clone) \/ EndOp(v, TRUE)
  BY <1>4, CloneWorks
<1> QED BY <1>2, <1>3, <1>4 DEF Clone

-----------------------------------------------------------------------------
(* Slots, and the steps of a retirement *)

\* An operation moves on to a step, its VM and runner touched by that as m and runner' say.
LEMMA MoveStep ==
  ASSUME IndInv, NEW v \in WorkerIDs, NEW step \in Steps, GoOn(v, step),
         NEW m \in VM, vm' = [vm EXCEPT ![v] = m],
         \/ m = vm[v] /\ shown' = shown
         \/ m = NoVM /\ shown'[v] = "unknown"
         \/ m.kind = vm[v].kind /\ m.stamp = vm[v].stamp /\ ~m.on /\ shown' = shown,
         shown' \in [WorkerIDs -> Status], \A u \in WorkerIDs \ {v} : shown'[u] = shown[u],
         runner' \in [Stamps -> RunnerState], \A r \in Stamps \ Times(v) : runner'[r] = runner[r],
         \A r \in Times(v) : Kept(r),
         jobs' \subseteq Stamps, faults' \in 0..MaxFaults,
         op[v].kind = "retire" \/ (op[v].kind = "create" /\ op[v].at \notin {"wait", "clone"}),
         step \in {"remove", "stop", "destroy", "removeAfter"},
         step = "remove" => op[v].kind = "retire" /\ ~op[v].force,
         step = "stop" => op[v].run,
         step = "removeAfter" => op[v].force /\ op[v].name # 0,
         op[v].kind = "retire" /\ step \in {"stop", "destroy"} /\ ~op[v].force
            => runner'[op[v].name] \notin {"idle", "job"},
         UNCHANGED <<reserved, expired, proc, configured, foreign, known, desired, passVars, created>>
  PROVE  IndInv'
<1> DEFINE o == [op[v] EXCEPT !.at = step]
<1>1. /\ v \in VMIDs /\ op[v] \in Op /\ WorkerInv(v) /\ foreign \subseteq WorkerIDs
      /\ backoff \subseteq ScaleSets /\ created \in 0..MaxCreated
      /\ vm \in [WorkerIDs -> VM] /\ op \in [VMIDs -> Op]
  BY Basics DEF IndInv, TypeOK, PoolTypeOK
<1>2. /\ o \in Op /\ o.kind = op[v].kind /\ o.ss = op[v].ss /\ o.tpl = op[v].tpl /\ o.stamp = op[v].stamp
      /\ o.name = op[v].name /\ o.force = op[v].force /\ o.run = op[v].run /\ o.at = step
  BY <1>1, GoOnOp
<1>3. op' = [op EXCEPT ![v] = o] /\ UNCHANGED backoff
  BY DEF GoOn
<1> HIDE DEF o
<1>4. op'[v] = o /\ vm'[v] = m
  BY <1>1, <1>3
<1>5. NoVM.kind = "none" /\ NoVM.stamp = 0 /\ ~NoVM.on
  BY DEF NoVM
<1>6. WorkerInv(v)'
  <2>1. OpShape(v)'
    BY <1>1, <1>2, <1>4 DEF WorkerInv, OpShape
  <2>2. VMShape(v)'
    BY <1>1, <1>4, <1>5 DEF WorkerInv, VMShape, Times, Kept
  <2>3. CreateShape(v)'
    BY <1>1, <1>2, <1>4, <1>5 DEF WorkerInv, CreateShape
  <2>4. SeenShape(v)'
    BY <1>1, <1>2, <1>4, <1>5 DEF WorkerInv, SeenShape, passVars
  <2>5. RetireShape(v)'
    BY <1>1, <1>2, <1>4, <1>5 DEF WorkerInv, RetireShape
  <2> QED BY <2>1, <2>2, <2>3, <2>4, <2>5 DEF WorkerInv
<1>7. {m.stamp, o.stamp, o.name} \ {0} \subseteq Times(v) \cup ({created'} \ {created})
  BY <1>2, <1>5 DEF Times
<1>8. created' \in {created, created + 1} /\ created' <= MaxCreated
  BY <1>1, Bounds
<1> QED BY <1>1, <1>2, <1>3, <1>6, <1>7, <1>8, WorkerStep

\* Where a retirement goes next.
LEMMA RetireSteps ==
  ASSUME NEW v \in WorkerIDs, op[v] \in Op, OpShape(v), op[v].kind = "retire"
  PROVE  /\ DestroyVMStep(op[v]) \in Steps /\ DestroyVMStep(op[v]) \in {"stop", "destroy"}
         /\ DestroyVMStep(op[v]) = "stop" => op[v].run
         /\ RetireStep(op[v]) \in {"remove", "stop", "destroy"} /\ RetireStep(op[v]) \in Steps
         /\ RetireStep(op[v]) = "remove" => ~op[v].force
         /\ RetireStep(op[v]) = "stop" => op[v].run
         /\ RetireStep(op[v]) # "remove" => op[v].force
         /\ ~op[v].force => op[v].name # 0
BY DEF DestroyVMStep, RetireStep, Steps, OpShape

\* The creation that GetSlot leaves.
LEMMA SlottedOp ==
  ASSUME NEW o \in Op, NEW n \in Name, NEW x, x = [o EXCEPT !.at = "clone", !.stamp = n]
  PROVE  /\ x \in Op /\ x.kind = o.kind /\ x.ss = o.ss /\ x.tpl = o.tpl /\ x.name = o.name
         /\ x.at = "clone" /\ x.stamp = n
BY DEF Op, Steps

\* GetSlot keeps it (startOp): a creation takes a time nobody has.
LEMMA GetSlotInv ==
  ASSUME IndInv, NEW v \in WorkerIDs, GetSlot(v)
  PROVE  IndInv'
<1>1. /\ v \in VMIDs /\ op[v] \in Op /\ vm[v] \in VM /\ WorkerInv(v) /\ vm' = [vm EXCEPT ![v] = vm[v]]
      /\ shown \in [WorkerIDs -> Status] /\ runner \in [Stamps -> RunnerState]
      /\ foreign \subseteq WorkerIDs /\ jobs \subseteq Stamps /\ backoff \subseteq ScaleSets
      /\ created \in 0..MaxCreated /\ faults' \in 0..MaxFaults /\ op \in [VMIDs -> Op]
  BY Basics DEF GetSlot, poolVars, IndInv, TypeOK
<1>2. UNCHANGED <<vm, shown, reserved, runner, expired, proc, configured, foreign, known, desired, jobs, backoff,
                  passVars>>
  BY DEF GetSlot, poolVars, setVars
<1>3. CASE /\ op[v].kind = "create" /\ created < MaxCreated /\ created' = created + 1
           /\ op' = [op EXCEPT ![v] = [@ EXCEPT !.at = "clone", !.stamp = created + 1]]
  <2> DEFINE o == [op[v] EXCEPT !.at = "clone", !.stamp = created + 1]
  <2>1. created + 1 \in Stamps /\ created + 1 \in Name /\ created + 1 > created /\ created + 1 # 0
        /\ created' \in {created, created + 1} /\ created' <= MaxCreated /\ created' # created
    BY <1>1, <1>3, Bounds DEF Stamps, Name
  <2>2. /\ o \in Op /\ o.kind = op[v].kind /\ o.ss = op[v].ss /\ o.tpl = op[v].tpl /\ o.name = op[v].name
        /\ o.at = "clone" /\ o.stamp = created + 1
    <3>1. created + 1 \in Name /\ op[v] \in Op
      BY <1>1, <2>1
    <3> QED BY <3>1, SlottedOp
  <2>3. op' = [op EXCEPT ![v] = o]
    BY <1>3
  <2> HIDE DEF o
  <2>4. op'[v] = o /\ vm'[v] = vm[v]
    BY <1>1, <1>2, <2>3
  <2>5. op[v].at = "wait" /\ op[v].stamp = 0 /\ op[v].name = 0
    BY <1>1, <1>3 DEF GetSlot, WorkerInv, OpShape
  <2>6. runner[created + 1] = "new"
    BY <2>1 DEF IndInv, TimesApart
  <2>7. WorkerInv(v)'
    <3>1. OpShape(v)'
      BY <1>1, <1>3, <2>1, <2>2, <2>4, <2>5 DEF WorkerInv, OpShape
    <3>2. VMShape(v)'
      BY <1>1, <1>2, <2>4 DEF WorkerInv, VMShape
    <3>3. CreateShape(v)'
      BY <1>2, <2>2, <2>4, <2>6 DEF CreateShape
    <3>4. SeenShape(v)'
      BY <1>1, <1>2, <1>3, <2>2, <2>4, <2>5 DEF WorkerInv, SeenShape, passVars
    <3>5. RetireShape(v)'
      BY <1>3, <2>2, <2>4 DEF RetireShape
    <3> QED BY <3>1, <3>2, <3>3, <3>4, <3>5 DEF WorkerInv
  <2>8. {vm[v].stamp, o.stamp, o.name} \ {0} \subseteq Times(v) \cup ({created'} \ {created})
    BY <1>3, <2>1, <2>2 DEF Times
  <2> QED BY <1>1, <1>2, <2>1, <2>2, <2>3, <2>7, <2>8, WorkerStep
<1>4. CASE /\ op[v].kind = "retire" /\ op' = [op EXCEPT ![v].at = RetireStep(op[v])] /\ UNCHANGED created
  <2>1. GoOn(v, RetireStep(op[v]))
    BY <1>2, <1>4 DEF GoOn
  <2>2. OpShape(v)
    BY <1>1 DEF WorkerInv
  <2> QED BY <1>1, <1>2, <1>4, <2>1, <2>2, RetireSteps, MoveStep DEF Kept
<1>5. op[v].kind # "prune"
  BY <1>1 DEF WorkerInv, OpShape
<1> QED BY <1>3, <1>4, <1>5 DEF GetSlot, NextName

\* DropWaiting keeps it (startOp: ctx.Done).
LEMMA DropWaitingInv ==
  ASSUME IndInv, NEW v \in WorkerIDs, DropWaiting(v)
  PROVE  IndInv'
<1>1. /\ vm[v] \in VM /\ vm' = [vm EXCEPT ![v] = vm[v]] /\ shown \in [WorkerIDs -> Status]
      /\ runner \in [Stamps -> RunnerState] /\ foreign \subseteq WorkerIDs /\ jobs \subseteq Stamps
      /\ faults' \in 0..MaxFaults
  BY Basics DEF DropWaiting, poolVars
<1>2. EndOp(v, FALSE)
  BY DEF DropWaiting, EndOp, setVars
<1> QED BY <1>1, <1>2, EndStep DEF DropWaiting, poolVars, setVars, Kept

\* RemoveRunner touches one name, and leaves no idle runner there.
LEMMA RemovedType ==
  ASSUME runner \in [Stamps -> RunnerState], NEW r, Removed(r), NEW v \in WorkerIDs, r \in Times(v)
  PROVE  /\ runner' \in [Stamps -> RunnerState]
         /\ \A x \in Stamps \ Times(v) : runner'[x] = runner[x]
         /\ \A x \in Stamps : Kept(x)
         /\ r \in Stamps /\ runner[r] # "job" => runner'[r] \notin {"idle", "job"}
BY DEF Removed, RunnerState, Kept

\* The times connected with a VMID are creation times.
LEMMA TimesAreStamps ==
  ASSUME IndInv, NEW v \in WorkerIDs
  PROVE  Times(v) \subseteq Stamps
<1>1. created \in 0..MaxCreated /\ Times(v) \subseteq 1..created
  BY DEF IndInv, TypeOK, TimesApart
<1> QED BY <1>1, TimesRange

\* RemoveRunner keeps it (retire without force): the runner is gone from GitHub before the VM is touched.
LEMMA RemoveRunnerInv ==
  ASSUME IndInv, NEW v \in WorkerIDs, RemoveRunner(v)
  PROVE  IndInv'
<1>1. /\ op[v] \in Op /\ vm[v] \in VM /\ WorkerInv(v) /\ vm' = [vm EXCEPT ![v] = vm[v]]
      /\ shown \in [WorkerIDs -> Status] /\ runner \in [Stamps -> RunnerState]
      /\ foreign \subseteq WorkerIDs /\ jobs \subseteq Stamps /\ faults' \in 0..MaxFaults
  BY Basics, FaultCount DEF RemoveRunner
<1>2. OpShape(v) /\ op[v].at = "remove" /\ op[v].kind = "retire" /\ ~op[v].force /\ op[v].name # 0
  BY <1>1 DEF RemoveRunner, WorkerInv, OpShape
<1>3. op[v].name \in Times(v) /\ op[v].name \in Stamps
  BY <1>2, TimesAreStamps DEF Times
<1>4. jobs' \subseteq Stamps
  BY <1>1, <1>3 DEF RemoveRunner
<1>5. UNCHANGED <<vm, shown, reserved, expired, proc, configured, foreign, known, desired, passVars, created>>
  BY DEF RemoveRunner
<1>6. CASE EndOp(v, TRUE) /\ UNCHANGED runner
  BY <1>1, <1>4, <1>5, <1>6, EndStep DEF Kept
<1>7. CASE EndOp(v, TRUE) /\ Removed(op[v].name)
  <2>1. /\ runner' \in [Stamps -> RunnerState] /\ \A x \in Stamps \ Times(v) : runner'[x] = runner[x]
        /\ \A x \in Times(v) : Kept(x)
    BY <1>1, <1>3, <1>7, RemovedType, TimesAreStamps
  <2> QED BY <1>1, <1>4, <1>5, <1>7, <2>1, EndStep
<1>8. CASE runner[op[v].name] # "job" /\ Removed(op[v].name) /\ GoOn(v, DestroyVMStep(op[v]))
  <2>1. /\ runner' \in [Stamps -> RunnerState] /\ \A x \in Stamps \ Times(v) : runner'[x] = runner[x]
        /\ \A x \in Times(v) : Kept(x)
        /\ runner'[op[v].name] \notin {"idle", "job"}
    BY <1>1, <1>3, <1>8, RemovedType, TimesAreStamps
  <2>2. /\ DestroyVMStep(op[v]) \in Steps /\ DestroyVMStep(op[v]) \in {"stop", "destroy"}
        /\ DestroyVMStep(op[v]) = "stop" => op[v].run
    BY <1>1, <1>2, RetireSteps
  <2> QED BY <1>1, <1>2, <1>4, <1>5, <1>8, <2>1, <2>2, MoveStep
<1> QED BY <1>6, <1>7, <1>8 DEF RemoveRunner

\* Stop keeps it (destroyVM).
LEMMA StopInv ==
  ASSUME IndInv, NEW v \in WorkerIDs, Stop(v)
  PROVE  IndInv'
<1> DEFINE m == [vm[v] EXCEPT !.on = FALSE]
<1>1. /\ op[v] \in Op /\ vm[v] \in VM /\ WorkerInv(v) /\ vm = [vm EXCEPT ![v] = vm[v]]
      /\ shown \in [WorkerIDs -> Status] /\ runner \in [Stamps -> RunnerState]
      /\ jobs \subseteq Stamps /\ faults' \in 0..MaxFaults
  BY Basics, FaultCount DEF Stop
<1>2. /\ op[v].kind = "retire" \/ (op[v].kind = "create" /\ op[v].at \notin {"wait", "clone"})
      /\ op[v].kind = "retire" /\ ~op[v].force => runner[op[v].name] \notin {"idle", "job"}
  BY <1>1 DEF Stop, WorkerInv, OpShape, RetireShape
<1>3. m \in VM /\ m.kind = vm[v].kind /\ m.stamp = vm[v].stamp /\ ~m.on
  BY <1>1, VMFields DEF VM
<1>4. "destroy" \in Steps /\ GoOn(v, "destroy")
  BY DEF Steps, Stop
<1>5. /\ UNCHANGED <<shown, reserved, runner, expired, proc, configured, foreign, known, desired, jobs, passVars,
                     created>>
      /\ UNCHANGED vm \/ vm' = [vm EXCEPT ![v] = m]
  BY DEF Stop
<1> HIDE DEF m
<1>6. CASE vm' = [vm EXCEPT ![v] = m]
  BY <1>1, <1>2, <1>3, <1>4, <1>5, <1>6, MoveStep DEF Kept
<1>7. CASE UNCHANGED vm
  BY <1>1, <1>2, <1>4, <1>5, <1>7, MoveStep DEF Kept
<1> QED BY <1>5, <1>6, <1>7

\* Destroy keeps it (destroy).
LEMMA DestroyInv ==
  ASSUME IndInv, NEW v \in WorkerIDs, Destroy(v)
  PROVE  IndInv'
<1>1. /\ op[v] \in Op /\ vm[v] \in VM /\ WorkerInv(v) /\ vm = [vm EXCEPT ![v] = vm[v]]
      /\ shown \in [WorkerIDs -> Status] /\ runner \in [Stamps -> RunnerState]
      /\ foreign \subseteq WorkerIDs /\ jobs \subseteq Stamps /\ faults' \in 0..MaxFaults
  BY Basics, FaultCount DEF Destroy
<1>2. UNCHANGED <<reserved, runner, expired, proc, configured, foreign, known, desired, jobs, passVars, created>>
  BY DEF Destroy
<1>3. \A r \in Times(v) : Kept(r)
  BY <1>2 DEF Kept
<1>4. CASE EndOp(v, TRUE) /\ UNCHANGED <<vm, shown>>
  BY <1>1, <1>2, <1>3, <1>4, EndStep
<1>5. ASSUME Destroyed(v)
      PROVE  /\ vm' = [vm EXCEPT ![v] = NoVM] /\ shown' \in [WorkerIDs -> Status]
             /\ shown'[v] = "unknown" /\ \A u \in WorkerIDs \ {v} : shown'[u] = shown[u]
  BY <1>1, <1>5 DEF Destroyed, Status
<1>6. CASE Destroyed(v) /\ EndOp(v, TRUE)
  BY <1>1, <1>2, <1>3, <1>5, <1>6, NoVMType, EndStep
<1>7. CASE Destroyed(v) /\ op[v].name # 0 /\ op[v].force /\ GoOn(v, "removeAfter")
  <2>1. "removeAfter" \in Steps
    BY DEF Steps
  <2>2. op[v].kind = "retire" \/ (op[v].kind = "create" /\ op[v].at \notin {"wait", "clone"})
    BY DEF Destroy
  <2> QED BY <1>1, <1>2, <1>3, <1>5, <1>7, <2>1, <2>2, NoVMType, MoveStep
<1> QED BY <1>4, <1>6, <1>7 DEF Destroy, VMGone

\* RemoveRunnerAfter keeps it (retire with force).
LEMMA RemoveRunnerAfterInv ==
  ASSUME IndInv, NEW v \in WorkerIDs, RemoveRunnerAfter(v)
  PROVE  IndInv'
<1>1. /\ op[v] \in Op /\ vm[v] \in VM /\ WorkerInv(v) /\ vm' = [vm EXCEPT ![v] = vm[v]]
      /\ shown \in [WorkerIDs -> Status] /\ runner \in [Stamps -> RunnerState]
      /\ foreign \subseteq WorkerIDs /\ jobs' \subseteq Stamps /\ faults' \in 0..MaxFaults
  BY Basics, FaultCount DEF RemoveRunnerAfter
<1>2. op[v].name \in Times(v)
  BY <1>1 DEF RemoveRunnerAfter, WorkerInv, OpShape, Times
<1>3. /\ runner' \in [Stamps -> RunnerState] /\ \A x \in Stamps \ Times(v) : runner'[x] = runner[x]
      /\ \A x \in Times(v) : Kept(x)
  <2>1. CASE Removed(op[v].name)
    BY <1>1, <1>2, <2>1, RemovedType, TimesAreStamps
  <2>2. CASE UNCHANGED runner
    BY <1>1, <2>2 DEF Kept
  <2> QED BY <2>1, <2>2 DEF RemoveRunnerAfter
<1> QED BY <1>1, <1>3, EndStep DEF RemoveRunnerAfter

\* All steps of the operation on a worker VMID.
LEMMA WorkerOpInv ==
  ASSUME IndInv, NEW v \in WorkerIDs, WorkerOp(v)
  PROVE  IndInv'
BY GetSlotInv, DropWaitingInv, CloneInv, ConfigureInv, RegisterInv, StartVMInv, SignalInv, MarkInv, RemoveRunnerInv,
   StopInv, DestroyInv, RemoveRunnerAfterInv DEF WorkerOp

-----------------------------------------------------------------------------
(* Steps that leave every worker's VM, operation and listing alone, or nearly *)

\* The parts of the state that Frame leaves to the step, typed.
RestOK ==
  /\ reserved \in [TemplateIDs -> Reserved]
  /\ faults \in 0..MaxFaults
  /\ proc \in {"up", "stopping", "down"}
  /\ configured \in Configs
  /\ foreign \subseteq WorkerIDs
  /\ known \subseteq ScaleSets
  /\ desired \in [ScaleSets -> Nat] /\ \A s \in ScaleSets : desired[s] <= MaxRunners[s]
  /\ jobs \subseteq Stamps
  /\ backoff \subseteq ScaleSets

\* RestOK is part of the type invariant.
LEMMA RestFromInv == IndInv => RestOK
BY DEF IndInv, TypeOK, PoolTypeOK, RestOK

\* The other parts of the type invariant.
LEMMA TypeParts ==
  ASSUME TypeOK
  PROVE  /\ vm \in [WorkerIDs -> VM] /\ shown \in [WorkerIDs -> Status] /\ runner \in [Stamps -> RunnerState]
         /\ expired \subseteq Stamps /\ op \in [VMIDs -> Op] /\ pc \in {"idle", "workers"}
         /\ seen \in [WorkerIDs -> Listing] /\ used \subseteq WorkerIDs /\ newest \in TemplateIDs \cup {0}
         /\ todo \subseteq WorkerIDs /\ asking \subseteq WorkerIDs /\ sets \subseteq ScaleSets
         /\ created \in 0..MaxCreated
BY DEF TypeOK, PoolTypeOK

\* No VM, operation, listing or creation time changes, except for a VM's flags and the operations on templates.
LEMMA Frame ==
  ASSUME IndInv, RestOK',
         op' \in [VMIDs -> Op], \A v \in WorkerIDs : op'[v] = op[v],
         \A t \in TemplateIDs : TemplateInv(t)',
         UNCHANGED <<vm, created, seen, used, pc, newest>>,
         shown' \in [WorkerIDs -> Status],
         \A v \in WorkerIDs : shown'[v] # shown[v] =>
            vm[v].kind # "none" /\ (vm[v].kind = "clone" => shown'[v] # "running"),
         runner' \in [Stamps -> RunnerState], \A r \in Stamps : Kept(r),
         expired \subseteq expired', expired' \subseteq Stamps,
         todo' \subseteq todo, asking' \subseteq todo \cup asking, sets' = sets, configured' = configured,
         proc' = "down" => proc = "down"
  PROVE  IndInv'
<1>1. TypeOK
  BY DEF IndInv
<1>2. TypeOK'
  BY <1>1, TypeParts DEF TypeOK, PoolTypeOK, RestOK
<1>3. \A v \in WorkerIDs : Times(v)' = Times(v)
  BY DEF Times
<1>4. TimesApart'
  <2>1. \A r \in Stamps : r > created' => runner'[r] = "new"
    BY DEF IndInv, TimesApart, Kept
  <2> QED BY <1>3, <2>1 DEF IndInv, TimesApart
<1>5. ASSUME NEW v \in WorkerIDs PROVE WorkerInv(v)'
  <2>1. \A r \in Times(v) : Kept(r)
    BY TimesAreStamps
  <2>2. WorkerInv(v) /\ op'[v] = op[v]
    BY DEF IndInv
  <2> QED BY <2>1, <2>2, FrameWorker DEF SeenKept
<1>6. PassShape'
  BY DEF IndInv, PassShape
<1> QED BY <1>2, <1>4, <1>5, <1>6 DEF IndInv

-----------------------------------------------------------------------------
(* Templates *)

\* An operation on a template touches no worker.
LEMMA TemplateOpStep ==
  ASSUME IndInv, NEW t \in TemplateIDs, NEW o \in Op, op' = [op EXCEPT ![t] = o], TemplateInv(t)', RestOK',
         UNCHANGED <<vm, shown, runner, expired, proc, created, configured, passVars>>
  PROVE  IndInv'
<1>1. TypeOK
  BY DEF IndInv
<1>2. t \in VMIDs /\ t \notin WorkerIDs /\ op \in [VMIDs -> Op]
  BY <1>1, Constants, TypeParts DEF VMIDs
<1>3. op' \in [VMIDs -> Op] /\ \A u \in VMIDs \ {t} : op'[u] = op[u]
  BY <1>2, OpUpdate
<1>4. \A v \in WorkerIDs : op'[v] = op[v]
  BY <1>2, <1>3 DEF VMIDs
<1>5. \A u \in TemplateIDs : TemplateInv(u)'
  BY <1>3 DEF IndInv, TemplateInv, VMIDs
<1> QED BY <1>1, <1>3, <1>4, <1>5, TypeParts, Frame DEF Kept, passVars

\* Operations on templates keep the invariant (pruneTemplates).
LEMMA TemplateOpInv ==
  ASSUME IndInv, NEW t \in TemplateIDs, TemplateOp(t)
  PROVE  IndInv'
<1>1. /\ t \in VMIDs /\ op \in [VMIDs -> Op] /\ op[t] \in Op /\ RestOK /\ TemplateInv(t)
  BY TypeParts, RestFromInv DEF IndInv, VMIDs
<1>2. NoOp.kind = "none" /\ NoOp.at = "none"
  BY DEF NoOp
<1>3. CASE GetSlot(t)
  <2>1. op[t].kind = "prune" /\ op' = [op EXCEPT ![t].at = "destroy"] /\ UNCHANGED created
    BY <1>1, <1>3 DEF GetSlot, TemplateInv
  <2> DEFINE o == [op[t] EXCEPT !.at = "destroy"]
  <2>2. o \in Op /\ o.kind = "prune" /\ o.at = "destroy"
    BY <1>1, <2>1, GoOnOp DEF Steps
  <2>3. op' = [op EXCEPT ![t] = o]
    BY <2>1
  <2> HIDE DEF o
  <2>4. TemplateInv(t)'
    BY <1>1, <2>2, <2>3 DEF TemplateInv
  <2>5. RestOK'
    BY <1>1, <1>3 DEF RestOK, GetSlot, poolVars, setVars
  <2> QED BY <1>3, <2>1, <2>2, <2>3, <2>4, <2>5, TemplateOpStep DEF GetSlot, poolVars
<1>4. CASE DropWaiting(t)
  <2>1. op' = [op EXCEPT ![t] = NoOp]
    BY <1>4 DEF DropWaiting
  <2>2. TemplateInv(t)'
    BY <1>1, <1>2, <2>1 DEF TemplateInv
  <2>3. RestOK'
    BY <1>1, <1>4 DEF RestOK, DropWaiting, poolVars, setVars
  <2> QED BY <1>4, <2>1, <2>2, <2>3, NoOpType, TemplateOpStep DEF DropWaiting, poolVars
<1>5. CASE PruneDestroy(t)
  <2>1. op' = [op EXCEPT ![t] = NoOp] /\ UNCHANGED backoff
    BY <1>1, <1>5 DEF PruneDestroy, EndOp
  <2>2. TemplateInv(t)'
    BY <1>1, <1>2, <2>1 DEF TemplateInv
  <2>3. reserved' \in [TemplateIDs -> Reserved]
    <3>1. NoReserved \in Reserved
      BY Bounds DEF NoReserved, Reserved
    <3> QED BY <1>1, <1>5, <3>1 DEF PruneDestroy, RestOK
  <2>4. faults' \in 0..MaxFaults
    BY <1>1, <1>5, CallCount DEF PruneDestroy, RestOK
  <2>5. RestOK'
    BY <1>1, <1>5, <2>1, <2>3, <2>4 DEF RestOK, PruneDestroy
  <2> QED BY <1>5, <2>1, <2>2, <2>5, NoOpType, TemplateOpStep DEF PruneDestroy
<1> QED BY <1>3, <1>4, <1>5 DEF TemplateOp

-----------------------------------------------------------------------------
(* Proxmox, the guests, GitHub and the installer *)

\* Only the runners, the statuses, the ages, the templates or the listener's records change.
LEMMA QuietStep ==
  ASSUME IndInv, RestOK',
         shown' \in [WorkerIDs -> Status],
         \A v \in WorkerIDs : shown'[v] # shown[v] =>
            vm[v].kind # "none" /\ (vm[v].kind = "clone" => shown'[v] # "running"),
         runner' \in [Stamps -> RunnerState], \A r \in Stamps : Kept(r),
         expired \subseteq expired', expired' \subseteq Stamps,
         UNCHANGED <<vm, op, created, configured, passVars>>, proc' = "down" => proc = "down"
  PROVE  IndInv'
<1>1. op \in [VMIDs -> Op] /\ \A t \in TemplateIDs : TemplateInv(t)'
  BY TypeParts DEF IndInv, TemplateInv
<1> QED BY <1>1, Frame DEF passVars

\* A VM goes down.
LEMMA OffStep ==
  ASSUME IndInv, NEW v \in WorkerIDs, vm[v].on, vm' = [vm EXCEPT ![v] = [@ EXCEPT !.on = FALSE]],
         faults' \in 0..MaxFaults, UNCHANGED <<shown, reserved, runner, expired, ctlVars>>
  PROVE  IndInv'
<1> DEFINE m == [vm[v] EXCEPT !.on = FALSE]
<1>1. /\ v \in VMIDs /\ op[v] \in Op /\ vm[v] \in VM /\ WorkerInv(v)
      /\ shown \in [WorkerIDs -> Status] /\ runner \in [Stamps -> RunnerState]
      /\ foreign \subseteq WorkerIDs /\ jobs \subseteq Stamps /\ backoff \subseteq ScaleSets
      /\ created \in 0..MaxCreated
  BY Basics
<1>2. vm \in [WorkerIDs -> VM] /\ op \in [VMIDs -> Op]
  BY TypeParts DEF IndInv
<1>3. m \in VM /\ m.kind = vm[v].kind /\ m.stamp = vm[v].stamp
  BY <1>1, VMFields
<1>4. vm' = [vm EXCEPT ![v] = m]
  OBVIOUS
<1>5. op' = [op EXCEPT ![v] = op[v]]
  BY <1>2 DEF ctlVars
<1> HIDE DEF m
<1>6. vm[v].kind # "none" /\ vm[v].kind # "clone"
  BY <1>1 DEF WorkerInv, VMShape
<1>7. vm'[v] = m /\ op'[v] = op[v] /\ UNCHANGED <<seen, used>>
  BY <1>1, <1>2, <1>4 DEF ctlVars, passVars
<1>8. WorkerInv(v)'
  <2>1. OpShape(v)' /\ VMShape(v)'
    BY <1>1, <1>3, <1>6, <1>7 DEF WorkerInv, OpShape, VMShape
  <2>2. CreateShape(v)'
    BY <1>1, <1>3, <1>7 DEF WorkerInv, CreateShape
  <2>3. SeenShape(v)' /\ RetireShape(v)'
    BY <1>1, <1>3, <1>7 DEF WorkerInv, SeenShape, RetireShape
  <2> QED BY <2>1, <2>2, <2>3 DEF WorkerInv
<1>9. {m.stamp, op[v].stamp, op[v].name} \ {0} \subseteq Times(v) \cup ({created'} \ {created})
  BY <1>3 DEF Times
<1>10. created' \in {created, created + 1} /\ created' <= MaxCreated
  BY <1>1, Bounds DEF ctlVars
<1> QED BY <1>1, <1>3, <1>4, <1>5, <1>8, <1>9, <1>10, WorkerStep DEF ctlVars, setVars

\* The guests and pvestatd keep the invariant: none of them changes whose VM it is.
LEMMA GuestsInv ==
  ASSUME IndInv, UNCHANGED ctlVars, Guests
  PROVE  IndInv'
<1>1. PICK v \in WorkerIDs : Sample(v) \/ AssignJob(v) \/ FinishJob(v) \/ PowerOff(v) \/ GuestDies(v)
  BY DEF Guests
<1>2. /\ WorkerInv(v) /\ shown \in [WorkerIDs -> Status] /\ runner \in [Stamps -> RunnerState] /\ RestOK
      /\ expired \subseteq Stamps /\ faults \in 0..MaxFaults /\ vm[v] \in VM
  BY Basics, RestFromInv, TypeParts DEF IndInv
<1>3. faults' \in 0..MaxFaults /\ UNCHANGED <<reserved, expired>>
  BY <1>1, <1>2, FaultCount DEF Sample, AssignJob, FinishJob, PowerOff, GuestDies
<1>4. RestOK'
  BY <1>2, <1>3 DEF RestOK, ctlVars, setVars
<1>5. UNCHANGED <<op, proc, created, configured, passVars>>
  BY DEF ctlVars
<1>6. CASE Sample(v)
  <2>1. vm[v].kind = "clone" => ~vm[v].on
    BY <1>2 DEF WorkerInv, VMShape
  <2>2. shown' \in [WorkerIDs -> Status]
    BY <1>2, <1>6 DEF Sample, Status
  <2>3. \A u \in WorkerIDs : shown'[u] # shown[u] =>
            vm[u].kind # "none" /\ (vm[u].kind = "clone" => shown'[u] # "running")
    BY <1>2, <1>6, <2>1 DEF Sample
  <2> QED BY <1>2, <1>3, <1>4, <1>5, <1>6, <2>2, <2>3, QuietStep DEF Sample, Kept
<1>7. CASE AssignJob(v) \/ FinishJob(v)
  <2>1. runner' \in [Stamps -> RunnerState] /\ \A r \in Stamps : Kept(r)
    BY <1>2, <1>7 DEF AssignJob, FinishJob, RunnerState, Kept
  <2> QED BY <1>2, <1>3, <1>4, <1>5, <1>7, <2>1, QuietStep DEF AssignJob, FinishJob
<1>8. CASE PowerOff(v) \/ GuestDies(v)
  BY <1>3, <1>8, OffStep DEF PowerOff, GuestDies
<1> QED BY <1>1, <1>6, <1>7, <1>8

\* GitHub keeps the invariant: registrations only end by themselves.
LEMMA GitHubInv ==
  ASSUME IndInv, UNCHANGED ctlVars, GitHub
  PROVE  IndInv'
<1>1. PICK r \in Stamps : RunnerDeleted(r) \/ JobAbandoned(r)
  BY DEF GitHub
<1>2. /\ shown \in [WorkerIDs -> Status] /\ runner \in [Stamps -> RunnerState] /\ RestOK
      /\ expired \subseteq Stamps /\ faults \in 0..MaxFaults
  BY RestFromInv, TypeParts DEF IndInv, RestOK
<1>3. faults' \in 0..MaxFaults /\ UNCHANGED <<vm, shown, reserved, expired>>
  BY <1>1, <1>2, FaultCount DEF RunnerDeleted, JobAbandoned
<1>4. RestOK'
  BY <1>2, <1>3 DEF RestOK, ctlVars, setVars
<1>5. runner' \in [Stamps -> RunnerState] /\ \A x \in Stamps : Kept(x)
  BY <1>1, <1>2 DEF RunnerDeleted, JobAbandoned, RunnerState, Kept
<1> QED BY <1>2, <1>3, <1>4, <1>5, QuietStep DEF ctlVars

\* Time keeps the invariant.
LEMMA AgingInv ==
  ASSUME IndInv, UNCHANGED ctlVars, Aging
  PROVE  IndInv'
<1>1. PICK v \in WorkerIDs : Expire(v)
  BY DEF Aging
<1>2. /\ shown \in [WorkerIDs -> Status] /\ runner \in [Stamps -> RunnerState] /\ RestOK /\ expired \subseteq Stamps
  BY RestFromInv, TypeParts DEF IndInv
<1>3. expired \subseteq expired' /\ expired' \subseteq Stamps
  BY <1>1, <1>2, BoundAssumption DEF Expire, BoundAssumption, Stamps
<1>4. RestOK'
  BY <1>1, <1>2 DEF RestOK, Expire, ctlVars, setVars
<1> QED BY <1>1, <1>2, <1>3, <1>4, QuietStep DEF Expire, ctlVars, Kept

\* Clones that an import takes for failed ones disappear: an operation on one now meets no VM.
LEMMA ClonesGone ==
  ASSUME IndInv, RestOK', NEW gone \in SUBSET WorkerIDs, \A v \in gone : vm[v].kind = "clone",
         vm' = [v \in WorkerIDs |-> IF v \in gone THEN NoVM ELSE vm[v]],
         shown' = [v \in WorkerIDs |-> IF v \in gone THEN "unknown" ELSE shown[v]],
         UNCHANGED <<runner, expired, ctlVars>>
  PROVE  IndInv'
<1>1. /\ vm \in [WorkerIDs -> VM] /\ shown \in [WorkerIDs -> Status] /\ runner \in [Stamps -> RunnerState]
      /\ expired \subseteq Stamps /\ op \in [VMIDs -> Op]
  BY TypeParts DEF IndInv
<1>2. NoVM \in VM /\ NoVM.kind = "none" /\ NoVM.stamp = 0 /\ ~NoVM.on
  BY DEF NoVM, VM, Name
<1>3. vm' \in [WorkerIDs -> VM] /\ shown' \in [WorkerIDs -> Status]
  BY <1>1, <1>2 DEF Status
<1>4. UNCHANGED <<op, proc, configured, created, pc, seen, used, newest, todo, asking, sets>>
  BY DEF ctlVars, passVars
<1>5. TypeOK'
  BY <1>1, <1>3, <1>4, TypeParts DEF IndInv, TypeOK, PoolTypeOK, RestOK
<1>6. \A v \in WorkerIDs : Times(v)' \subseteq Times(v)
  BY <1>2, <1>4 DEF Times
<1>7. TimesApart'
  BY <1>4, <1>6 DEF IndInv, TimesApart
<1>8. ASSUME NEW v \in WorkerIDs PROVE WorkerInv(v)'
  <2>1. WorkerInv(v)
    BY DEF IndInv
  <2>2. CASE v \notin gone
    BY <1>4, <2>1, <2>2, FrameWorker DEF SeenKept, Kept
  <2>3. CASE v \in gone
    <3>1. vm[v].kind = "clone" /\ vm'[v] = NoVM /\ shown'[v] = "unknown"
      BY <2>3
    <3>2. OpShape(v)' /\ VMShape(v)'
      BY <1>2, <1>4, <2>1, <3>1 DEF WorkerInv, OpShape, VMShape
    <3>3. CreateShape(v)'
      BY <1>2, <1>4, <2>1, <3>1 DEF WorkerInv, CreateShape
    <3>4. SeenShape(v)' /\ RetireShape(v)'
      BY <1>2, <1>4, <2>1, <3>1 DEF WorkerInv, SeenShape, RetireShape
    <3> QED BY <3>2, <3>3, <3>4 DEF WorkerInv
  <2> QED BY <2>2, <2>3
<1>9. (\A t \in TemplateIDs : TemplateInv(t)') /\ PassShape'
  BY <1>4 DEF IndInv, TemplateInv, PassShape
<1> QED BY <1>5, <1>7, <1>8, <1>9 DEF IndInv

\* An import keeps the invariant.
LEMMA ImportInv ==
  ASSUME IndInv, UNCHANGED ctlVars, NEW t \in TemplateIDs, NEW version \in 1..MaxVersion, ImportTemplate(t, version)
  PROVE  IndInv'
<1>1. RestOK /\ reserved \in [TemplateIDs -> Reserved]
  BY RestFromInv DEF RestOK
<1>2. PICK same \in SUBSET TemplateIDs :
        LET left == [u \in TemplateIDs |->
                        IF u \in same /\ reserved[u].kind = "import" THEN NoReserved ELSE reserved[u]]
            lost == {v \in WorkerIDs : vm[v].kind = "clone" /\ vm[v].tpl \in same}
        IN /\ reserved' = [left EXCEPT ![t] = [kind |-> "import", version |-> version, base |-> 0]]
           /\ vm' = [v \in WorkerIDs |-> IF v \in lost THEN NoVM ELSE vm[v]]
           /\ shown' = [v \in WorkerIDs |-> IF v \in lost THEN "unknown" ELSE shown[v]]
  BY DEF ImportTemplate
<1>3. reserved' \in [TemplateIDs -> Reserved]
  <2>1. NoReserved \in Reserved /\ [kind |-> "import", version |-> version, base |-> 0] \in Reserved
    BY Bounds DEF NoReserved, Reserved
  <2> QED BY <1>1, <1>2, <2>1
<1>4. RestOK' /\ UNCHANGED <<runner, expired>>
  BY <1>1, <1>3 DEF RestOK, ctlVars, setVars, ImportTemplate
<1> DEFINE gone == {v \in WorkerIDs : vm[v].kind = "clone" /\ vm[v].tpl \in same}
<1>5. /\ gone \in SUBSET WorkerIDs /\ \A v \in gone : vm[v].kind = "clone"
      /\ vm' = [v \in WorkerIDs |-> IF v \in gone THEN NoVM ELSE vm[v]]
      /\ shown' = [v \in WorkerIDs |-> IF v \in gone THEN "unknown" ELSE shown[v]]
  BY <1>2
<1> HIDE DEF gone
<1> QED BY <1>4, <1>5, ClonesGone

\* The installer keeps the invariant: all it destroys in the worker range is clones.
LEMMA InstallerInv ==
  ASSUME IndInv, UNCHANGED ctlVars, Installer
  PROVE  IndInv'
<1>1. /\ shown \in [WorkerIDs -> Status] /\ runner \in [Stamps -> RunnerState] /\ RestOK /\ expired \subseteq Stamps
      /\ reserved \in [TemplateIDs -> Reserved]
  BY RestFromInv, TypeParts DEF IndInv, RestOK
<1>2. CASE \E t \in TemplateIDs, version \in 1..MaxVersion : ImportTemplate(t, version)
  BY <1>2, ImportInv
<1>3. CASE \E t \in TemplateIDs : TemplateListed(t) \/ CloneSmokeTest(t) \/ DestroySmokeTest(t)
  <2>1. UNCHANGED <<vm, shown, runner, expired, faults>>
    BY <1>3 DEF TemplateListed, CloneSmokeTest, DestroySmokeTest
  <2>2. NoReserved \in Reserved
    BY Bounds DEF NoReserved, Reserved
  <2>3. Without("build") \in [TemplateIDs -> Reserved]
    BY <1>1, <2>2 DEF Without
  <2>4. NewestTemplate \in TemplateIDs \cup {0}
    BY DEF NewestTemplate
  <2>5. [kind |-> "build", version |-> 0, base |-> NewestTemplate] \in Reserved
    BY <2>4, Bounds DEF Reserved
  <2>6. \A t \in TemplateIDs : [reserved[t] EXCEPT !.kind = "template"] \in Reserved
    BY <1>1 DEF Reserved
  <2>7. reserved' \in [TemplateIDs -> Reserved]
    BY <1>1, <1>3, <2>3, <2>5, <2>6 DEF TemplateListed, CloneSmokeTest, DestroySmokeTest
  <2>8. RestOK'
    BY <1>1, <2>1, <2>7 DEF RestOK, ctlVars, setVars
  <2> QED BY <1>1, <2>1, <2>8, QuietStep DEF ctlVars, Kept
<1> QED BY <1>2, <1>3 DEF Installer

-----------------------------------------------------------------------------
(* The listener and the process *)

\* target is a number of workers within maxRunners.
LEMMA TargetType ==
  ASSUME NEW s \in ScaleSets, NEW n \in 0..MaxAssigned
  PROVE  TargetOf(s, n) \in Nat /\ TargetOf(s, n) <= MaxRunners[s]
<1>1. MaxRunners[s] \in Nat /\ MinRunners[s] \in Nat /\ n \in Nat
  BY ConfigAssumption DEF ConfigAssumption
<1> QED BY <1>1 DEF TargetOf, Min2

\* The listener and retryAfter keep the invariant (scaleSetState).
LEMMA ListenerInv ==
  ASSUME IndInv, Listener \/ Timers
  PROVE  IndInv'
<1>1. /\ shown \in [WorkerIDs -> Status] /\ runner \in [Stamps -> RunnerState] /\ RestOK /\ expired \subseteq Stamps
  BY RestFromInv, TypeParts DEF IndInv
<1>2. UNCHANGED <<vm, shown, reserved, runner, expired, faults, op, proc, foreign, created, configured, passVars>>
  BY DEF Listener, Timers, DesiredRunners, JobStarted, JobCompleted, BackoffEnds, poolVars
<1>3. known' \subseteq ScaleSets /\ jobs' \subseteq Stamps /\ backoff' \subseteq ScaleSets
  BY <1>1 DEF RestOK, Listener, Timers, DesiredRunners, JobStarted, JobCompleted, BackoffEnds
<1>4. desired' \in [ScaleSets -> Nat] /\ \A s \in ScaleSets : desired'[s] <= MaxRunners[s]
  <2>1. CASE \E s \in ScaleSets, n \in 0..MaxAssigned : DesiredRunners(s, n)
    <3>1. PICK s \in ScaleSets, n \in 0..MaxAssigned : desired' = [desired EXCEPT ![s] = TargetOf(s, n)]
      BY <2>1 DEF DesiredRunners
    <3> QED BY <1>1, <3>1, TargetType DEF RestOK
  <2>2. CASE UNCHANGED desired
    BY <1>1, <2>2 DEF RestOK
  <2> QED BY <2>1, <2>2 DEF Listener, Timers, JobStarted, JobCompleted, BackoffEnds
<1>5. RestOK'
  BY <1>1, <1>2, <1>3, <1>4 DEF RestOK
<1> QED BY <1>1, <1>2, <1>5, QuietStep DEF Kept

\* What a new process knows: nothing.
LEMMA ForgetInv ==
  ASSUME IndInv, Forget, proc' = "down", faults' \in 0..MaxFaults, UNCHANGED <<poolVars, configured, created>>
  PROVE  IndInv'
<1>1. /\ vm \in [WorkerIDs -> VM] /\ shown \in [WorkerIDs -> Status] /\ runner \in [Stamps -> RunnerState]
      /\ expired \subseteq Stamps /\ RestOK /\ created \in 0..MaxCreated
  BY RestFromInv, TypeParts DEF IndInv
<1>2. NoListing \in Listing /\ NoListing.kind = "none" /\ NoListing.stamp = 0
  BY DEF NoListing, Listing, Name, Status
<1>3. NoOp.kind = "none" /\ NoOp.at = "none" /\ NoOp.stamp = 0 /\ NoOp.name = 0
  BY DEF NoOp
<1>4. op' \in [VMIDs -> Op] /\ seen' \in [WorkerIDs -> Listing]
  BY <1>2, NoOpType DEF Forget
<1>5. desired' \in [ScaleSets -> Nat] /\ \A s \in ScaleSets : desired'[s] <= MaxRunners[s]
  <2>1. \A s \in ScaleSets : MaxRunners[s] \in Nat
    BY ConfigAssumption DEF ConfigAssumption
  <2> QED BY <2>1 DEF Forget
<1>6. TypeOK'
  BY <1>1, <1>4, <1>5 DEF TypeOK, PoolTypeOK, RestOK, Forget, poolVars
<1>7. \A v \in WorkerIDs : op'[v] = NoOp /\ seen'[v] = NoListing
  BY DEF Forget, VMIDs
<1>8. \A v \in WorkerIDs : Times(v)' \subseteq Times(v)
  BY <1>2, <1>3, <1>7 DEF Times, poolVars
<1>9. TimesApart'
  BY <1>8 DEF IndInv, TimesApart, poolVars
<1>10. ASSUME NEW v \in WorkerIDs PROVE WorkerInv(v)'
  <2>1. SeenKept(v) /\ op'[v] = NoOp
    BY <1>2, <1>7 DEF SeenKept
  <2>2. WorkerInv(v)
    BY DEF IndInv
  <2> QED BY <2>1, <2>2, Ended DEF poolVars, Kept
<1>11. \A t \in TemplateIDs : TemplateInv(t)'
  BY <1>3 DEF Forget, TemplateInv, VMIDs
<1>12. PassShape'
  BY DEF Forget, PassShape
<1> QED BY <1>6, <1>9, <1>10, <1>11, <1>12 DEF IndInv

\* Shutdown, crash and restart keep the invariant: a new process starts with no operation and no list.
LEMMA ProcessInv ==
  ASSUME IndInv, Process
  PROVE  IndInv'
<1>1. /\ shown \in [WorkerIDs -> Status] /\ runner \in [Stamps -> RunnerState] /\ RestOK /\ expired \subseteq Stamps
      /\ faults \in 0..MaxFaults
  BY RestFromInv, TypeParts DEF IndInv, RestOK
<1>2. CASE Shutdown
  <2>1. RestOK'
    BY <1>1, <1>2, FaultCount DEF Shutdown, RestOK, poolVars, setVars
  <2> QED BY <1>1, <1>2, <2>1, QuietStep DEF Shutdown, poolVars, Kept
<1>3. CASE Stopped \/ Crash
  BY <1>1, <1>3, FaultCount, ForgetInv DEF Stopped, Crash
<1>4. ASSUME NEW cfg \in Configs, Restart(cfg) PROVE IndInv'
  <2>1. TypeOK'
    BY <1>4 DEF IndInv, TypeOK, PoolTypeOK, Restart, poolVars, setVars, passVars
  <2>2. \A v \in WorkerIDs : Times(v)' = Times(v)
    BY <1>4 DEF Times, Restart, poolVars, passVars
  <2>3. TimesApart'
    BY <1>4, <2>2 DEF IndInv, TimesApart, Restart, poolVars
  <2>4. \A v \in WorkerIDs : WorkerInv(v)'
    BY <1>4, FrameWorker DEF IndInv, Restart, poolVars, passVars, SeenKept, Kept
  <2>5. PassShape' /\ \A t \in TemplateIDs : TemplateInv(t)'
    BY <1>4 DEF IndInv, PassShape, TemplateInv, Restart, passVars
  <2> QED BY <2>1, <2>3, <2>4, <2>5 DEF IndInv
<1> QED BY <1>2, <1>3, <1>4 DEF Process

-----------------------------------------------------------------------------
(* The pass *)

\* The operation startRetire makes of a listed worker.
LEMMA RetireOpType ==
  ASSUME NEW l \in Listing, NEW force \in BOOLEAN
  PROVE  /\ RetireOp(l, force) \in Op
         /\ RetireOp(l, force).kind = "retire" /\ RetireOp(l, force).at = "wait" /\ RetireOp(l, force).stamp = 0
         /\ RetireOp(l, force).name = IF l.kind = "worker" THEN l.stamp ELSE 0
         /\ RetireOp(l, force).force = force
         /\ RetireOp(l, force).run = (l.status = "running")
<1>1. l.stamp \in Name /\ l.ss \in ScaleSets \cup {""} /\ 0 \in Name
  BY DEF Listing, Name
<1>2. /\ (IF l.ss \in configured THEN l.ss ELSE "") \in ScaleSets \cup {""}
      /\ (IF l.kind = "worker" THEN l.stamp ELSE 0) \in Name
      /\ (l.status = "running") \in BOOLEAN
  BY <1>1
<1> QED BY <1>1, <1>2 DEF RetireOp, NoOp, Op, Steps

\* The operation that startCreate starts.
LEMMA CreateOpType ==
  ASSUME NEW s \in ScaleSets, NEW t \in TemplateIDs
  PROVE  /\ CreateOp(s, t) \in Op
         /\ CreateOp(s, t).kind = "create" /\ CreateOp(s, t).at = "wait" /\ CreateOp(s, t).stamp = 0
         /\ CreateOp(s, t).name = 0 /\ CreateOp(s, t).ss = s /\ CreateOp(s, t).tpl = t
BY DEF CreateOp, NoOp, Op, Steps, Name

\* The pass starts to retire a worker it listed.
LEMMA RetireStarts ==
  ASSUME IndInv, NEW v \in WorkerIDs, NEW force \in BOOLEAN, seen[v].kind = "worker",
         op'[v] = RetireOp(seen[v], force),
         force /\ seen[v].status = "running" => seen[v].stamp \in expired,
         SeenKept(v), UNCHANGED <<vm, shown, runner, expired>>
  PROVE  WorkerInv(v)' /\ op'[v] \in Op /\ Times(v)' \subseteq Times(v)
<1>1. seen[v] \in Listing /\ WorkerInv(v)
  BY TypeParts DEF IndInv
<1>2. /\ op'[v] \in Op /\ op'[v].kind = "retire" /\ op'[v].at = "wait" /\ op'[v].stamp = 0
      /\ op'[v].name = seen[v].stamp /\ op'[v].force = force /\ op'[v].run = (seen[v].status = "running")
  BY <1>1, RetireOpType
<1>3. seen[v].stamp # 0
  BY <1>1 DEF WorkerInv, SeenShape
<1>4. OpShape(v)' /\ CreateShape(v)'
  BY <1>2, <1>3 DEF OpShape, CreateShape
<1>5. VMShape(v)'
  BY <1>1 DEF WorkerInv, VMShape
<1>6. SeenShape(v)'
  BY <1>1, <1>2 DEF WorkerInv, SeenShape, SeenKept
<1>7. RetireShape(v)'
  BY <1>1, <1>2, <1>3 DEF WorkerInv, SeenShape, RetireShape
<1>8. Times(v)' \subseteq Times(v)
  BY <1>2 DEF Times, SeenKept
<1> QED BY <1>2, <1>4, <1>5, <1>6, <1>7, <1>8 DEF WorkerInv

\* The pass starts a creation on a VMID it didn't list.
LEMMA CreateStarts ==
  ASSUME IndInv, NEW v \in WorkerIDs, NEW s \in ScaleSets, NEW t \in TemplateIDs, v \notin used,
         op'[v] = CreateOp(s, t), SeenKept(v), UNCHANGED <<vm, shown, runner, expired>>
  PROVE  WorkerInv(v)' /\ op'[v] \in Op /\ Times(v)' \subseteq Times(v)
<1>1. WorkerInv(v)
  BY DEF IndInv
<1>2. /\ op'[v] \in Op /\ op'[v].kind = "create" /\ op'[v].at = "wait" /\ op'[v].stamp = 0
      /\ op'[v].name = 0 /\ op'[v].ss = s /\ op'[v].tpl = t
  BY CreateOpType
<1>3. OpShape(v)' /\ CreateShape(v)' /\ RetireShape(v)'
  BY <1>2 DEF OpShape, CreateShape, RetireShape
<1>4. VMShape(v)'
  BY <1>1 DEF WorkerInv, VMShape
<1>5. SeenShape(v)'
  BY <1>1 DEF WorkerInv, SeenShape, SeenKept
<1>6. Times(v)' \subseteq Times(v)
  BY <1>2 DEF Times, SeenKept
<1> QED BY <1>2, <1>3, <1>4, <1>5, <1>6 DEF WorkerInv

\* The pass leaves a VMID alone.
LEMMA LeftAlone ==
  ASSUME IndInv, NEW v \in WorkerIDs, op'[v] = op[v], SeenKept(v), UNCHANGED <<vm, shown, runner, expired>>
  PROVE  WorkerInv(v)' /\ op'[v] \in Op /\ Times(v)' \subseteq Times(v)
<1>1. WorkerInv(v) /\ op[v] \in Op
  BY Basics
<1>2. WorkerInv(v)'
  BY <1>1, FrameWorker DEF Kept
<1> QED BY <1>1, <1>2 DEF Times, SeenKept

\* A step of the pass that connects no VMID with a new creation time.
LEMMA PassStep ==
  ASSUME IndInv, faults' \in 0..MaxFaults, op' \in [VMIDs -> Op],
         UNCHANGED <<poolVars, proc, configured, foreign, setVars, created>>, proc # "down",
         \A v \in WorkerIDs : WorkerInv(v)' /\ Times(v)' \subseteq Times(v),
         \A t \in TemplateIDs : TemplateInv(t)',
         PassShape', pc' \in {"idle", "workers"}, seen' \in [WorkerIDs -> Listing], used' \subseteq WorkerIDs,
         newest' \in TemplateIDs \cup {0}, todo' \subseteq WorkerIDs, asking' \subseteq WorkerIDs,
         sets' \subseteq ScaleSets
  PROVE  IndInv'
<1>1. TypeOK'
  BY DEF IndInv, TypeOK, PoolTypeOK, poolVars, setVars
<1>2. TimesApart'
  BY DEF IndInv, TimesApart, poolVars
<1> QED BY <1>1, <1>2 DEF IndInv

\* One worker of the pass is retired, or none.
LEMMA RetireOne ==
  ASSUME IndInv, NEW v \in WorkerIDs, NEW force \in BOOLEAN, seen[v].kind = "worker", proc # "down",
         op' = [op EXCEPT ![v] = RetireOp(seen[v], force)],
         force /\ seen[v].status = "running" => seen[v].stamp \in expired,
         faults' \in 0..MaxFaults, todo' \subseteq todo, asking' \subseteq asking,
         UNCHANGED <<poolVars, proc, configured, foreign, setVars, created, pc, seen, used, newest, sets>>
  PROVE  IndInv'
<1>1. TypeOK /\ op \in [VMIDs -> Op] /\ v \in VMIDs
  BY TypeParts, Basics DEF IndInv
<1>2. UNCHANGED <<vm, shown, runner, expired>> /\ \A u \in WorkerIDs : SeenKept(u)
  BY DEF poolVars, SeenKept
<1>3. op'[v] = RetireOp(seen[v], force) /\ \A u \in VMIDs \ {v} : op'[u] = op[u]
  BY <1>1
<1>4. WorkerInv(v)' /\ op'[v] \in Op /\ Times(v)' \subseteq Times(v)
  BY <1>2, <1>3, RetireStarts
<1>5. op' \in [VMIDs -> Op]
  BY <1>1, <1>3, <1>4, OpUpdate
<1>6. \A u \in WorkerIDs : WorkerInv(u)' /\ Times(u)' \subseteq Times(u)
  BY <1>2, <1>3, <1>4, LeftAlone DEF VMIDs
<1>7. \A t \in TemplateIDs : TemplateInv(t)'
  BY <1>3, Constants DEF IndInv, TemplateInv, VMIDs
<1>8. PassShape'
  BY DEF IndInv, PassShape
<1> QED BY <1>1, <1>5, <1>6, <1>7, <1>8, TypeParts, PassStep

\* A step of the pass that starts nothing.
LEMMA RetireNone ==
  ASSUME IndInv, faults' \in 0..MaxFaults, todo' \subseteq todo, asking' \subseteq todo \cup asking,
         UNCHANGED <<poolVars, proc, configured, op, foreign, setVars, created, pc, seen, used, newest, sets>>
  PROVE  IndInv'
<1>1. TypeOK /\ RestOK /\ \A t \in TemplateIDs : TemplateInv(t)'
  BY RestFromInv DEF IndInv, TemplateInv
<1>2. RestOK'
  BY <1>1 DEF RestOK, poolVars, setVars
<1> QED BY <1>1, <1>2, TypeParts, Frame DEF poolVars, Kept

\* LookAt keeps the invariant (reconcile, retireReason).
LEMMA LookAtInv ==
  ASSUME IndInv, NEW v \in WorkerIDs, LookAt(v)
  PROVE  IndInv'
<1>1. /\ seen[v].kind = "worker" /\ faults' \in 0..MaxFaults /\ proc # "down" /\ todo' \subseteq todo
      /\ UNCHANGED <<poolVars, proc, configured, foreign, setVars, created, pc, seen, used, newest, asking, sets>>
  BY Basics DEF IndInv, PassShape, LookAt
<1>2. CASE UNCHANGED op
  BY <1>1, <1>2, RetireNone
<1>3. CASE ForcedOut(seen[v]) /\ StartRetire(v, TRUE)
  <2>1. seen[v].status = "running" => seen[v].stamp \in expired
    BY <1>3 DEF ForcedOut
  <2> QED BY <1>1, <1>3, <2>1, RetireOne DEF StartRetire
<1>4. CASE StartRetire(v, FALSE)
  BY <1>1, <1>4, RetireOne DEF StartRetire
<1> QED BY <1>2, <1>3, <1>4 DEF LookAt

\* Ask and Answer keep the invariant (retireReason: RunnerByName).
LEMMA AskInv ==
  ASSUME IndInv, NEW v \in WorkerIDs, Ask(v) \/ Answer(v)
  PROVE  IndInv'
<1>1. CASE Ask(v)
  BY <1>1, Basics, RetireNone DEF Ask
<1>2. CASE Answer(v)
  <2>1. /\ seen[v].kind = "worker" /\ faults' \in 0..MaxFaults /\ proc # "down" /\ asking' \subseteq asking
        /\ UNCHANGED <<poolVars, proc, configured, foreign, setVars, created, pc, seen, used, newest, todo, sets>>
    BY <1>2, Basics, CallCount DEF IndInv, PassShape, Answer
  <2>2. CASE UNCHANGED op
    BY <2>1, <2>2, RetireNone
  <2>3. CASE StartRetire(v, FALSE)
    BY <2>1, <2>3, RetireOne DEF StartRetire
  <2> QED BY <1>2, <2>2, <2>3 DEF Answer
<1> QED BY <1>1, <1>2

\* BeginPass keeps the invariant (ListVMs, observe, pruneTemplates, strays): only here do listings enter the state.
LEMMA BeginPassInv ==
  ASSUME IndInv, BeginPass
  PROVE  IndInv'
<1>1. /\ TypeOK /\ op \in [VMIDs -> Op] /\ vm \in [WorkerIDs -> VM] /\ shown \in [WorkerIDs -> Status]
      /\ faults' \in 0..MaxFaults /\ RestOK
  BY TypeParts, RestFromInv DEF IndInv, BeginPass, RestOK
<1>2. UNCHANGED <<vm, shown, runner, expired>>
  BY DEF BeginPass, poolVars
<1>3. ASSUME NEW v \in WorkerIDs
      PROVE  /\ seen'[v] = ListVM(v) /\ ListVM(v) \in Listing
             /\ ListVM(v).kind = vm[v].kind /\ ListVM(v).stamp = vm[v].stamp /\ ListVM(v).status = shown[v]
             /\ v \in used' <=> vm[v].kind # "none"
  BY <1>1 DEF BeginPass, ListVM, Listing, VM
<1>4. PruneOp \in Op /\ PruneOp.kind = "prune" /\ PruneOp.at = "wait"
  BY DEF PruneOp, NoOp, Op, Steps, Name
<1>5. ToPrune \subseteq TemplateIDs /\ Strays \subseteq WorkerIDs
  BY DEF ToPrune, Strays, Templates
<1>6. ASSUME NEW v \in WorkerIDs
      PROVE  op'[v] = IF v \in Strays THEN RetireOp(ListVM(v), TRUE) ELSE op[v]
  BY <1>5, Constants DEF BeginPass, VMIDs
<1>7. ASSUME NEW t \in TemplateIDs
      PROVE  op'[t] = IF t \in ToPrune THEN PruneOp ELSE op[t]
  BY <1>5, Constants DEF BeginPass, VMIDs
<1>8. ASSUME NEW v \in WorkerIDs
      PROVE  WorkerInv(v)' /\ op'[v] \in Op /\ Times(v)' \subseteq Times(v)
  <2>1. WorkerInv(v) /\ op[v] \in Op
    BY Basics
  <2>2. SeenShape(v)'
    <3>1. seen'[v].kind = vm[v].kind /\ seen'[v].stamp = vm[v].stamp /\ (vm[v].kind # "none" => v \in used')
      BY <1>3
    <3> QED BY <1>2, <2>1, <3>1 DEF WorkerInv, VMShape, SeenShape
  <2>3. VMShape(v)'
    BY <1>2, <2>1 DEF WorkerInv, VMShape
  <2>4. CASE v \in Strays
    <3>1. op'[v] = RetireOp(ListVM(v), TRUE) /\ vm[v].kind = "clone"
      BY <1>6, <2>4 DEF Strays
    <3>2. shown[v] # "running"
      BY <2>1, <3>1 DEF WorkerInv, VMShape
    <3>3. /\ op'[v] \in Op /\ op'[v].kind = "retire" /\ op'[v].at = "wait" /\ op'[v].stamp = 0 /\ op'[v].name = 0
          /\ op'[v].force /\ ~op'[v].run
      <4>1. ListVM(v) \in Listing /\ ListVM(v).kind # "worker" /\ ListVM(v).status # "running"
        BY <1>3, <3>1, <3>2
      <4>2. /\ op'[v] \in Op /\ op'[v].kind = "retire" /\ op'[v].at = "wait" /\ op'[v].stamp = 0
            /\ op'[v].name = (IF ListVM(v).kind = "worker" THEN ListVM(v).stamp ELSE 0)
            /\ op'[v].force = TRUE /\ op'[v].run = (ListVM(v).status = "running")
        BY <3>1, <4>1, RetireOpType
      <4> QED BY <4>1, <4>2
    <3>4. OpShape(v)' /\ CreateShape(v)' /\ RetireShape(v)'
      BY <1>2, <3>1, <3>3 DEF OpShape, CreateShape, RetireShape
    <3>5. Times(v)' \subseteq Times(v)
      BY <1>2, <1>3, <3>3 DEF Times
    <3> QED BY <2>2, <2>3, <3>3, <3>4, <3>5 DEF WorkerInv
  <2>5. CASE v \notin Strays
    <3>1. op'[v] = op[v]
      BY <1>6, <2>5
    <3>2. OpShape(v)' /\ CreateShape(v)' /\ RetireShape(v)'
      BY <1>2, <2>1, <3>1 DEF WorkerInv, OpShape, CreateShape, RetireShape
    <3>3. Times(v)' \subseteq Times(v)
      BY <1>2, <1>3, <3>1 DEF Times
    <3> QED BY <2>1, <2>2, <2>3, <3>1, <3>2, <3>3 DEF WorkerInv
  <2> QED BY <2>4, <2>5
<1>9. ASSUME NEW t \in TemplateIDs
      PROVE  op'[t] \in Op /\ TemplateInv(t)'
  BY <1>1, <1>4, <1>7 DEF IndInv, TemplateInv, VMIDs
<1>10. op' \in [VMIDs -> Op]
  <2>1. op' = [id \in VMIDs |-> op'[id]]
    BY DEF BeginPass
  <2> QED BY <1>8, <1>9, <2>1 DEF VMIDs
<1>11. /\ seen' \in [WorkerIDs -> Listing] /\ used' \subseteq WorkerIDs /\ todo' \subseteq WorkerIDs
       /\ asking' \subseteq WorkerIDs
  BY <1>3 DEF BeginPass
<1>12. newest' \in TemplateIDs \cup {0}
  BY DEF BeginPass, NewestTemplate
<1>13. sets' \subseteq ScaleSets /\ pc' = "workers" /\ proc # "down"
  BY <1>1, ConfigAssumption DEF BeginPass, RestOK, ConfigAssumption
<1>14. PassShape'
  BY <1>3, <1>13 DEF PassShape, BeginPass
<1> QED BY <1>1, <1>8, <1>9, <1>10, <1>11, <1>12, <1>13, <1>14, PassStep DEF BeginPass

\* Scale keeps the invariant (scale, allocateVMID): creations start only on VMIDs the pass did not list.
LEMMA ScaleInv ==
  ASSUME IndInv, NEW s \in ScaleSets, Scale(s)
  PROVE  IndInv'
<1> DEFINE active == Cardinality(CreatingFor(s)) + Cardinality(Active(s))
           new == IF Known(s) /\ active < desired[s] THEN ToCreate(s, desired[s] - active) ELSE {}
           old == IF Known(s) /\ active > desired[s] THEN ToRetire(s, active - desired[s]) ELSE {}
<1>1. /\ TypeOK /\ op \in [VMIDs -> Op] /\ seen \in [WorkerIDs -> Listing] /\ faults' \in 0..MaxFaults
      /\ used \subseteq WorkerIDs /\ newest \in TemplateIDs \cup {0} /\ sets \subseteq ScaleSets
      /\ pc \in {"idle", "workers"} /\ todo \subseteq WorkerIDs /\ asking \subseteq WorkerIDs
  BY TypeParts, RestFromInv DEF IndInv, RestOK, Scale
<1>2. new \subseteq WorkerIDs \ used /\ (new # {} => newest \in TemplateIDs)
  BY <1>1 DEF ToCreate, Lowest, FreeIDs
<1>3. old \subseteq {v \in WorkerIDs : seen[v].kind = "worker"}
  BY DEF ToRetire, Lowest, Idle, Active
<1>4. op' = [id \in VMIDs |-> IF id \in new THEN CreateOp(s, newest)
                            ELSE IF id \in old THEN RetireOp(seen[id], FALSE)
                            ELSE op[id]]
  BY DEF Scale
<1>5. /\ UNCHANGED <<poolVars, proc, configured, foreign, setVars, todo, asking, created>> /\ todo = {} /\ asking = {}
      /\ proc # "down"
  BY DEF Scale
<1>6. \/ /\ pc' = "idle" /\ sets' = {} /\ used' = {} /\ newest' = 0
         /\ seen' = [v \in WorkerIDs |-> NoListing]
      \/ sets' = sets \ {s} /\ used' = used \cup new /\ UNCHANGED <<pc, seen, newest>>
  BY DEF Scale
<1> HIDE DEF active, new, old
<1>7. NoListing \in Listing /\ NoListing.kind = "none" /\ NoListing.stamp = 0
  BY DEF NoListing, Listing, Name, Status
<1>8. /\ seen' \in [WorkerIDs -> Listing] /\ used' \subseteq WorkerIDs /\ newest' \in TemplateIDs \cup {0}
      /\ sets' \subseteq sets /\ pc' \in {"idle", "workers"}
  BY <1>1, <1>2, <1>6, <1>7
<1>9. \A v \in WorkerIDs : SeenKept(v)
  BY <1>6, <1>7 DEF SeenKept
<1>10. UNCHANGED <<vm, shown, runner, expired>>
  BY <1>5 DEF poolVars
<1>11. ASSUME NEW v \in WorkerIDs
       PROVE  WorkerInv(v)' /\ op'[v] \in Op /\ Times(v)' \subseteq Times(v)
  <2>1. v \in VMIDs
    BY DEF VMIDs
  <2>2. CASE v \in new
    <3>1. op'[v] = CreateOp(s, newest) /\ v \notin used /\ newest \in TemplateIDs
      BY <1>2, <1>4, <2>1, <2>2
    <3> QED BY <1>9, <1>10, <3>1, CreateStarts
  <2>3. CASE v \in old /\ v \notin new
    <3>1. op'[v] = RetireOp(seen[v], FALSE) /\ seen[v].kind = "worker"
      BY <1>3, <1>4, <2>1, <2>3
    <3> QED BY <1>9, <1>10, <3>1, RetireStarts
  <2>4. CASE v \notin old /\ v \notin new
    <3>1. op'[v] = op[v]
      BY <1>4, <2>1, <2>4
    <3> QED BY <1>9, <1>10, <3>1, LeftAlone
  <2> QED BY <2>2, <2>3, <2>4
<1>12. ASSUME NEW t \in TemplateIDs
       PROVE  op'[t] \in Op /\ TemplateInv(t)'
  <2>1. op'[t] = op[t] /\ t \in VMIDs
    BY <1>2, <1>3, <1>4, Constants DEF VMIDs
  <2> QED BY <1>1, <2>1 DEF IndInv, TemplateInv
<1>13. op' \in [VMIDs -> Op]
  <2>1. op' = [id \in VMIDs |-> op'[id]]
    BY <1>4
  <2> QED BY <1>11, <1>12, <2>1 DEF VMIDs
<1>14. PassShape'
  BY <1>5, <1>8 DEF IndInv, PassShape
<1> QED BY <1>1, <1>5, <1>8, <1>11, <1>12, <1>13, <1>14, PassStep

\* The pass keeps the invariant.
LEMMA PassInv ==
  ASSUME IndInv, Pass
  PROVE  IndInv'
BY BeginPassInv, LookAtInv, AskInv, ScaleInv DEF Pass

-----------------------------------------------------------------------------
(* The invariant *)

\* The invariant holds in a fresh install.
LEMMA InitInv == Init => IndInv
<1> SUFFICES ASSUME Init PROVE IndInv
  OBVIOUS
<1>1. NoListing \in Listing /\ NoListing.kind = "none" /\ NoListing.stamp = 0
  BY DEF NoListing, Listing, Name, Status
<1>2. NoOp.kind = "none" /\ NoOp.at = "none" /\ NoOp.stamp = 0 /\ NoOp.name = 0
  BY DEF NoOp
<1>3. NoVM.kind = "none" /\ NoVM.stamp = 0 /\ ~NoVM.on
  BY DEF NoVM
<1>4. reserved \in [TemplateIDs -> Reserved]
  <2>1. NoReserved \in Reserved /\ [kind |-> "template", version |-> 1, base |-> 0] \in Reserved
    BY Bounds DEF NoReserved, Reserved
  <2> QED BY <2>1 DEF Init, PoolInit
<1>5. desired \in [ScaleSets -> Nat] /\ \A s \in ScaleSets : desired[s] <= MaxRunners[s]
  <2>1. \A s \in ScaleSets : MaxRunners[s] \in Nat
    BY ConfigAssumption DEF ConfigAssumption
  <2> QED BY <2>1 DEF Init
<1>6. vm \in [WorkerIDs -> VM] /\ op \in [VMIDs -> Op] /\ seen \in [WorkerIDs -> Listing]
  BY <1>1, NoVMType, NoOpType DEF Init, PoolInit
<1>7. shown \in [WorkerIDs -> Status] /\ runner \in [Stamps -> RunnerState] /\ expired \subseteq Stamps
  BY DEF Init, PoolInit, Status, RunnerState
<1>8. faults \in 0..MaxFaults /\ created \in 0..MaxCreated
  BY Bounds DEF Init, PoolInit
<1>9. TypeOK
  BY <1>4, <1>5, <1>6, <1>7, <1>8 DEF Init, TypeOK, PoolTypeOK
<1>10. \A v \in WorkerIDs : vm[v] = NoVM /\ shown[v] = "unknown" /\ op[v] = NoOp /\ seen[v] = NoListing
  BY DEF Init, PoolInit, VMIDs
<1>11. \A v \in WorkerIDs : WorkerInv(v)
  BY <1>1, <1>2, <1>3, <1>10 DEF WorkerInv, OpShape, VMShape, CreateShape, SeenShape, RetireShape
<1>12. \A v \in WorkerIDs : Times(v) = {}
  BY <1>1, <1>2, <1>3, <1>10 DEF Times
<1>13. TimesApart
  BY <1>12 DEF TimesApart, Init, PoolInit
<1>14. \A t \in TemplateIDs : TemplateInv(t)
  BY <1>2 DEF TemplateInv, Init, VMIDs
<1>15. PassShape
  BY DEF PassShape, Init
<1> QED BY <1>9, <1>11, <1>13, <1>14, <1>15 DEF IndInv

\* Stuttering keeps the invariant.
LEMMA StutterInv == IndInv /\ UNCHANGED vars => IndInv'
<1> SUFFICES ASSUME IndInv, UNCHANGED vars PROVE IndInv'
  OBVIOUS
<1>1. /\ shown \in [WorkerIDs -> Status] /\ runner \in [Stamps -> RunnerState] /\ RestOK /\ expired \subseteq Stamps
  BY RestFromInv, TypeParts DEF IndInv
<1>2. RestOK'
  BY <1>1 DEF RestOK, vars, poolVars, ctlVars, setVars
<1> QED BY <1>1, <1>2, QuietStep DEF vars, poolVars, ctlVars, Kept

\* Every step keeps the invariant.
LEMMA NextInv == IndInv /\ [Next]_vars => IndInv'
BY WorkerOpInv, TemplateOpInv, PassInv, ListenerInv, ProcessInv, GuestsInv, GitHubInv, InstallerInv, AgingInv,
   StutterInv DEF Next

\* The inductive invariant holds throughout, for every range of VMIDs, every configuration and every bound: whatever
\* fails, dies or is restarted in between (create, retire and reconcile together keep it).
THEOREM IndInvHolds == Spec => []IndInv
BY InitInv, NextInv, PTL DEF Spec

\* Type correctness.
THEOREM TypeCorrect == Spec => []TypeOK
<1>1. IndInv => TypeOK
  BY DEF IndInv
<1> QED BY <1>1, IndInvHolds, PTL

\* No operation ever meets a VM it wasn't started for.
THEOREM OwnVMs == Spec => []OperationsOwnTheirVM
<1>1. IndInv => OperationsOwnTheirVM
  BY DEF IndInv, WorkerInv, CreateShape, RetireShape, OperationsOwnTheirVM
<1> QED BY <1>1, IndInvHolds, PTL

\* A registered runner's VM is never an anonymous clone.
THEOREM Traceable == Spec => []RunnersTraceable
<1>1. IndInv => RunnersTraceable
  BY DEF IndInv, WorkerInv, VMShape, RunnersTraceable
<1> QED BY <1>1, IndInvHolds, PTL

\* The controller never cuts a live runner short, except after maxLifetime or when its creation fails.
THEOREM LiveRunnersSafe == Spec => LiveRunnersNotCut
<1>1. ASSUME IndInv, NEW v \in WorkerIDs, Stops(v), Live(v), op[v].kind # "create"
      PROVE  vm[v].stamp \in expired
  <2>1. OpShape(v) /\ VMShape(v) /\ RetireShape(v)
    BY <1>1 DEF IndInv, WorkerInv
  <2>2. op[v].kind = "retire" /\ op[v].at = "stop" /\ op[v].run /\ op[v].name # 0
    BY <1>1, <2>1 DEF Stops, OpShape
  <2>3. vm[v].kind # "none"
    BY <1>1, <2>1 DEF Live, VMShape
  <2>4. vm[v].stamp = op[v].name
    BY <2>1, <2>2, <2>3 DEF RetireShape
  <2>5. op[v].force
    BY <1>1, <2>1, <2>2, <2>4 DEF RetireShape, Live
  <2> QED BY <2>1, <2>2, <2>4, <2>5 DEF RetireShape
<1>2. IndInv /\ [Next]_vars =>
        [\A v \in WorkerIDs : Stops(v) /\ Live(v) => op[v].kind = "create" \/ vm[v].stamp \in expired]_vars
  BY <1>1
<1> QED BY <1>2, IndInvHolds, PTL DEF Spec, LiveRunnersNotCut

=============================================================================
