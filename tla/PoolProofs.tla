----------------------------- MODULE PoolProofs -----------------------------
(***************************************************************************)
(* Proofs of what the controller leaves alone in the pool: the templates   *)
(* its creations need, the workers it adopted, and, as long as nothing     *)
(* fails, no runner without a VM; and that the controller implements       *)
(* Worker: whatever fails, crashes or is cleaned up by whom, every name is *)
(* the name of one single-use worker.                                      *)
(***************************************************************************)
EXTENDS ControllerProofs

-----------------------------------------------------------------------------
(* Templates *)

Pruned(t) == op[t].kind = "prune"

\* A creation that is about to clone template t.
Pends(o, t) == o.kind = "create" /\ o.at \in {"wait", "clone"} /\ o.tpl = t

\* The pass, or a creation it started, counts on template t.
Used(t) == t = newest \/ \E v \in WorkerIDs : Pends(op[v], t)

VersionsApart ==
    \A t, u \in TemplateIDs :
        t # u /\ reserved[t].kind \in {"import", "template"} /\ reserved[u].kind \in {"import", "template"}
        => reserved[t].version # reserved[u].version

\* A smoke test is the only clone in the reserved range.
BaseShape == \A u \in TemplateIDs : reserved[u].base # 0 => reserved[u].kind = "build"

PruneShape == \A t \in TemplateIDs : Pruned(t) => ~HasClones(t) /\ t \in Templates

UsedShape == \A t \in TemplateIDs : Used(t) => t \in Templates /\ ~Pruned(t)

\* There is always a newest template, and nobody prunes it: one that is pruned never becomes the newest again.
NewestStays == \E n \in TemplateIDs : IsNewest(n) /\ ~Pruned(n)

TemplatesInv == VersionsApart /\ BaseShape /\ PruneShape /\ UsedShape /\ NewestStays

\* A step that leaves the reserved range alone, prunes nothing more and uses no other template.
LEMMA TemplatesFrame ==
    ASSUME TemplatesInv, UNCHANGED reserved,
           \A t \in TemplateIDs : (Used(t)' => Used(t)) /\ (Pruned(t)' => Pruned(t)),
           \A v \in WorkerIDs : vm'[v].tpl \in {vm[v].tpl, 0} \/ Used(vm'[v].tpl)
    PROVE  TemplatesInv'
<1> USE DEF TemplatesInv
<1>1. VersionsApart' /\ BaseShape'  BY DEF VersionsApart, BaseShape
<1>2. Templates' = Templates /\ \A t \in TemplateIDs : IsNewest(t)' <=> IsNewest(t)  BY DEF Templates, IsNewest
<1>3. PruneShape'
    <2> SUFFICES ASSUME NEW t \in TemplateIDs, Pruned(t)' PROVE ~HasClones(t)' /\ t \in Templates'
        BY DEF PruneShape
    <2>1. Pruned(t) /\ t # 0 /\ t \in Templates /\ ~HasClones(t)  BY Constants DEF PruneShape
    <2>2. ~Used(t)  BY <2>1 DEF UsedShape
    <2>3. \A v \in WorkerIDs : vm'[v].tpl # t  BY <2>1, <2>2 DEF HasClones
    <2>4. \A u \in TemplateIDs : reserved'[u].base # t  BY <2>1 DEF HasClones
    <2> QED  BY <1>2, <2>1, <2>3, <2>4 DEF HasClones
<1>4. UsedShape'  BY <1>2 DEF UsedShape
<1>5. NewestStays'  BY <1>2 DEF NewestStays
<1> QED  BY <1>1, <1>3, <1>4, <1>5

\* A step in the reserved range that leaves the templates alone and clones none that is pruned.
LEMMA ReservedStep ==
    ASSUME TemplatesInv, UNCHANGED ctlVars, VersionsApart', BaseShape',
           \A t \in TemplateIDs : reserved[t].kind = "template" => reserved'[t] = reserved[t],
           \A t \in TemplateIDs : reserved'[t].base \in {reserved[t].base, 0} \/ ~Pruned(reserved'[t].base),
           \E n \in TemplateIDs : IsNewest(n)' /\ ~Pruned(n),
           \A v \in WorkerIDs : vm'[v].tpl \in {vm[v].tpl, 0}
    PROVE  TemplatesInv'
<1> USE DEF TemplatesInv
<1>1. UNCHANGED <<op, newest>>  BY DEF ctlVars, passVars
<1>2. Templates \subseteq Templates'  BY DEF Templates
<1>3. \A t \in TemplateIDs : (Used(t)' <=> Used(t)) /\ (Pruned(t)' <=> Pruned(t))  BY <1>1 DEF Used, Pruned
<1>4. PruneShape'
    <2> SUFFICES ASSUME NEW t \in TemplateIDs, Pruned(t)' PROVE ~HasClones(t)' /\ t \in Templates'
        BY DEF PruneShape
    <2>1. Pruned(t) /\ t # 0 /\ t \in Templates /\ ~HasClones(t)  BY <1>3, Constants DEF PruneShape
    <2>2. \A v \in WorkerIDs : vm'[v].tpl # t  BY <2>1 DEF HasClones
    <2>3. \A u \in TemplateIDs : reserved'[u].base # t  BY <2>1 DEF HasClones
    <2> QED  BY <1>2, <2>1, <2>2, <2>3 DEF HasClones
<1>5. UsedShape'  BY <1>2, <1>3 DEF UsedShape
<1>6. NewestStays'  BY <1>3 DEF NewestStays
<1> QED  BY <1>4, <1>5, <1>6

\* The newest template is one that stays.
LEMMA NewestIsKept ==
    ASSUME IndInv, TemplatesInv
    PROVE  /\ NewestTemplate \in TemplateIDs /\ IsNewest(NewestTemplate) /\ ~Pruned(NewestTemplate)
<1>1. PICK n \in TemplateIDs : IsNewest(n) /\ ~Pruned(n)  BY DEF TemplatesInv, NewestStays
<1>2. NewestTemplate \in TemplateIDs /\ IsNewest(NewestTemplate)  BY <1>1 DEF NewestTemplate
<1>3. NewestTemplate = n
    <2>1. ASSUME NEW t \in TemplateIDs, IsNewest(t), t # n PROVE FALSE
        <3>1. reserved \in [TemplateIDs -> Reserved]  BY DEF IndInv, TypeOK, PoolTypeOK
        <3>2. reserved[t].version \in Nat /\ reserved[n].version \in Nat  BY <3>1, Bounds DEF Reserved
        <3>3. reserved[t].version = reserved[n].version  BY <1>1, <2>1, <3>2 DEF IsNewest
        <3>4. reserved[t].kind = "template" /\ reserved[n].kind = "template"  BY <1>1, <2>1 DEF IsNewest, Templates
        <3> QED  BY <2>1, <3>3, <3>4 DEF TemplatesInv, VersionsApart
    <2> QED  BY <1>2, <2>1
<1> QED  BY <1>1, <1>2, <1>3

\* The operation on a worker VMID moves on: it counts on no other template than before.
MovesOn(v) == /\ \A u \in WorkerIDs \ {v} : op'[u] = op[u]
              /\ \A t \in TemplateIDs : Pends(op'[v], t) => Pends(op[v], t)

LEMMA MovesOnSteps ==
    ASSUME IndInv, NEW v \in WorkerIDs, NEW step,
           \/ GoOn(v, step) /\ step \notin {"wait", "clone"}
           \/ CleanUp(v) \/ EndOp(v, TRUE) \/ EndOp(v, FALSE)
    PROVE  MovesOn(v)
<1>1. op[v] \in Op  BY Basics
<1>2. CASE GoOn(v, step) /\ step \notin {"wait", "clone"}
    <2>1. op'[v] = [op[v] EXCEPT !.at = step] /\ \A u \in WorkerIDs \ {v} : op'[u] = op[u]
        BY <1>2, OneOp DEF GoOn
    <2>2. op'[v].at = step  BY <1>1, <2>1 DEF Op
    <2> QED  BY <1>2, <2>1, <2>2 DEF MovesOn, Pends
<1>3. CASE CleanUp(v)
    <2>1. op'[v] = [op[v] EXCEPT !.at = "stop", !.force = TRUE, !.run = TRUE]
          /\ \A u \in WorkerIDs \ {v} : op'[u] = op[u]
        BY <1>3, OneOp DEF CleanUp
    <2>2. op'[v].at = "stop"  BY <1>1, <2>1 DEF Op
    <2> QED  BY <2>1, <2>2 DEF MovesOn, Pends
<1>4. CASE EndOp(v, TRUE) \/ EndOp(v, FALSE)
    <2>1. op'[v] = NoOp /\ \A u \in WorkerIDs \ {v} : op'[u] = op[u]  BY <1>4, OneOp DEF EndOp
    <2>2. NoOp.kind = "none"  BY DEF NoOp
    <2> QED  BY <2>1, <2>2 DEF MovesOn, Pends
<1> QED  BY <1>2, <1>3, <1>4

\* A step of the operation on a worker VMID.
LEMMA MovesOnFrame ==
    ASSUME IndInv, TemplatesInv, NEW v \in WorkerIDs, MovesOn(v), NEW o, op' = [op EXCEPT ![v] = o],
           UNCHANGED <<reserved, newest>>,
           \A u \in WorkerIDs : vm'[u].tpl \in {vm[u].tpl, 0} \/ Used(vm'[u].tpl)
    PROVE  TemplatesInv'
<1>1. op \in [VMIDs -> Op] /\ \A t \in TemplateIDs : t \in VMIDs /\ t # v
    BY Constants DEF IndInv, TypeOK, VMIDs
<1>2. \A t \in TemplateIDs : op'[t] = op[t]  BY <1>1
<1>3. \A t \in TemplateIDs : Pruned(t)' <=> Pruned(t)  BY <1>2 DEF Pruned
<1>4. \A t \in TemplateIDs : Used(t)' => Used(t)  BY DEF Used, MovesOn
<1> QED  BY <1>3, <1>4, TemplatesFrame

\* A change to a VM that leaves the template it says it came from.
LEMMA SameTemplate ==
    ASSUME IndInv, NEW v \in WorkerIDs, NEW m, vm' = [vm EXCEPT ![v] = m], m.tpl \in {vm[v].tpl, 0}
    PROVE  \A u \in WorkerIDs : vm'[u].tpl \in {vm[u].tpl, 0}
BY OneVM

\* create's and retire's steps but the clone and the slot.
LEMMA StepTemplates ==
    ASSUME IndInv, TemplatesInv, NEW v \in WorkerIDs,
           \/ Configure(v) \/ Register(v) \/ StartVM(v) \/ Signal(v) \/ Mark(v)
           \/ RemoveRunner(v) \/ Stop(v) \/ Destroy(v) \/ RemoveRunnerAfter(v)
    PROVE  TemplatesInv'
<1>1. op[v] \in Op /\ vm[v] \in VM  BY Basics
<1>2. UNCHANGED <<reserved, newest>>
    BY DEF Configure, Register, StartVM, Signal, Mark, RemoveRunner, Stop, Destroy, RemoveRunnerAfter, passVars
<1>3. PICK o : op' = [op EXCEPT ![v] = o]
    BY DEF Configure, Register, StartVM, Signal, Mark, RemoveRunner, Stop, Destroy, RemoveRunnerAfter,
           GoOn, CleanUp, EndOp, VMGone
<1>4. MovesOn(v)
    <2>1. CASE \/ \E step \in {"register", "signal", "mark", "stop", "destroy", "removeAfter"} : GoOn(v, step)
               \/ CleanUp(v) \/ EndOp(v, TRUE) \/ EndOp(v, FALSE)
        BY <2>1, MovesOnSteps
    <2>2. CASE op' = [op EXCEPT ![v] = [@ EXCEPT !.at = After.register, !.name = op[v].stamp]]
        <3>1. op'[v] = [op[v] EXCEPT !.at = "start", !.name = op[v].stamp] /\ \A u \in WorkerIDs \ {v} : op'[u] = op[u]
            BY <2>2, OneOp DEF After
        <3>2. op'[v].at = "start"  BY <1>1, <3>1 DEF Op
        <3> QED  BY <3>1, <3>2 DEF MovesOn, Pends
    <2>3. After.configure = "register" /\ After.start = "signal" /\ After.signal = "mark"  BY DEF After
    <2>4. DestroyVMStep(op[v]) \in {"stop", "destroy"}  BY DEF DestroyVMStep
    <2>5. VMGone(v) => GoOn(v, "removeAfter") \/ EndOp(v, TRUE)  BY DEF VMGone
    <2>6. Configure(v) => GoOn(v, "register") \/ CleanUp(v)  BY <2>3 DEF Configure
    <2>7. StartVM(v) => GoOn(v, "signal") \/ CleanUp(v)  BY <2>3 DEF StartVM
    <2>8. Signal(v) => GoOn(v, "mark") \/ CleanUp(v)  BY <2>3 DEF Signal
    <2>9. Mark(v) => EndOp(v, FALSE) \/ CleanUp(v)  BY DEF Mark
    <2>10. RemoveRunner(v) => GoOn(v, DestroyVMStep(op[v])) \/ EndOp(v, TRUE)  BY DEF RemoveRunner
    <2>11. Stop(v) => GoOn(v, "destroy")  BY DEF Stop
    <2>12. Destroy(v) => GoOn(v, "removeAfter") \/ EndOp(v, TRUE)  BY <2>5 DEF Destroy
    <2>13. RemoveRunnerAfter(v) => EndOp(v, TRUE)  BY DEF RemoveRunnerAfter
    <2>14. Register(v) => CleanUp(v) \/ op' = [op EXCEPT ![v] = [@ EXCEPT !.at = After.register, !.name = op[v].stamp]]
        BY DEF Register
    <2> QED  BY <2>1, <2>2, <2>4, <2>6, <2>7, <2>8, <2>9, <2>10, <2>11, <2>12, <2>13, <2>14
<1>5. \A u \in WorkerIDs : vm'[u].tpl \in {vm[u].tpl, 0}
    <2>1. CASE UNCHANGED vm  BY <2>1
    <2>2. CASE Tagged(v, op[v].ss)
        <3>1. [vm[v] EXCEPT !.kind = "worker", !.ss = op[v].ss].tpl = vm[v].tpl  BY <1>1 DEF VM
        <3> QED  BY <2>2, <3>1, SameTemplate DEF Tagged
    <2>3. CASE \E b \in BOOLEAN : vm' = [vm EXCEPT ![v] = [@ EXCEPT !.on = b]]
        <3>1. \A b \in BOOLEAN : [vm[v] EXCEPT !.on = b].tpl = vm[v].tpl  BY <1>1 DEF VM
        <3> QED  BY <2>3, <3>1, SameTemplate
    <2>4. CASE vm' = [vm EXCEPT ![v] = [@ EXCEPT !.jit = TRUE]]
        <3>1. [vm[v] EXCEPT !.jit = TRUE].tpl = vm[v].tpl  BY <1>1 DEF VM
        <3> QED  BY <2>4, <3>1, SameTemplate
    <2>5. CASE vm' = [vm EXCEPT ![v] = [@ EXCEPT !.ready = TRUE]]
        <3>1. [vm[v] EXCEPT !.ready = TRUE].tpl = vm[v].tpl  BY <1>1 DEF VM
        <3> QED  BY <2>5, <3>1, SameTemplate
    <2>6. CASE Destroyed(v)
        <3>1. NoVM.tpl = 0  BY DEF NoVM
        <3> QED  BY <2>6, <3>1, SameTemplate DEF Destroyed
    <2> QED  BY <2>1, <2>2, <2>3, <2>4, <2>5, <2>6
             DEF Configure, Register, StartVM, Signal, Mark, RemoveRunner, Stop, Destroy, RemoveRunnerAfter
<1> QED  BY <1>2, <1>3, <1>4, <1>5, MovesOnFrame

\* Clone: the template it clones is in use until then.
LEMMA CloneTemplates ==
    ASSUME IndInv, TemplatesInv, NEW v \in WorkerIDs, Clone(v)
    PROVE  TemplatesInv'
<1>1. UNCHANGED <<reserved, newest>> /\ op[v].kind = "create" /\ op[v].at = "clone"  BY DEF Clone, passVars
<1>2. PICK o : op' = [op EXCEPT ![v] = o]  BY DEF Clone, GoOn, EndOp, VMIDInUse
<1>3. MovesOn(v)
    <2>1. GoOn(v, "configure") \/ EndOp(v, TRUE)  BY DEF Clone, After, VMIDInUse
    <2>2. "configure" \notin {"wait", "clone"}  OBVIOUS
    <2> QED  BY <2>1, <2>2, MovesOnSteps, Zenon
<1>4. \A u \in WorkerIDs : vm'[u].tpl \in {vm[u].tpl, 0} \/ Used(vm'[u].tpl)
    <2>1. CASE UNCHANGED vm  BY <2>1
    <2>2. CASE Cloned(v, op[v].stamp, op[v].tpl)
        <3>1. vm'[v] = [NoVM EXCEPT !.kind = "clone", !.stamp = op[v].stamp, !.tpl = op[v].tpl]
              /\ \A u \in WorkerIDs \ {v} : vm'[u] = vm[u]
            BY <2>2, OneVM DEF Cloned
        <3>2. vm'[v].tpl = op[v].tpl  BY <3>1 DEF NoVM
        <3>3. Used(op[v].tpl)  BY <1>1 DEF Used, Pends
        <3> QED  BY <3>1, <3>2, <3>3
    <2> QED  BY <2>1, <2>2 DEF Clone
<1> QED  BY <1>1, <1>2, <1>3, <1>4, MovesOnFrame

\* GetSlot and DropWaiting of a worker.
LEMMA SlotTemplates ==
    ASSUME IndInv, TemplatesInv, NEW v \in WorkerIDs, GetSlot(v) \/ DropWaiting(v)
    PROVE  TemplatesInv'
<1>1. UNCHANGED <<reserved, newest, vm>> /\ op[v].at = "wait"  BY DEF GetSlot, DropWaiting, poolVars, passVars
<1>2. op[v] \in Op  BY Basics
<1>3. PICK o : op' = [op EXCEPT ![v] = o]  BY DEF GetSlot, DropWaiting
<1>4. o = op'[v] /\ \A u \in WorkerIDs \ {v} : op'[u] = op[u]  BY <1>3, OneOp
<1>5. \A t \in TemplateIDs : Pends(o, t) => Pends(op[v], t)
    <2>1. CASE op[v].kind = "create" /\ op' = [op EXCEPT ![v] = [@ EXCEPT !.at = "clone", !.stamp = NextName]]
        <3>1. o = [op[v] EXCEPT !.at = "clone", !.stamp = NextName]  BY <2>1, <1>4, OneOp
        <3>2. o.tpl = op[v].tpl  BY <1>2, <3>1 DEF Op
        <3> QED  BY <1>1, <2>1, <3>2 DEF Pends
    <2>2. CASE op[v].kind # "create" /\ \E at : op' = [op EXCEPT ![v].at = at]
        <3>1. PICK at : op' = [op EXCEPT ![v].at = at]  BY <2>2
        <3>2. o = [op[v] EXCEPT !.at = at]  BY <3>1, <1>4, OneOp
        <3>3. o.kind = op[v].kind  BY <1>2, <3>2 DEF Op
        <3> QED  BY <2>2, <3>3 DEF Pends
    <2>3. CASE op' = [op EXCEPT ![v] = NoOp]
        <3>1. o = NoOp  BY <2>3, <1>4, OneOp
        <3> QED  BY <3>1 DEF Pends, NoOp
    <2> QED  BY <2>1, <2>2, <2>3 DEF GetSlot, DropWaiting
<1>6. MovesOn(v)  BY <1>4, <1>5 DEF MovesOn
<1> QED  BY <1>1, <1>3, <1>6, MovesOnFrame

\* Every step of an operation on a worker VMID.
LEMMA WorkerOpTemplates ==
    ASSUME IndInv, TemplatesInv, NEW v \in WorkerIDs, WorkerOp(v)
    PROVE  TemplatesInv'
BY SlotTemplates, CloneTemplates, StepTemplates DEF WorkerOp

\* The operation on a template: only one that is pruned goes, and nobody counts on it.
LEMMA TemplateOpTemplates ==
    ASSUME IndInv, TemplatesInv, NEW t \in TemplateIDs, TemplateOp(t)
    PROVE  TemplatesInv'
<1> USE DEF TemplatesInv
<1>1. t \in VMIDs /\ t \notin WorkerIDs /\ op \in [VMIDs -> Op] /\ VMIDs = WorkerIDs \cup TemplateIDs /\ TemplateInv(t)
    BY Constants DEF IndInv, TypeOK, VMIDs
<1>2. UNCHANGED <<vm, newest>>
    BY DEF TemplateOp, GetSlot, DropWaiting, PruneDestroy, poolVars, passVars
<1>3. PICK o : op' = [op EXCEPT ![t] = o] /\ (o = NoOp \/ o = [op[t] EXCEPT !.at = "destroy"])
    BY <1>1 DEF TemplateOp, GetSlot, DropWaiting, PruneDestroy, EndOp, TemplateInv
<1>4. op'[t] = o /\ (\A u \in TemplateIDs \ {t} : op'[u] = op[u]) /\ (\A v \in WorkerIDs : op'[v] = op[v])
    BY <1>1, <1>3
<1>5. o.kind \in {"none", op[t].kind}
    <2>1. NoOp.kind = "none" /\ op[t] \in Op  BY <1>1 DEF NoOp
    <2>2. [op[t] EXCEPT !.at = "destroy"].kind = op[t].kind  BY <2>1 DEF Op
    <2> QED  BY <1>3, <2>1, <2>2
<1>6. \A u \in TemplateIDs : (Used(u)' <=> Used(u)) /\ (Pruned(u)' => Pruned(u))
    BY <1>2, <1>4, <1>5 DEF Used, Pruned
<1>7. CASE UNCHANGED reserved  BY <1>2, <1>6, <1>7, TemplatesFrame
<1>8. CASE PruneDestroy(t) /\ reserved' = [reserved EXCEPT ![t] = NoReserved]
    <2>1. Pruned(t) /\ ~Used(t)  BY <1>8 DEF PruneDestroy, Pruned, UsedShape
    <2>2. reserved \in [TemplateIDs -> Reserved]  BY DEF IndInv, TypeOK, PoolTypeOK
    <2>3. reserved'[t] = NoReserved /\ \A u \in TemplateIDs \ {t} : reserved'[u] = reserved[u]  BY <1>8, <2>2
    <2>4. NoReserved.kind = "none" /\ NoReserved.base = 0  BY DEF NoReserved
    <2>5. Templates' = Templates \ {t}  BY <2>3, <2>4 DEF Templates
    <2>6. ~Pruned(t)'
        <3>1. op'[t] = NoOp  BY <1>1, <1>8 DEF PruneDestroy, EndOp
        <3>2. NoOp.kind = "none"  BY DEF NoOp
        <3> QED  BY <3>1, <3>2 DEF Pruned
    <2>7. VersionsApart' /\ BaseShape'  BY <2>3, <2>4 DEF VersionsApart, BaseShape
    <2>8. PruneShape'
        <3> SUFFICES ASSUME NEW u \in TemplateIDs, Pruned(u)' PROVE ~HasClones(u)' /\ u \in Templates'
            BY DEF PruneShape
        <3>1. Pruned(u) /\ u # t /\ u # 0  BY <1>6, <2>6, Constants
        <3>2. u \in Templates /\ ~HasClones(u)  BY <3>1 DEF PruneShape
        <3>3. \A w \in TemplateIDs : reserved'[w].base # u  BY <2>3, <2>4, <3>1, <3>2 DEF HasClones
        <3> QED  BY <1>2, <2>5, <3>1, <3>2, <3>3 DEF HasClones
    <2>9. UsedShape'  BY <1>6, <2>1, <2>5 DEF UsedShape
    <2>10. NewestStays'
        <3>1. PICK n \in TemplateIDs : IsNewest(n) /\ ~Pruned(n)  BY DEF NewestStays
        <3>2. n # t /\ ~Pruned(n)'  BY <1>6, <2>1, <3>1
        <3>3. IsNewest(n)'  BY <2>3, <2>5, <3>1, <3>2 DEF IsNewest, Templates
        <3> QED  BY <3>2, <3>3 DEF NewestStays
    <2> QED  BY <2>7, <2>8, <2>9, <2>10
<1> QED  BY <1>7, <1>8 DEF TemplateOp, GetSlot, DropWaiting, PruneDestroy, poolVars

\* A step that starts operations on workers, which clone at most the pass's newest template.
LEMMA StartsTemplates ==
    ASSUME IndInv, TemplatesInv, UNCHANGED <<vm, reserved>>, newest' \in {newest, 0},
           \A t \in TemplateIDs : op'[t].kind \in {op[t].kind, "none"},
           \A v \in WorkerIDs : \/ op'[v] = op[v] \/ op'[v].kind # "create" \/ op'[v].tpl = newest
    PROVE  TemplatesInv'
<1>1. \A t \in TemplateIDs : Pruned(t)' => Pruned(t)  BY DEF Pruned
<1>2. \A t \in TemplateIDs : Used(t)' => Used(t)  BY Constants DEF Used, Pends
<1> QED  BY <1>1, <1>2, TemplatesFrame

\* BeginPass: what it starts to prune is neither the newest template nor one that has clones.
LEMMA BeginPassTemplates ==
    ASSUME IndInv, TemplatesInv, BeginPass
    PROVE  TemplatesInv'
<1> USE DEF TemplatesInv
<1>1. PICK N \in TemplateIDs : N = NewestTemplate /\ IsNewest(N) /\ ~Pruned(N)  BY NewestIsKept
<1>2. UNCHANGED <<vm, reserved>> /\ newest' = N  BY <1>1 DEF BeginPass, poolVars
<1>3. vm \in [WorkerIDs -> VM] /\ shown \in [WorkerIDs -> Status]  BY DEF IndInv, TypeOK, PoolTypeOK
<1>4. ToPrune \subseteq TemplateIDs \ {N} /\ Strays \subseteq WorkerIDs /\ ToPrune \subseteq Templates
    BY <1>1 DEF ToPrune, Strays, Templates
<1>5. \A t \in TemplateIDs : op'[t] = IF t \in ToPrune THEN PruneOp ELSE op[t]
    BY <1>4, Constants DEF BeginPass, VMIDs
<1>6. ASSUME NEW v \in WorkerIDs PROVE op'[v] = op[v] \/ op'[v].kind = "retire"
    <2>1. op'[v] = IF v \in Strays THEN RetireOp(ListVM(v), TRUE) ELSE op[v]
        BY <1>4, Constants DEF BeginPass, VMIDs
    <2>2. ListVM(v) \in Listing  BY <1>3 DEF ListVM, Listing, VM
    <2> QED  BY <2>1, <2>2, RetireOpType
<1>7. \A t \in TemplateIDs : Pruned(t)' => Pruned(t) \/ t \in ToPrune  BY <1>5 DEF Pruned
<1>8. VersionsApart' /\ BaseShape' /\ Templates' = Templates /\ \A t \in TemplateIDs : IsNewest(t)' <=> IsNewest(t)
    BY <1>2 DEF VersionsApart, BaseShape, Templates, IsNewest
<1>9. ~Pruned(N)'  BY <1>1, <1>4, <1>7
<1>10. PruneShape'
    <2> SUFFICES ASSUME NEW t \in TemplateIDs, Pruned(t)' PROVE ~HasClones(t)' /\ t \in Templates'
        BY DEF PruneShape
    <2>1. HasClones(t)' <=> HasClones(t)  BY <1>2 DEF HasClones
    <2>2. CASE Pruned(t)  BY <1>8, <2>1, <2>2 DEF PruneShape
    <2>3. CASE t \in ToPrune
        <3>1. ~PruningWaits /\ t # 0 /\ ~ \E v \in WorkerIDs : vm[v].tpl = t  BY <2>3, Constants DEF ToPrune
        <3>2. \A u \in TemplateIDs : reserved[u].kind # "build"  BY <3>1 DEF PruningWaits
        <3>3. \A u \in TemplateIDs : reserved[u].base # t  BY <3>1, <3>2 DEF BaseShape
        <3> QED  BY <1>4, <1>8, <2>1, <2>3, <3>1, <3>3 DEF HasClones
    <2> QED  BY <1>7, <2>2, <2>3
<1>11. UsedShape'
    <2> SUFFICES ASSUME NEW t \in TemplateIDs, Used(t)' PROVE t \in Templates' /\ ~Pruned(t)'
        BY DEF UsedShape
    <2>1. CASE t = N  BY <1>1, <1>8, <1>9, <2>1 DEF IsNewest
    <2>2. CASE \E v \in WorkerIDs : Pends(op'[v], t)
        <3>1. PICK v \in WorkerIDs : Pends(op'[v], t)  BY <2>2
        <3>2. Pends(op[v], t)  BY <1>6, <3>1 DEF Pends
        <3>3. Used(t) /\ CreatingAny  BY <3>2 DEF Used, CreatingAny, Pends
        <3>4. ToPrune = {}  BY <3>3 DEF ToPrune, PruningWaits
        <3> QED  BY <1>7, <1>8, <3>3, <3>4 DEF UsedShape
    <2> QED  BY <1>2, <2>1, <2>2 DEF Used
<1>12. NewestStays'  BY <1>1, <1>8, <1>9 DEF NewestStays
<1> QED  BY <1>8, <1>10, <1>11, <1>12

\* The rest of the pass.
LEMMA PassTemplates ==
    ASSUME IndInv, TemplatesInv, Pass
    PROVE  TemplatesInv'
<1>1. op \in [VMIDs -> Op] /\ seen \in [WorkerIDs -> Listing] /\ VMIDs = WorkerIDs \cup TemplateIDs
      /\ \A t \in TemplateIDs : t \notin WorkerIDs
    BY Constants DEF IndInv, TypeOK, VMIDs
<1>2. ASSUME NEW v \in WorkerIDs, LookAt(v) \/ Ask(v) \/ Answer(v) PROVE TemplatesInv'
    <2>1. UNCHANGED <<vm, reserved, newest>>  BY <1>2 DEF LookAt, Ask, Answer, poolVars
    <2>2. CASE UNCHANGED op  BY <2>1, <2>2, StartsTemplates
    <2>3. CASE \E force \in BOOLEAN : StartRetire(v, force)
        <3>1. PICK force \in BOOLEAN : StartRetire(v, force)  BY <2>3
        <3>2. op'[v] = RetireOp(seen[v], force) /\ \A u \in VMIDs \ {v} : op'[u] = op[u]
            BY <1>1, <3>1 DEF StartRetire
        <3>3. op'[v].kind = "retire"  BY <1>1, <3>2, RetireOpType
        <3> QED  BY <1>1, <2>1, <3>2, <3>3, StartsTemplates
    <2> QED  BY <1>2, <2>2, <2>3 DEF LookAt, Ask, Answer
<1>3. ASSUME NEW s \in ScaleSets, Scale(s) PROVE TemplatesInv'
    <2> DEFINE active == Cardinality(CreatingFor(s)) + Cardinality(Active(s))
               new == IF Known(s) /\ active < desired[s] THEN ToCreate(s, desired[s] - active) ELSE {}
               old == IF Known(s) /\ active > desired[s] THEN ToRetire(s, active - desired[s]) ELSE {}
    <2>1. UNCHANGED <<vm, reserved>> /\ newest' \in {newest, 0}  BY <1>3 DEF Scale, poolVars
    <2>2. new \subseteq WorkerIDs /\ (new # {} => newest \in TemplateIDs)
        <3>1. newest \in TemplateIDs \cup {0}  BY DEF IndInv, TypeOK
        <3> QED  BY <3>1 DEF ToCreate, Lowest, FreeIDs
    <2>3. old \subseteq WorkerIDs  BY DEF ToRetire, Lowest, Idle, Active
    <2>4. op' = [id \in VMIDs |-> IF id \in new THEN CreateOp(s, newest)
                                  ELSE IF id \in old THEN RetireOp(seen[id], FALSE)
                                  ELSE op[id]]
        BY <1>3 DEF Scale
    <2> HIDE DEF active, new, old
    <2>5. \A t \in TemplateIDs : op'[t] = op[t]  BY <1>1, <2>2, <2>3, <2>4
    <2>6. ASSUME NEW v \in WorkerIDs PROVE op'[v] = op[v] \/ op'[v].kind # "create" \/ op'[v].tpl = newest
        <3>1. CASE v \in new
            <4>1. op'[v] = CreateOp(s, newest) /\ newest \in TemplateIDs  BY <1>1, <2>2, <2>4, <3>1
            <4> QED  BY <4>1, CreateOpType
        <3>2. CASE v \in old /\ v \notin new
            <4>1. op'[v] = RetireOp(seen[v], FALSE)  BY <1>1, <2>4, <3>2
            <4>2. seen[v] \in Listing  BY <1>1
            <4>3. RetireOp(seen[v], FALSE).kind = "retire"  BY <4>2, RetireOpType
            <4> QED  BY <4>1, <4>3
        <3>3. CASE v \notin old /\ v \notin new  BY <1>1, <2>4, <3>3
        <3> QED  BY <3>1, <3>2, <3>3
    <2> QED  BY <2>1, <2>5, <2>6, StartsTemplates
<1> QED  BY <1>2, <1>3, BeginPassTemplates DEF Pass

\* The listener, the timers and the process.
LEMMA ProcessTemplates ==
    ASSUME IndInv, TemplatesInv, Listener \/ Timers \/ Process
    PROVE  TemplatesInv'
<1>1. UNCHANGED <<vm, reserved>>
    BY DEF Listener, Timers, Process, DesiredRunners, JobStarted, JobCompleted, BackoffEnds, Shutdown, Stopped, Crash,
           Restart, poolVars
<1>2. CASE UNCHANGED <<op, newest>>  BY <1>1, <1>2, StartsTemplates
<1>3. CASE Forget
    <2>1. NoOp.kind = "none"  BY DEF NoOp
    <2>2. \A id \in VMIDs : op'[id].kind = "none"  BY <1>3, <2>1 DEF Forget
    <2>3. newest' = 0  BY <1>3 DEF Forget
    <2>4. \A t \in TemplateIDs : op'[t].kind = "none"  BY <2>2 DEF VMIDs
    <2>5. \A v \in WorkerIDs : op'[v].kind # "create"  BY <2>2 DEF VMIDs
    <2> QED  BY <1>1, <2>3, <2>4, <2>5, StartsTemplates
<1> QED  BY <1>2, <1>3
        DEF Listener, Timers, Process, DesiredRunners, JobStarted, JobCompleted, BackoffEnds, Shutdown, Stopped, Crash,
           Restart, passVars

\* The guests, GitHub and the workers' ages leave the templates alone.
LEMMA SurroundingsTemplates ==
    ASSUME IndInv, TemplatesInv, UNCHANGED ctlVars, Guests \/ GitHub \/ Aging
    PROVE  TemplatesInv'
<1>1. UNCHANGED <<op, newest>>  BY DEF ctlVars, passVars
<1>2. UNCHANGED reserved
    BY DEF Guests, GitHub, Aging, Sample, AssignJob, FinishJob, PowerOff, GuestDies, RunnerDeleted, JobAbandoned, Expire
<1>3. \A u \in WorkerIDs : vm'[u].tpl \in {vm[u].tpl, 0}
    <2>1. CASE UNCHANGED vm  BY <2>1
    <2>2. ASSUME NEW v \in WorkerIDs, vm' = [vm EXCEPT ![v] = [@ EXCEPT !.on = FALSE]]
          PROVE  \A u \in WorkerIDs : vm'[u].tpl \in {vm[u].tpl, 0}
        <3>1. vm[v] \in VM  BY Basics
        <3>2. [vm[v] EXCEPT !.on = FALSE].tpl = vm[v].tpl  BY <3>1 DEF VM
        <3> QED  BY <2>2, <3>2, SameTemplate
    <2> QED  BY <2>1, <2>2 DEF Guests, GitHub, Aging, Sample, AssignJob, FinishJob, PowerOff, GuestDies, RunnerDeleted,
                               JobAbandoned, Expire
<1>4. \A t \in TemplateIDs : (Used(t)' <=> Used(t)) /\ (Pruned(t)' <=> Pruned(t))  BY <1>1 DEF Used, Pruned
<1> QED  BY <1>2, <1>3, <1>4, TemplatesFrame

\* importTemplate: the new import's version is the highest, and it takes no template's VMID.
LEMMA ImportTemplates ==
    ASSUME IndInv, TemplatesInv, UNCHANGED ctlVars, NEW t \in TemplateIDs, NEW version \in 1..MaxVersion,
           ImportTemplate(t, version)
    PROVE  TemplatesInv'
<1> USE DEF TemplatesInv
<1>1. reserved \in [TemplateIDs -> Reserved] /\ vm \in [WorkerIDs -> VM]  BY DEF IndInv, TypeOK, PoolTypeOK
<1>2. \A u \in TemplateIDs : reserved[u].version < version /\ reserved[u].version \in Nat
    BY <1>1, Bounds DEF ImportTemplate, Reserved
<1>3. PICK same \in SUBSET TemplateIDs :
        LET left == [u \in TemplateIDs |->
                        IF u \in same /\ reserved[u].kind = "import" THEN NoReserved ELSE reserved[u]]
            gone == {v \in WorkerIDs : vm[v].kind = "clone" /\ vm[v].tpl \in same}
        IN /\ FreeReserved(t, left)
           /\ reserved' = [left EXCEPT ![t] = [kind |-> "import", version |-> version, base |-> 0]]
           /\ vm' = [v \in WorkerIDs |-> IF v \in gone THEN NoVM ELSE vm[v]]
    BY DEF ImportTemplate
<1> DEFINE left == [u \in TemplateIDs |-> IF u \in same /\ reserved[u].kind = "import" THEN NoReserved ELSE reserved[u]]
           import == [kind |-> "import", version |-> version, base |-> 0]
<1>4. /\ \A u \in TemplateIDs \ {t} : reserved'[u] = left[u]
      /\ reserved'[t] = import
      /\ left[t].kind = "none"
    BY <1>3 DEF FreeReserved
<1>5. NoReserved.kind = "none" /\ NoReserved.base = 0 /\ NoVM.tpl = 0  BY DEF NoReserved, NoVM
<1>6. \A u \in TemplateIDs : left[u] = reserved[u] \/ (left[u] = NoReserved /\ reserved[u].kind = "import")  OBVIOUS
<1>7. import.kind = "import" /\ import.version = version /\ import.base = 0  OBVIOUS
<1>8. \A v \in WorkerIDs : vm'[v].tpl \in {vm[v].tpl, 0}  BY <1>3, <1>5
<1> HIDE DEF left, import
<1>9. \A u \in TemplateIDs : reserved[u].kind = "template" => u # t /\ reserved'[u] = reserved[u]
    BY <1>4, <1>5, <1>6
<1>10. \A u \in TemplateIDs : u # t => reserved'[u] = reserved[u] \/ reserved'[u] = NoReserved  BY <1>4, <1>6
<1>11. VersionsApart'  BY <1>2, <1>4, <1>5, <1>7, <1>10 DEF VersionsApart
<1>12. BaseShape'  BY <1>4, <1>5, <1>7, <1>10 DEF BaseShape
<1>13. \A u \in TemplateIDs : reserved'[u].base \in {reserved[u].base, 0}  BY <1>4, <1>5, <1>7, <1>10
<1>14. \E n \in TemplateIDs : IsNewest(n)' /\ ~Pruned(n)
    <2>1. PICK n \in TemplateIDs : IsNewest(n) /\ ~Pruned(n)  BY DEF NewestStays
    <2>2. Templates' = Templates  BY <1>4, <1>5, <1>7, <1>9, <1>10 DEF Templates
    <2>3. \A u \in Templates : reserved'[u] = reserved[u]  BY <1>9 DEF Templates
    <2>4. IsNewest(n)'  BY <2>1, <2>2, <2>3 DEF IsNewest
    <2> QED  BY <2>1, <2>4
<1> QED  BY <1>8, <1>9, <1>11, <1>12, <1>13, <1>14, ReservedStep

\* Proxmox reports an import as a template.
LEMMA ListedTemplates ==
    ASSUME IndInv, TemplatesInv, UNCHANGED ctlVars, NEW t \in TemplateIDs, TemplateListed(t)
    PROVE  TemplatesInv'
<1> USE DEF TemplatesInv
<1>1. reserved \in [TemplateIDs -> Reserved] /\ reserved[t].kind = "import" /\ UNCHANGED vm
    BY DEF IndInv, TypeOK, PoolTypeOK, TemplateListed
<1>2. /\ reserved'[t] = [reserved[t] EXCEPT !.kind = "template"]
      /\ \A u \in TemplateIDs \ {t} : reserved'[u] = reserved[u]
    BY <1>1 DEF TemplateListed
<1>3. reserved'[t].kind = "template" /\ reserved'[t].version = reserved[t].version /\ reserved'[t].base = reserved[t].base
    BY <1>1, <1>2 DEF Reserved
<1>4. VersionsApart'
    <2>1. \A u \in TemplateIDs : /\ reserved'[u].version = reserved[u].version
                                 /\ reserved'[u].kind \in {"import", "template"}
                                        => reserved[u].kind \in {"import", "template"}
        BY <1>1, <1>2, <1>3
    <2> QED  BY <2>1 DEF VersionsApart
<1>5. BaseShape'  BY <1>1, <1>2, <1>3 DEF BaseShape
<1>6. \E n \in TemplateIDs : IsNewest(n)' /\ ~Pruned(n)
    <2>1. PICK n \in TemplateIDs : IsNewest(n) /\ ~Pruned(n)  BY DEF NewestStays
    <2>2. Templates' = Templates \cup {t} /\ n # t  BY <1>1, <1>2, <1>3, <2>1 DEF Templates, IsNewest
    <2>3. \A u \in TemplateIDs : reserved'[u].version = reserved[u].version /\ reserved[u].version \in Nat
        BY <1>1, <1>2, <1>3, Bounds DEF Reserved
    <2>4. CASE reserved[t].version <= reserved[n].version
        <3>1. IsNewest(n)'  BY <2>1, <2>2, <2>3, <2>4 DEF IsNewest, Templates
        <3> QED  BY <2>1, <3>1
    <2>5. CASE ~(reserved[t].version <= reserved[n].version)
        <3>1. IsNewest(t)'  BY <2>1, <2>2, <2>3, <2>5 DEF IsNewest, Templates
        <3>2. ~Pruned(t)  BY <1>1 DEF PruneShape, Templates
        <3> QED  BY <3>1, <3>2
    <2> QED  BY <2>4, <2>5
<1> QED  BY <1>1, <1>2, <1>3, <1>4, <1>5, <1>6, ReservedStep

\* CheckNetwork clones the newest template, which isn't pruned.
LEMMA SmokeTestTemplates ==
    ASSUME IndInv, TemplatesInv, UNCHANGED ctlVars, NEW t \in TemplateIDs, CloneSmokeTest(t) \/ DestroySmokeTest(t)
    PROVE  TemplatesInv'
<1> USE DEF TemplatesInv
<1>1. reserved \in [TemplateIDs -> Reserved] /\ UNCHANGED vm
    BY DEF IndInv, TypeOK, PoolTypeOK, CloneSmokeTest, DestroySmokeTest
<1>2. PICK N \in TemplateIDs : N = NewestTemplate /\ IsNewest(N) /\ ~Pruned(N)  BY NewestIsKept
<1> DEFINE left == Without("build")
           build == [kind |-> "build", version |-> 0, base |-> NewestTemplate]
<1>3. /\ \A u \in TemplateIDs \ {t} : reserved'[u] = left[u]
      /\ reserved'[t] = left[t] \/ (reserved'[t] = build /\ left[t].kind = "none")
    BY DEF CloneSmokeTest, DestroySmokeTest, FreeReserved, Without
<1>4. NoReserved.kind = "none" /\ NoReserved.base = 0  BY DEF NoReserved
<1>5. \A u \in TemplateIDs : left[u] = IF reserved[u].kind = "build" THEN NoReserved ELSE reserved[u]  BY DEF Without
<1>6. build.kind = "build" /\ build.base = N  BY <1>2
<1> HIDE DEF left, build
<1>7. \A u \in TemplateIDs : \/ reserved'[u] = reserved[u] \/ (reserved'[u] = NoReserved /\ reserved[u].kind # "template")
                             \/ reserved'[u] = build /\ reserved[u].kind # "template"
    <2>1. ASSUME NEW u \in TemplateIDs
          PROVE  \/ left[u] = reserved[u] /\ reserved[u].kind # "build"
                 \/ left[u] = NoReserved /\ reserved[u].kind = "build"
        BY <1>5
    <2>2. left[t].kind = "none" => reserved[t].kind # "template"
        <3>1. left[t] = reserved[t] \/ reserved[t].kind = "build"  BY <2>1
        <3> QED  BY <3>1
    <2> SUFFICES ASSUME NEW u \in TemplateIDs
                 PROVE  \/ reserved'[u] = reserved[u] \/ (reserved'[u] = NoReserved /\ reserved[u].kind # "template")
                        \/ reserved'[u] = build /\ reserved[u].kind # "template"
        OBVIOUS
    <2>3. reserved'[u] = left[u] \/ (u = t /\ reserved'[u] = build /\ left[u].kind = "none")  BY <1>3
    <2>4. CASE reserved'[u] = left[u]
        <3>1. left[u] = reserved[u] \/ (left[u] = NoReserved /\ reserved[u].kind = "build")  BY <2>1
        <3> QED  BY <2>4, <3>1
    <2>5. CASE u = t /\ reserved'[u] = build /\ left[u].kind = "none"  BY <2>2, <2>5
    <2> QED  BY <2>3, <2>4, <2>5
<1>8. VersionsApart'  BY <1>4, <1>6, <1>7 DEF VersionsApart
<1>9. BaseShape'  BY <1>4, <1>6, <1>7 DEF BaseShape
<1>10. \A u \in TemplateIDs : reserved'[u].base \in {reserved[u].base, 0} \/ ~Pruned(reserved'[u].base)
    BY <1>2, <1>4, <1>6, <1>7
<1>11. IsNewest(N)'
    <2>1. Templates' = Templates  BY <1>4, <1>6, <1>7 DEF Templates
    <2>2. \A u \in Templates : reserved'[u] = reserved[u]  BY <1>7 DEF Templates
    <2> QED  BY <1>2, <2>1, <2>2 DEF IsNewest
<1>12. \A u \in TemplateIDs : reserved[u].kind = "template" => reserved'[u] = reserved[u]  BY <1>7
<1> QED  BY <1>1, <1>2, <1>8, <1>9, <1>10, <1>11, <1>12, ReservedStep

\* The templates' invariant is inductive.
LEMMA TemplatesNext == IndInv /\ TemplatesInv /\ [Next]_vars => TemplatesInv'
<1> SUFFICES ASSUME IndInv, TemplatesInv, [Next]_vars PROVE TemplatesInv'
    OBVIOUS
<1>1. CASE UNCHANGED vars
    <2>1. UNCHANGED <<vm, reserved, newest, op>>  BY <1>1 DEF vars, poolVars, ctlVars, passVars
    <2> QED  BY <2>1, StartsTemplates
<1>2. CASE UNCHANGED ctlVars /\ Installer
    BY <1>2, ImportTemplates, ListedTemplates, SmokeTestTemplates DEF Installer
<1> QED  BY <1>1, <1>2, WorkerOpTemplates, TemplateOpTemplates, PassTemplates, ProcessTemplates, SurroundingsTemplates
         DEF Next

\* A fresh install has one template.
LEMMA TemplatesInit == Init => TemplatesInv
<1> SUFFICES ASSUME Init PROVE TemplatesInv  OBVIOUS
<1>1. \A id \in VMIDs : op[id].kind = "none"
    <2>1. NoOp.kind = "none"  BY DEF NoOp
    <2> QED  BY <2>1 DEF Init
<1>2. newest = 0 /\ (\A t \in TemplateIDs : ~Pruned(t)) /\ (\A t \in TemplateIDs : ~Used(t))
    BY <1>1, Constants DEF Init, Pruned, Used, Pends, VMIDs
<1> DEFINE first == [kind |-> "template", version |-> 1, base |-> 0]
<1>3. PICK t \in TemplateIDs : reserved = [u \in TemplateIDs |-> IF u = t THEN first ELSE NoReserved]
    BY DEF Init, PoolInit
<1>4. first.kind = "template" /\ first.base = 0 /\ NoReserved.kind = "none" /\ NoReserved.base = 0 /\ first.version = 1
    BY DEF NoReserved
<1> HIDE DEF first
<1>5. reserved[t] = first /\ \A u \in TemplateIDs \ {t} : reserved[u] = NoReserved  BY <1>3
<1>6. VersionsApart /\ BaseShape  BY <1>4, <1>5 DEF VersionsApart, BaseShape
<1>7. Templates = {t}  BY <1>4, <1>5 DEF Templates
<1>8. IsNewest(t)  BY <1>4, <1>5, <1>7 DEF IsNewest
<1> QED  BY <1>2, <1>6, <1>8 DEF TemplatesInv, PruneShape, UsedShape, NewestStays

\* TemplatesInv holds in every reachable state.
LEMMA TemplatesInvHolds == Spec => []TemplatesInv
BY TemplatesInit, TemplatesNext, IndInvHolds, PTL DEF Spec

\* Pruning never takes a template away from a creation that is about to clone it, and never goes for one that has
\* clones (TemplatesKept): what pruneTemplates reads before it starts stays true while its operations wait for a slot,
\* with installs beside it.
THEOREM PruningIsSafe == Spec => []TemplatesKept
<1>1. IndInv /\ TemplatesInv => TemplatesKept
    <2> SUFFICES ASSUME IndInv, TemplatesInv PROVE TemplatesKept  OBVIOUS
    <2>1. ASSUME NEW v \in WorkerIDs, op[v].kind = "create", op[v].at \in {"wait", "clone"}
          PROVE  reserved[op[v].tpl].kind = "template"
        <3>1. op[v].tpl \in TemplateIDs  BY <2>1 DEF IndInv, WorkerInv, OpShape
        <3>2. Used(op[v].tpl)  BY <2>1 DEF Used, Pends
        <3> QED  BY <3>1, <3>2 DEF TemplatesInv, UsedShape, Templates
    <2>2. \A t \in TemplateIDs : op[t].kind = "prune" => ~HasClones(t)  BY DEF TemplatesInv, PruneShape, Pruned
    <2> QED  BY <2>1, <2>2 DEF TemplatesKept
<1> QED  BY <1>1, IndInvHolds, TemplatesInvHolds, PTL

-----------------------------------------------------------------------------
(* Workers from before a start *)

\* What tells a worker that GitHub's first message is still awaited for from one of this process: creations start only
\* after it, also those whose outcome the pass didn't list. A retirement without force has its reason.
AdoptShape(v) ==
    /\ op[v].kind = "create" => op[v].ss \in known /\ (vm[v].kind = "worker" => vm[v].ss \in known)
    /\ pc = "workers" /\ v \notin used /\ vm[v].kind = "worker" => vm[v].ss \in known
    /\ seen[v].kind = "worker" /\ vm[v].kind = "worker" =>
            vm[v].ss = seen[v].ss /\ (vm[v].ready /\ ~seen[v].ready => vm[v].ss \in known)
    /\ op[v].kind = "retire" /\ ~op[v].force /\ vm[v].kind = "worker" =>
            \/ vm[v].ss \notin configured \/ vm[v].ss \in known \/ ~vm[v].ready
            \/ runner[op[v].name] \notin {"idle", "job"}
    /\ proc = "down" => op[v].kind = "none"

AdoptInv == \A v \in WorkerIDs : AdoptShape(v)

\* A VMID that a step leaves alone.
LEMMA AdoptFrame ==
    ASSUME IndInv, NEW v \in WorkerIDs, AdoptShape(v), op'[v] = op[v],
           vm'[v].kind = "worker" => /\ vm[v].kind = "worker" /\ vm'[v].ss = vm[v].ss
                                     /\ vm'[v].ready => vm[v].ready,
           known \subseteq known', proc' = proc, configured' = configured,
           pc' = "workers" => pc = "workers" /\ (v \in used => v \in used'),
           seen'[v] = seen[v] \/ seen'[v].kind = "none",
           \A r \in Stamps \cap {op[v].name} : Kept(r)
    PROVE  AdoptShape(v)'
<1>1. op[v].kind = "retire" /\ ~op[v].force => op[v].name \in Stamps
    <2>1. op[v] \in Op /\ WorkerInv(v)  BY Basics
    <2> QED  BY <2>1 DEF WorkerInv, OpShape, Op, Name
<1>2. op[v].kind = "retire" /\ ~op[v].force /\ runner[op[v].name] \notin {"idle", "job"}
      => runner'[op[v].name] \notin {"idle", "job"}
    BY <1>1 DEF Kept
<1> QED  BY <1>2 DEF AdoptShape

\* What the operation on v does to itself and to its VM.
OpMoves(v) ==
    \/ op'[v].kind = "none"
    \/ /\ op'[v].kind = op[v].kind /\ op'[v].ss = op[v].ss
       /\ op[v].kind = "retire" => op'[v].name = op[v].name /\ op'[v].force = op[v].force

VMMoves(v) ==
    vm'[v].kind = "worker" =>
        \/ vm[v].kind = "worker" /\ vm'[v].ss = vm[v].ss /\ (vm'[v].ready => vm[v].ready \/ op[v].kind = "create")
        \/ vm[v].kind = "clone" /\ op[v].kind = "create" /\ vm'[v].ss = op[v].ss

\* A step of the operation on v.
LEMMA AdoptStep ==
    ASSUME IndInv, AdoptInv, NEW v \in WorkerIDs, OpMoves(v), VMMoves(v),
           \A u \in WorkerIDs \ {v} : op'[u] = op[u] /\ vm'[u] = vm[u],
           \A r \in Stamps \ {op[v].stamp} : Kept(r),
           UNCHANGED <<known, proc, configured, pc, used, seen>>
    PROVE  AdoptInv'
<1>1. ASSUME NEW u \in WorkerIDs \ {v} PROVE AdoptShape(u)'
    <2>1. AdoptShape(u)  BY DEF AdoptInv
    <2>2. ASSUME NEW r \in Stamps \cap {op[u].name} PROVE Kept(r)
        <3>1. r # 0  BY Bounds DEF Stamps
        <3>2. r \in Times(u)  BY <2>2, <3>1 DEF Times
        <3>3. r \notin Times(v)  BY <3>2 DEF IndInv, TimesApart
        <3>4. r # op[v].stamp  BY <3>1, <3>3 DEF Times
        <3> QED  BY <2>2, <3>4
    <2> QED  BY <2>1, <2>2, AdoptFrame
<1>2. AdoptShape(v)'
    <2>1. AdoptShape(v) /\ WorkerInv(v) /\ op[v] \in Op  BY Basics DEF AdoptInv
    <2>2. op[v].kind = "retire" => op[v].stamp = 0  BY <2>1 DEF WorkerInv, OpShape
    <2>3. op[v].kind = "retire" /\ ~op[v].force => op[v].name \in Stamps
        BY <2>1 DEF WorkerInv, OpShape, Op, Name
    <2>4. op[v].kind = "retire" /\ ~op[v].force /\ runner[op[v].name] \notin {"idle", "job"}
          => runner'[op[v].name] \notin {"idle", "job"}
        <3>1. 0 \notin Stamps  BY Bounds DEF Stamps
        <3> QED  BY <2>2, <2>3, <3>1 DEF Kept
    <2>5. ~(seen[v].kind = "worker" /\ vm[v].kind = "clone")  BY <2>1 DEF WorkerInv, SeenShape
    <2>6. (op'[v].kind = "create" => op'[v].ss \in known' /\ (vm'[v].kind = "worker" => vm'[v].ss \in known'))
        BY <2>1 DEF AdoptShape, OpMoves, VMMoves
    <2>7. pc' = "workers" /\ v \notin used' /\ vm'[v].kind = "worker" => vm'[v].ss \in known'
        BY <2>1 DEF AdoptShape, VMMoves
    <2>8. seen'[v].kind = "worker" /\ vm'[v].kind = "worker" =>
            vm'[v].ss = seen'[v].ss /\ (vm'[v].ready /\ ~seen'[v].ready => vm'[v].ss \in known')
        BY <2>1, <2>5 DEF AdoptShape, VMMoves
    <2>9. op'[v].kind = "retire" /\ ~op'[v].force /\ vm'[v].kind = "worker" =>
            \/ vm'[v].ss \notin configured' \/ vm'[v].ss \in known' \/ ~vm'[v].ready
            \/ runner'[op'[v].name] \notin {"idle", "job"}
        BY <2>1, <2>4 DEF AdoptShape, OpMoves, VMMoves
    <2>10. proc' = "down" => op'[v].kind = "none"  BY <2>1 DEF AdoptShape, OpMoves
    <2> QED  BY <2>6, <2>7, <2>8, <2>9, <2>10 DEF AdoptShape
<1> QED  BY <1>1, <1>2 DEF AdoptInv

\* Moving on, cleaning up after a creation, and ending.
LEMMA OpMovesSteps ==
    ASSUME IndInv, NEW v \in WorkerIDs, NEW step,
           GoOn(v, step) \/ (CleanUp(v) /\ op[v].kind = "create") \/ EndOp(v, TRUE) \/ EndOp(v, FALSE)
    PROVE  OpMoves(v) /\ \A u \in WorkerIDs \ {v} : op'[u] = op[u]
<1>1. op[v] \in Op  BY Basics
<1>2. CASE GoOn(v, step)
    <2>1. op'[v] = [op[v] EXCEPT !.at = step] /\ \A u \in WorkerIDs \ {v} : op'[u] = op[u]
        BY <1>2, OneOp DEF GoOn
    <2>2. op'[v].kind = op[v].kind /\ op'[v].ss = op[v].ss /\ op'[v].name = op[v].name /\ op'[v].force = op[v].force
        BY <1>1, <2>1 DEF Op
    <2> QED  BY <2>1, <2>2 DEF OpMoves
<1>3. CASE CleanUp(v) /\ op[v].kind = "create"
    <2>1. op'[v] = [op[v] EXCEPT !.at = "stop", !.force = TRUE, !.run = TRUE]
          /\ \A u \in WorkerIDs \ {v} : op'[u] = op[u]
        BY <1>3, OneOp DEF CleanUp
    <2>2. op'[v].kind = op[v].kind /\ op'[v].ss = op[v].ss  BY <1>1, <2>1 DEF Op
    <2> QED  BY <1>3, <2>1, <2>2 DEF OpMoves
<1>4. CASE EndOp(v, TRUE) \/ EndOp(v, FALSE)
    <2>1. op'[v] = NoOp /\ \A u \in WorkerIDs \ {v} : op'[u] = op[u]  BY <1>4, OneOp DEF EndOp
    <2>2. NoOp.kind = "none"  BY DEF NoOp
    <2> QED  BY <2>1, <2>2 DEF OpMoves
<1> QED  BY <1>2, <1>3, <1>4

\* The steps of create.
LEMMA CreateAdopts ==
    ASSUME IndInv, AdoptInv, NEW v \in WorkerIDs,
           Clone(v) \/ Configure(v) \/ Register(v) \/ StartVM(v) \/ Signal(v) \/ Mark(v)
    PROVE  AdoptInv'
<1>1. op[v] \in Op /\ vm[v] \in VM /\ runner \in [Stamps -> RunnerState]  BY Basics
<1>2. op[v].kind = "create" /\ UNCHANGED <<known, proc, configured, pc, used, seen>>
    BY DEF Clone, Configure, Register, StartVM, Signal, Mark, passVars
<1>3. OpMoves(v) /\ \A u \in WorkerIDs \ {v} : op'[u] = op[u]
    <2>1. CASE (\E step : GoOn(v, step)) \/ CleanUp(v) \/ EndOp(v, TRUE) \/ EndOp(v, FALSE)
        BY <1>2, <2>1, OpMovesSteps
    <2>2. CASE op' = [op EXCEPT ![v] = [@ EXCEPT !.at = After.register, !.name = op[v].stamp]]
        <3>1. op'[v] = [op[v] EXCEPT !.at = After.register, !.name = op[v].stamp]
              /\ \A u \in WorkerIDs \ {v} : op'[u] = op[u]
            BY <2>2, OneOp
        <3>2. op'[v].kind = op[v].kind /\ op'[v].ss = op[v].ss  BY <1>1, <3>1 DEF Op
        <3> QED  BY <1>2, <3>1, <3>2 DEF OpMoves
    <2> QED  BY <2>1, <2>2 DEF Clone, VMIDInUse, Configure, Register, StartVM, Signal, Mark
<1>4. VMMoves(v) /\ \A u \in WorkerIDs \ {v} : vm'[u] = vm[u]
    <2>1. CASE UNCHANGED vm  BY <2>1 DEF VMMoves
    <2>2. CASE Cloned(v, op[v].stamp, op[v].tpl)
        <3>1. vm'[v] = [NoVM EXCEPT !.kind = "clone", !.stamp = op[v].stamp, !.tpl = op[v].tpl]
              /\ \A u \in WorkerIDs \ {v} : vm'[u] = vm[u]
            BY <2>2, OneVM DEF Cloned
        <3>2. vm'[v].kind = "clone"  BY <3>1 DEF NoVM
        <3> QED  BY <3>1, <3>2 DEF VMMoves
    <2>3. CASE Tagged(v, op[v].ss) /\ vm[v].kind # "none" /\ op[v].at = "configure"
        <3>1. vm'[v] = [vm[v] EXCEPT !.kind = "worker", !.ss = op[v].ss] /\ \A u \in WorkerIDs \ {v} : vm'[u] = vm[u]
            BY <2>3, OneVM DEF Tagged
        <3>2. vm'[v].ss = op[v].ss  BY <1>1, <3>1 DEF VM
        <3>3. vm[v].kind = "clone"  BY <1>2, <2>3 DEF IndInv, WorkerInv, CreateShape
        <3> QED  BY <1>2, <3>1, <3>2, <3>3 DEF VMMoves
    <2>4. CASE vm' = [vm EXCEPT ![v] = [@ EXCEPT !.on = TRUE]]
        <3>1. vm'[v] = [vm[v] EXCEPT !.on = TRUE] /\ \A u \in WorkerIDs \ {v} : vm'[u] = vm[u]  BY <2>4, OneVM
        <3>2. vm'[v].kind = vm[v].kind /\ vm'[v].ss = vm[v].ss  BY <1>1, <3>1 DEF VM
        <3> QED  BY <1>2, <3>1, <3>2 DEF VMMoves
    <2>5. CASE vm' = [vm EXCEPT ![v] = [@ EXCEPT !.jit = TRUE]]
        <3>1. vm'[v] = [vm[v] EXCEPT !.jit = TRUE] /\ \A u \in WorkerIDs \ {v} : vm'[u] = vm[u]  BY <2>5, OneVM
        <3>2. vm'[v].kind = vm[v].kind /\ vm'[v].ss = vm[v].ss  BY <1>1, <3>1 DEF VM
        <3> QED  BY <1>2, <3>1, <3>2 DEF VMMoves
    <2>6. CASE vm' = [vm EXCEPT ![v] = [@ EXCEPT !.ready = TRUE]]
        <3>1. vm'[v] = [vm[v] EXCEPT !.ready = TRUE] /\ \A u \in WorkerIDs \ {v} : vm'[u] = vm[u]  BY <2>6, OneVM
        <3>2. vm'[v].kind = vm[v].kind /\ vm'[v].ss = vm[v].ss  BY <1>1, <3>1 DEF VM
        <3> QED  BY <1>2, <3>1, <3>2 DEF VMMoves
    <2> QED  BY <2>1, <2>2, <2>3, <2>4, <2>5, <2>6 DEF Clone, Configure, Register, StartVM, Signal, Mark
<1>5. \A r \in Stamps \ {op[v].stamp} : Kept(r)
    BY <1>1 DEF Clone, Configure, Register, StartVM, Signal, Mark, Kept
<1> QED  BY <1>2, <1>3, <1>4, <1>5, AdoptStep

\* The steps of retire, and the slots.
LEMMA RetireAdopts ==
    ASSUME IndInv, AdoptInv, NEW v \in WorkerIDs,
           GetSlot(v) \/ DropWaiting(v) \/ RemoveRunner(v) \/ Stop(v) \/ Destroy(v) \/ RemoveRunnerAfter(v)
    PROVE  AdoptInv'
<1>1. op[v] \in Op /\ vm[v] \in VM /\ runner \in [Stamps -> RunnerState]  BY Basics
<1>2. UNCHANGED <<known, proc, configured, pc, used, seen>>
    BY DEF GetSlot, DropWaiting, RemoveRunner, Stop, Destroy, RemoveRunnerAfter, passVars, setVars
<1>3. OpMoves(v) /\ \A u \in WorkerIDs \ {v} : op'[u] = op[u]
    <2>1. CASE (\E step : GoOn(v, step)) \/ EndOp(v, TRUE)  BY <2>1, OpMovesSteps
    <2>2. CASE op[v].kind = "create" /\ op' = [op EXCEPT ![v] = [@ EXCEPT !.at = "clone", !.stamp = NextName]]
        <3>1. op'[v] = [op[v] EXCEPT !.at = "clone", !.stamp = NextName] /\ \A u \in WorkerIDs \ {v} : op'[u] = op[u]
            BY <2>2, OneOp
        <3>2. op'[v].kind = op[v].kind /\ op'[v].ss = op[v].ss  BY <1>1, <3>1 DEF Op
        <3> QED  BY <2>2, <3>1, <3>2 DEF OpMoves
    <2>3. CASE \E at : op' = [op EXCEPT ![v].at = at]
        <3>1. PICK at : op' = [op EXCEPT ![v].at = at]  BY <2>3
        <3>2. op'[v] = [op[v] EXCEPT !.at = at] /\ \A u \in WorkerIDs \ {v} : op'[u] = op[u]  BY <3>1, OneOp
        <3>3. op'[v].kind = op[v].kind /\ op'[v].ss = op[v].ss /\ op'[v].name = op[v].name /\ op'[v].force = op[v].force
            BY <1>1, <3>2 DEF Op
        <3> QED  BY <3>2, <3>3 DEF OpMoves
    <2>4. CASE op' = [op EXCEPT ![v] = NoOp]
        <3>1. op'[v] = NoOp /\ \A u \in WorkerIDs \ {v} : op'[u] = op[u]  BY <2>4, OneOp
        <3>2. NoOp.kind = "none"  BY DEF NoOp
        <3> QED  BY <3>1, <3>2 DEF OpMoves
    <2>5. GetSlot(v) => \/ op[v].kind = "create" /\ op' = [op EXCEPT ![v] = [@ EXCEPT !.at = "clone", !.stamp = NextName]]
                        \/ \E at : op' = [op EXCEPT ![v].at = at]
        BY DEF GetSlot
    <2>6. VMGone(v) => GoOn(v, "removeAfter") \/ EndOp(v, TRUE)  BY DEF VMGone
    <2>7. RemoveRunner(v) \/ Stop(v) \/ Destroy(v) \/ RemoveRunnerAfter(v) => (\E step : GoOn(v, step)) \/ EndOp(v, TRUE)
        BY <2>6 DEF RemoveRunner, Stop, Destroy, RemoveRunnerAfter
    <2>8. DropWaiting(v) => op' = [op EXCEPT ![v] = NoOp]  BY DEF DropWaiting
    <2> QED  BY <2>1, <2>2, <2>3, <2>4, <2>5, <2>7, <2>8
<1>4. VMMoves(v) /\ \A u \in WorkerIDs \ {v} : vm'[u] = vm[u]
    <2>1. CASE UNCHANGED vm  BY <2>1 DEF VMMoves
    <2>2. CASE vm' = [vm EXCEPT ![v] = [@ EXCEPT !.on = FALSE]]
        <3>1. vm'[v] = [vm[v] EXCEPT !.on = FALSE] /\ \A u \in WorkerIDs \ {v} : vm'[u] = vm[u]  BY <2>2, OneVM
        <3>2. vm'[v].kind = vm[v].kind /\ vm'[v].ss = vm[v].ss /\ vm'[v].ready = vm[v].ready  BY <1>1, <3>1 DEF VM
        <3> QED  BY <3>1, <3>2 DEF VMMoves
    <2>3. CASE Destroyed(v)
        <3>1. vm'[v] = NoVM /\ \A u \in WorkerIDs \ {v} : vm'[u] = vm[u]  BY <2>3, OneVM DEF Destroyed
        <3>2. NoVM.kind = "none"  BY DEF NoVM
        <3> QED  BY <3>1, <3>2 DEF VMMoves
    <2> QED  BY <2>1, <2>2, <2>3 DEF GetSlot, DropWaiting, RemoveRunner, Stop, Destroy, RemoveRunnerAfter, poolVars
<1>5. \A r \in Stamps : Kept(r)
    BY <1>1 DEF GetSlot, DropWaiting, RemoveRunner, Stop, Destroy, RemoveRunnerAfter, Removed, Kept, poolVars
<1> QED  BY <1>2, <1>3, <1>4, <1>5, AdoptStep

\* The operation the pass gives v has its reason.
Reasoned(v) ==
    \/ op'[v] = op[v]
    \/ op'[v].kind = "retire" /\ op'[v].force = TRUE
    \/ /\ op'[v].kind = "retire" /\ op'[v].force = FALSE
       /\ vm[v].kind = "worker" => \/ vm[v].ss \notin configured \/ vm[v].ss \in known \/ ~vm[v].ready
                                   \/ runner[op'[v].name] \notin {"idle", "job"}
    \/ op'[v].kind = "create" /\ op'[v].ss \in known /\ (vm[v].kind = "worker" => vm[v].ss \in known)

\* A step of the pass after its list.
LEMMA AdoptPass ==
    ASSUME IndInv, AdoptInv, UNCHANGED <<vm, runner, known, configured, proc>>, proc # "down",
           \A v \in WorkerIDs : /\ Reasoned(v)
                                /\ pc' = "workers" => pc = "workers" /\ (v \in used => v \in used')
                                /\ seen'[v] = seen[v] \/ seen'[v].kind = "none"
    PROVE  AdoptInv'
<1> SUFFICES ASSUME NEW v \in WorkerIDs PROVE AdoptShape(v)'  BY DEF AdoptInv
<1>1. AdoptShape(v) /\ Reasoned(v)  BY DEF AdoptInv
<1>2. CASE op'[v] = op[v]
    BY <1>1, <1>2, AdoptFrame DEF Kept
<1>3. CASE op'[v] # op[v]
    <2>1. (op'[v].kind = "create" => op'[v].ss \in known' /\ (vm'[v].kind = "worker" => vm'[v].ss \in known'))
        BY <1>1, <1>3 DEF Reasoned
    <2>2. pc' = "workers" /\ v \notin used' /\ vm'[v].kind = "worker" => vm'[v].ss \in known'
        BY <1>1 DEF AdoptShape
    <2>3. seen'[v].kind = "worker" /\ vm'[v].kind = "worker" =>
            vm'[v].ss = seen'[v].ss /\ (vm'[v].ready /\ ~seen'[v].ready => vm'[v].ss \in known')
        BY <1>1 DEF AdoptShape
    <2>4. op'[v].kind = "retire" /\ ~op'[v].force /\ vm'[v].kind = "worker" =>
            \/ vm'[v].ss \notin configured' \/ vm'[v].ss \in known' \/ ~vm'[v].ready
            \/ runner'[op'[v].name] \notin {"idle", "job"}
        BY <1>1, <1>3 DEF Reasoned
    <2> QED  BY <2>1, <2>2, <2>3, <2>4 DEF AdoptShape
<1> QED  BY <1>2, <1>3

\* LookAt, Ask and Answer: what they know of a worker that they retire without force.
LEMMA LookAtAdopts ==
    ASSUME IndInv, AdoptInv, NEW v \in WorkerIDs, LookAt(v) \/ Ask(v) \/ Answer(v)
    PROVE  AdoptInv'
<1>1. UNCHANGED <<vm, runner, known, configured, proc, pc, used, seen>> /\ proc # "down"
    BY DEF LookAt, Ask, Answer, poolVars, setVars
<1>2. AdoptShape(v) /\ seen[v] \in Listing /\ seen[v].kind = "worker"
    <2>1. v \in todo \cup asking  BY DEF LookAt, Ask, Answer
    <2> QED  BY <2>1 DEF AdoptInv, IndInv, TypeOK, PassShape
<1>3. CASE UNCHANGED op  BY <1>1, <1>3, AdoptPass DEF Reasoned
<1>4. CASE StartRetire(v, TRUE)
    <2>1. op'[v] = RetireOp(seen[v], TRUE) /\ \A u \in WorkerIDs \ {v} : op'[u] = op[u]
        BY <1>4, OneOp DEF StartRetire
    <2>2. op'[v].kind = "retire" /\ op'[v].force = TRUE  BY <1>2, <2>1, RetireOpType
    <2>3. \A u \in WorkerIDs : Reasoned(u)  BY <2>1, <2>2 DEF Reasoned
    <2> QED  BY <1>1, <2>3, AdoptPass
<1>5. CASE StartRetire(v, FALSE) /\ (Unwanted(seen[v]) \/ runner[seen[v].stamp] \notin {"idle", "job"})
    <2>1. op'[v] = RetireOp(seen[v], FALSE) /\ \A u \in WorkerIDs \ {v} : op'[u] = op[u]
        BY <1>5, OneOp DEF StartRetire
    <2>2. op'[v].kind = "retire" /\ op'[v].force = FALSE /\ op'[v].name = seen[v].stamp
        <3>1. /\ RetireOp(seen[v], FALSE).kind = "retire" /\ RetireOp(seen[v], FALSE).force = FALSE
              /\ RetireOp(seen[v], FALSE).name = IF seen[v].kind = "worker" THEN seen[v].stamp ELSE 0
            BY <1>2, RetireOpType
        <3> QED  BY <1>2, <2>1, <3>1
    <2>3. vm[v].kind = "worker" => \/ vm[v].ss \notin configured \/ vm[v].ss \in known \/ ~vm[v].ready
                                   \/ runner[seen[v].stamp] \notin {"idle", "job"}
        BY <1>2, <1>5 DEF AdoptShape, Unwanted
    <2>4. \A u \in WorkerIDs : Reasoned(u)  BY <2>1, <2>2, <2>3 DEF Reasoned
    <2> QED  BY <1>1, <2>4, AdoptPass
<1> QED  BY <1>3, <1>4, <1>5 DEF LookAt, Ask, Answer

\* Scale retires and creates only for a scale set GitHub has reported.
LEMMA ScaleAdopts ==
    ASSUME IndInv, AdoptInv, NEW s \in ScaleSets, Scale(s)
    PROVE  AdoptInv'
<1> DEFINE active == Cardinality(CreatingFor(s)) + Cardinality(Active(s))
           new == IF Known(s) /\ active < desired[s] THEN ToCreate(s, desired[s] - active) ELSE {}
           old == IF Known(s) /\ active > desired[s] THEN ToRetire(s, active - desired[s]) ELSE {}
<1>1. UNCHANGED <<vm, runner, known, configured, proc>> /\ proc # "down" /\ pc = "workers"
    BY DEF Scale, poolVars, setVars
<1>2. seen \in [WorkerIDs -> Listing] /\ newest \in TemplateIDs \cup {0} /\ WorkerIDs \subseteq VMIDs
    BY DEF IndInv, TypeOK, VMIDs
<1>3. new \subseteq WorkerIDs \ used /\ (new # {} => newest \in TemplateIDs /\ s \in known)
    BY <1>2 DEF ToCreate, Lowest, FreeIDs, Known
<1>4. old \subseteq {v \in WorkerIDs : seen[v].kind = "worker" /\ seen[v].ss = s /\ s \in known}
    BY DEF ToRetire, Lowest, Idle, Active, Known
<1>5. op' = [id \in VMIDs |-> IF id \in new THEN CreateOp(s, newest)
                              ELSE IF id \in old THEN RetireOp(seen[id], FALSE)
                              ELSE op[id]]
    BY DEF Scale
<1>6. NoListing.kind = "none"  BY DEF NoListing
<1>7. \A v \in WorkerIDs : /\ pc' = "workers" /\ v \in used => v \in used'
                           /\ seen'[v] = seen[v] \/ seen'[v].kind = "none"
    BY <1>6 DEF Scale
<1> HIDE DEF active, new, old
<1>8. ASSUME NEW v \in WorkerIDs PROVE Reasoned(v)
    <2>1. AdoptShape(v)  BY DEF AdoptInv
    <2>2. CASE v \in new
        <3>1. op'[v] = CreateOp(s, newest) /\ newest \in TemplateIDs /\ s \in known /\ v \notin used
            BY <1>2, <1>3, <1>5, <2>2
        <3>2. op'[v].kind = "create" /\ op'[v].ss = s  BY <3>1, CreateOpType
        <3>3. vm[v].kind = "worker" => vm[v].ss \in known  BY <1>1, <2>1, <3>1 DEF AdoptShape
        <3> QED  BY <3>1, <3>2, <3>3 DEF Reasoned
    <2>3. CASE v \in old /\ v \notin new
        <3>1. op'[v] = RetireOp(seen[v], FALSE) /\ seen[v] \in Listing  BY <1>2, <1>5, <2>3
        <3>2. RetireOp(seen[v], FALSE).kind = "retire" /\ RetireOp(seen[v], FALSE).force = FALSE
            BY <3>1, RetireOpType
        <3>3. vm[v].kind = "worker" => vm[v].ss \in known  BY <1>4, <2>1, <2>3 DEF AdoptShape
        <3> QED  BY <3>1, <3>2, <3>3 DEF Reasoned
    <2>4. CASE v \notin old /\ v \notin new
        <3>1. op'[v] = op[v]  BY <1>2, <1>5, <2>4
        <3> QED  BY <3>1 DEF Reasoned
    <2> QED  BY <2>2, <2>3, <2>4
<1> QED  BY <1>1, <1>7, <1>8, AdoptPass

\* BeginPass: the list is up to date.
LEMMA BeginPassAdopts ==
    ASSUME IndInv, AdoptInv, BeginPass
    PROVE  AdoptInv'
<1>1. UNCHANGED <<vm, runner, known, configured, proc>> /\ proc # "down"  BY DEF BeginPass, poolVars, setVars
<1>2. vm \in [WorkerIDs -> VM] /\ shown \in [WorkerIDs -> Status]  BY DEF IndInv, TypeOK, PoolTypeOK
<1> SUFFICES ASSUME NEW v \in WorkerIDs PROVE AdoptShape(v)'  BY DEF AdoptInv
<1>3. AdoptShape(v)  BY DEF AdoptInv
<1>4. /\ seen'[v] = ListVM(v) /\ ListVM(v) \in Listing
      /\ ListVM(v).ss = vm[v].ss /\ ListVM(v).ready = vm[v].ready
      /\ v \in used' <=> vm[v].kind # "none"
    BY <1>2 DEF BeginPass, ListVM, Listing, VM
<1>5. op'[v] = op[v] \/ (op'[v].kind = "retire" /\ op'[v].force = TRUE)
    <2>1. ToPrune \subseteq TemplateIDs /\ v \notin TemplateIDs /\ v \in VMIDs
        BY Constants DEF ToPrune, Templates, VMIDs
    <2>2. op'[v] = IF v \in Strays THEN RetireOp(ListVM(v), TRUE) ELSE op[v]  BY <2>1 DEF BeginPass
    <2> QED  BY <1>4, <2>2, RetireOpType
<1>6. (op'[v].kind = "create" => op'[v].ss \in known' /\ (vm'[v].kind = "worker" => vm'[v].ss \in known'))
    BY <1>1, <1>3, <1>5 DEF AdoptShape
<1>7. pc' = "workers" /\ v \notin used' /\ vm'[v].kind = "worker" => vm'[v].ss \in known'
    BY <1>1, <1>4
<1>8. vm'[v].ss = seen'[v].ss /\ ~(vm'[v].ready /\ ~seen'[v].ready)  BY <1>1, <1>4
<1>9. op'[v].kind = "retire" /\ ~op'[v].force /\ vm'[v].kind = "worker" =>
        \/ vm'[v].ss \notin configured' \/ vm'[v].ss \in known' \/ ~vm'[v].ready
        \/ runner'[op'[v].name] \notin {"idle", "job"}
    BY <1>1, <1>3, <1>5 DEF AdoptShape
<1> QED  BY <1>1, <1>6, <1>7, <1>8, <1>9 DEF AdoptShape

\* Operations on templates.
LEMMA TemplateOpAdopts ==
    ASSUME IndInv, AdoptInv, NEW t \in TemplateIDs, TemplateOp(t)
    PROVE  AdoptInv'
<1>1. t \notin WorkerIDs /\ op \in [VMIDs -> Op] /\ WorkerIDs \subseteq VMIDs  BY Constants DEF IndInv, TypeOK, VMIDs
<1>2. PICK o : op' = [op EXCEPT ![t] = o]
    BY DEF TemplateOp, GetSlot, DropWaiting, PruneDestroy, EndOp
<1>3. \A v \in WorkerIDs : op'[v] = op[v]  BY <1>1, <1>2
<1>4. UNCHANGED <<vm, runner, known, configured, proc, pc, used, seen>>
    BY DEF TemplateOp, GetSlot, DropWaiting, PruneDestroy, poolVars, passVars, setVars
<1> QED  BY <1>3, <1>4, AdoptFrame DEF AdoptInv, Kept

\* The listener, the timers and the process. A process that starts knows nothing, and has no operation yet.
LEMMA ProcessAdopts ==
    ASSUME IndInv, AdoptInv, Listener \/ Timers \/ Process
    PROVE  AdoptInv'
<1>1. UNCHANGED <<vm, runner>>
    BY DEF Listener, Timers, Process, DesiredRunners, JobStarted, JobCompleted, BackoffEnds, Shutdown, Stopped, Crash,
           Restart, poolVars
<1>2. CASE Listener \/ Timers
    <2>1. UNCHANGED <<op, configured, proc, pc, used, seen>> /\ known \subseteq known'
        BY <1>2 DEF Listener, Timers, DesiredRunners, JobStarted, JobCompleted, BackoffEnds, passVars
    <2> QED  BY <1>1, <2>1, AdoptFrame DEF AdoptInv, Kept
<1>3. CASE Shutdown \/ \E cfg \in Configs : Restart(cfg)
    <2>1. UNCHANGED <<op, known, pc, used, seen>> /\ proc' # "down" /\ (configured' = configured \/ proc = "down")
        BY <1>3 DEF Shutdown, Restart, passVars, setVars
    <2> SUFFICES ASSUME NEW v \in WorkerIDs PROVE AdoptShape(v)'  BY DEF AdoptInv
    <2>2. AdoptShape(v)  BY DEF AdoptInv
    <2>3. CASE configured' = configured  BY <1>1, <2>1, <2>2, <2>3 DEF AdoptShape
    <2>4. CASE proc = "down"
        <3>1. op[v].kind = "none"  BY <2>2, <2>4 DEF AdoptShape
        <3> QED  BY <1>1, <2>1, <2>2, <3>1 DEF AdoptShape
    <2> QED  BY <2>1, <2>3, <2>4
<1>4. CASE Forget
    <2>1. NoOp.kind = "none" /\ NoListing.kind = "none"  BY DEF NoOp, NoListing
    <2>2. pc' = "idle" /\ \A v \in WorkerIDs : op'[v].kind = "none" /\ seen'[v].kind = "none"
        BY <1>4, <2>1 DEF Forget, VMIDs
    <2> QED  BY <2>2 DEF AdoptInv, AdoptShape
<1> QED  BY <1>2, <1>3, <1>4 DEF Process, Stopped, Crash

\* Proxmox, the guests, GitHub and the installer.
LEMMA SurroundingsAdopt ==
    ASSUME IndInv, AdoptInv, UNCHANGED ctlVars, Guests \/ GitHub \/ Installer \/ Aging
    PROVE  AdoptInv'
<1>1. UNCHANGED <<op, known, configured, proc, pc, used, seen>>  BY DEF ctlVars, passVars, setVars
<1>2. vm \in [WorkerIDs -> VM] /\ runner \in [Stamps -> RunnerState]  BY DEF IndInv, TypeOK, PoolTypeOK
<1>3. \A u \in WorkerIDs : vm'[u].kind = "worker" => /\ vm[u].kind = "worker" /\ vm'[u].ss = vm[u].ss
                                                     /\ vm'[u].ready => vm[u].ready
    <2>1. CASE UNCHANGED vm  BY <2>1
    <2>2. ASSUME NEW v \in WorkerIDs, vm' = [vm EXCEPT ![v] = [@ EXCEPT !.on = FALSE]], NEW u \in WorkerIDs
          PROVE  vm'[u].kind = vm[u].kind /\ vm'[u].ss = vm[u].ss /\ vm'[u].ready = vm[u].ready
        <3>1. vm'[v] = [vm[v] EXCEPT !.on = FALSE] /\ \A w \in WorkerIDs \ {v} : vm'[w] = vm[w]  BY <2>2, OneVM
        <3>2. vm[v] \in VM  BY <1>2
        <3>3. vm'[v].kind = vm[v].kind /\ vm'[v].ss = vm[v].ss /\ vm'[v].ready = vm[v].ready  BY <3>1, <3>2 DEF VM
        <3> QED  BY <3>1, <3>3
    <2>3. ASSUME NEW t \in TemplateIDs, NEW version, ImportTemplate(t, version), NEW u \in WorkerIDs
          PROVE  vm'[u] = vm[u] \/ vm'[u] = NoVM
        BY <2>3 DEF ImportTemplate
    <2>4. NoVM.kind = "none"  BY DEF NoVM
    <2>5. Guests \/ GitHub \/ Aging => UNCHANGED vm \/ \E v \in WorkerIDs : vm' = [vm EXCEPT ![v] = [@ EXCEPT !.on = FALSE]]
        BY DEF Guests, GitHub, Aging, Sample, AssignJob, FinishJob, PowerOff, GuestDies, RunnerDeleted, JobAbandoned, Expire
    <2>6. Installer => UNCHANGED vm \/ \E t \in TemplateIDs, version \in 1..MaxVersion : ImportTemplate(t, version)
        BY DEF Installer, TemplateListed, CloneSmokeTest, DestroySmokeTest
    <2> QED  BY <2>1, <2>2, <2>3, <2>4, <2>5, <2>6
<1>4. \A r \in Stamps : Kept(r)
    <2>1. CASE UNCHANGED runner  BY <2>1 DEF Kept
    <2>2. ASSUME NEW n, NEW g \in {"job", "done", "removed"}, runner[n] \in {"idle", "job"},
                 runner' = [runner EXCEPT ![n] = g], NEW r \in Stamps
          PROVE  Kept(r)
        BY <1>2, <2>2 DEF Kept
    <2>3. \/ UNCHANGED runner
          \/ \E n : /\ runner[n] \in {"idle", "job"}
                    /\ \E g \in {"job", "done", "removed"} : runner' = [runner EXCEPT ![n] = g]
        <3>1. CASE Guests
            <4>1. PICK v \in WorkerIDs : Sample(v) \/ AssignJob(v) \/ FinishJob(v) \/ PowerOff(v) \/ GuestDies(v)
                BY <3>1 DEF Guests
            <4> QED  BY <4>1 DEF Sample, AssignJob, FinishJob, PowerOff, GuestDies
        <3>2. CASE GitHub  BY <3>2 DEF GitHub, RunnerDeleted, JobAbandoned
        <3>3. CASE Aging \/ Installer
            BY <3>3 DEF Aging, Installer, Expire, ImportTemplate, TemplateListed, CloneSmokeTest, DestroySmokeTest
        <3> QED  BY <3>1, <3>2, <3>3
    <2> QED  BY <2>1, <2>2, <2>3
<1> QED  BY <1>1, <1>3, <1>4, AdoptFrame DEF AdoptInv

\* AdoptInv is inductive.
LEMMA AdoptNext == IndInv /\ AdoptInv /\ [Next]_vars => AdoptInv'
<1> SUFFICES ASSUME IndInv, AdoptInv, [Next]_vars PROVE AdoptInv'
    OBVIOUS
<1>1. CASE UNCHANGED vars
    <2>1. UNCHANGED <<vm, runner, op, known, configured, proc, pc, used, seen>>
        BY <1>1 DEF vars, poolVars, ctlVars, passVars, setVars
    <2> QED  BY <2>1, AdoptFrame DEF AdoptInv, Kept
<1>2. ASSUME NEW v \in WorkerIDs, WorkerOp(v) PROVE AdoptInv'
    BY <1>2, CreateAdopts, RetireAdopts DEF WorkerOp
<1>3. CASE Pass  BY <1>3, BeginPassAdopts, LookAtAdopts, ScaleAdopts DEF Pass
<1> QED  BY <1>1, <1>2, <1>3, TemplateOpAdopts, ProcessAdopts, SurroundingsAdopt DEF Next

\* AdoptInv holds in every reachable state.
LEMMA AdoptInvHolds == Spec => []AdoptInv
<1>1. Init => AdoptInv
    <2> SUFFICES ASSUME Init PROVE AdoptInv  OBVIOUS
    <2>1. NoOp.kind = "none" /\ NoListing.kind = "none"  BY DEF NoOp, NoListing
    <2>2. pc = "idle" /\ \A v \in WorkerIDs : op[v].kind = "none" /\ seen[v].kind = "none"
        BY <2>1 DEF Init, VMIDs
    <2> QED  BY <2>2 DEF AdoptInv, AdoptShape
<1> QED  BY <1>1, AdoptNext, IndInvHolds, PTL DEF Spec

\* Between a start and GitHub's first message for a scale set, its healthy workers are left alone
\* (AdoptedUndisturbed), however old the list is that a pass works from.
THEOREM AdoptedLeftAlone == Spec => []AdoptedUndisturbed
<1>1. IndInv /\ AdoptInv => AdoptedUndisturbed
    <2> SUFFICES ASSUME IndInv, AdoptInv, NEW v \in WorkerIDs,
                        vm[v].kind = "worker", vm[v].ready, Live(v), vm[v].stamp \notin expired,
                        vm[v].ss \in configured \ known, op[v].kind # "none"
                 PROVE  op[v].kind = "retire" /\ op[v].force /\ ~op[v].run
        BY DEF AdoptedUndisturbed, IsBusy
    <2>1. AdoptShape(v) /\ WorkerInv(v)  BY DEF AdoptInv, IndInv
    <2>2. op[v].kind = "retire"  BY <2>1 DEF AdoptShape, WorkerInv, OpShape
    <2>3. vm[v].stamp = op[v].name /\ (op[v].force /\ op[v].run => op[v].name \in expired)
        BY <2>1, <2>2 DEF WorkerInv, RetireShape
    <2>4. runner[op[v].name] \in {"idle", "job"}  BY <2>3 DEF Live
    <2>5. op[v].force  BY <2>1, <2>2, <2>4 DEF AdoptShape
    <2> QED  BY <2>2, <2>3, <2>5
<1> QED  BY <1>1, IndInvHolds, AdoptInvHolds, PTL

-----------------------------------------------------------------------------
(* Runners without a VM *)

\* The operation that destroyed the VM under the name r is about to remove its runner.
Removing(r) == \E v \in WorkerIDs : op[v].at = "removeAfter" /\ op[v].name = r

\* A creation that cleans up goes for its runner too, and knows it if there is one. The pass asks GitHub about no worker
\* that an operation is in flight on.
OrphanShape(v) ==
    /\ op[v].kind = "create" /\ op[v].at \in {"stop", "destroy"} => op[v].force
    /\ op[v].kind = "create" /\ op[v].stamp # 0 /\ op[v].name = 0 => runner[op[v].stamp] = "new"
    /\ v \in asking => op[v].kind = "none" /\ pc = "workers"

OrphanInv ==
    faults = 0 =>
        /\ proc = "up"
        /\ \A v \in WorkerIDs : OrphanShape(v)
        /\ \A r \in Stamps : runner[r] = "idle" => HasVM(r) \/ Removing(r)

\* Without a failure so far there is none in this step.
LEMMA NoFault ==
    ASSUME IndInv, faults' = 0
    PROVE  ~Fault
<1>1. faults \in Nat  BY Bounds DEF IndInv, TypeOK, PoolTypeOK
<1> QED  BY <1>1 DEF Fault

\* Calls then work.
LEMMA CallsWork ==
    ASSUME IndInv, OrphanInv, faults' = 0
    PROVE  (CallWorks => faults = 0) /\ ~CallFails
<1>1. CallFails => faults = 0
    BY NoFault DEF CallFails
<1> QED  BY <1>1, NoFault DEF OrphanInv, CallWorks, CallFails

\* A step of the operation on v.
LEMMA OrphanStep ==
    ASSUME IndInv, OrphanInv, faults = 0, proc' = proc, asking' = asking, pc' = pc,
           NEW v \in WorkerIDs, \A u \in WorkerIDs \ {v} : op'[u] = op[u] /\ vm'[u] = vm[u],
           op[v].kind # "none",
           \A r \in Stamps \ {op[v].stamp} : runner[r] = "new" => runner'[r] = "new",
           \A r \in Stamps : runner'[r] = "idle" => runner[r] = "idle" \/ vm'[v].stamp = r,
           vm'[v].stamp # vm[v].stamp /\ vm[v].stamp # 0 =>
                \/ runner'[vm[v].stamp] # "idle"
                \/ op'[v].at = "removeAfter" /\ op'[v].name = vm[v].stamp,
           op[v].at = "removeAfter" => runner'[op[v].name] # "idle",
           op'[v].kind = "create" /\ op'[v].at \in {"stop", "destroy"} => op'[v].force,
           op'[v].kind = "create" /\ op'[v].stamp # 0 /\ op'[v].name = 0 => runner'[op'[v].stamp] = "new"
    PROVE  OrphanInv'
<1>1. ASSUME NEW u \in WorkerIDs PROVE OrphanShape(u)'
    <2>1. OrphanShape(u)  BY DEF OrphanInv
    <2>2. CASE u = v
        <3>1. v \notin asking  BY <2>1, <2>2 DEF OrphanShape
        <3> QED  BY <2>2, <3>1 DEF OrphanShape
    <2>3. CASE u # v
        <3>1. op'[u] = op[u]  BY <2>3
        <3>2. ASSUME op[u].stamp # 0, runner[op[u].stamp] = "new" PROVE runner'[op[u].stamp] = "new"
            <4>1. op[u].stamp \in Stamps
                <5>1. op[u] \in Op  BY Basics
                <5> QED  BY <3>2, <5>1 DEF Op, Name
            <4>2. op[u].stamp \in Times(u)  BY <3>2 DEF Times
            <4>3. op[u].stamp \notin Times(v)  BY <2>3, <4>2 DEF IndInv, TimesApart
            <4>4. op[u].stamp # op[v].stamp  BY <3>2, <4>3 DEF Times
            <4> QED  BY <3>2, <4>1, <4>4
        <3> QED  BY <2>1, <3>1, <3>2 DEF OrphanShape
    <2> QED  BY <2>2, <2>3
<1>2. ASSUME NEW r \in Stamps, runner'[r] = "idle" PROVE HasVM(r)' \/ Removing(r)'
    <2>0. r # 0  BY Bounds DEF Stamps
    <2>1. CASE vm'[v].stamp = r  BY <2>1 DEF HasVM
    <2>2. CASE vm'[v].stamp # r
        <3>1. runner[r] = "idle"  BY <1>2, <2>2
        <3>2. HasVM(r) \/ Removing(r)  BY <3>1 DEF OrphanInv
        <3>3. CASE HasVM(r)
            <4>1. PICK u \in WorkerIDs : vm[u].stamp = r  BY <3>3 DEF HasVM
            <4>2. CASE u # v
                <5>1. vm'[u].stamp = r  BY <4>1, <4>2
                <5> QED  BY <5>1 DEF HasVM
            <4>3. CASE u = v
                <5>1. op'[v].at = "removeAfter" /\ op'[v].name = r  BY <1>2, <2>0, <2>2, <4>1, <4>3
                <5> QED  BY <5>1 DEF Removing
            <4> QED  BY <4>2, <4>3
        <3>4. CASE Removing(r)
            <4>1. PICK u \in WorkerIDs : op[u].at = "removeAfter" /\ op[u].name = r  BY <3>4 DEF Removing
            <4>2. u # v  BY <1>2, <4>1
            <4>3. op'[u] = op[u]  BY <4>2
            <4> QED  BY <4>1, <4>3 DEF Removing
        <3> QED  BY <3>2, <3>3, <3>4
    <2> QED  BY <2>1, <2>2
<1>3. proc' = "up"  BY DEF OrphanInv
<1> QED  BY <1>1, <1>2, <1>3 DEF OrphanInv

\* A step that starts operations at most, and under which registrations only end.
LEMMA OrphanQuiet ==
    ASSUME IndInv, OrphanInv, faults = 0, proc' = proc,
           \A v \in WorkerIDs :
                /\ op'[v] = op[v] \/ (op[v].kind = "none" /\ op'[v].at = "wait" /\ op'[v].stamp = 0)
                /\ v \in asking' => op'[v].kind = "none" /\ pc' = "workers"
                /\ vm'[v].stamp = vm[v].stamp \/ runner[vm[v].stamp] = "new",
           \A r \in Stamps : /\ runner[r] = "new" => runner'[r] = "new"
                             /\ runner'[r] = "idle" => runner[r] = "idle"
    PROVE  OrphanInv'
<1>1. ASSUME NEW v \in WorkerIDs PROVE OrphanShape(v)'
    <2>1. OrphanShape(v)  BY DEF OrphanInv
    <2>2. CASE op'[v] = op[v]
        <3>1. op[v].stamp # 0 => op[v].stamp \in Stamps
            <4>1. op[v] \in Op  BY Basics
            <4> QED  BY <4>1 DEF Op, Name
        <3> QED  BY <2>1, <2>2, <3>1 DEF OrphanShape
    <2>3. CASE op'[v].at = "wait" /\ op'[v].stamp = 0  BY <2>3 DEF OrphanShape
    <2> QED  BY <2>2, <2>3
<1>2. ASSUME NEW r \in Stamps, runner'[r] = "idle" PROVE HasVM(r)' \/ Removing(r)'
    <2>1. runner[r] = "idle"  BY <1>2
    <2>2. HasVM(r) \/ Removing(r)  BY <2>1 DEF OrphanInv
    <2>3. CASE HasVM(r)
        <3>1. PICK u \in WorkerIDs : vm[u].stamp = r  BY <2>3 DEF HasVM
        <3>2. vm'[u].stamp = r  BY <2>1, <3>1
        <3> QED  BY <3>2 DEF HasVM
    <2>4. CASE Removing(r)
        <3>1. PICK u \in WorkerIDs : op[u].at = "removeAfter" /\ op[u].name = r  BY <2>4 DEF Removing
        <3>2. op[u].kind # "none"  BY <3>1 DEF IndInv, WorkerInv, OpShape
        <3>3. op'[u] = op[u]  BY <3>2
        <3> QED  BY <3>1, <3>3 DEF Removing
    <2> QED  BY <2>2, <2>3, <2>4
<1>3. proc' = "up"  BY DEF OrphanInv
<1> QED  BY <1>1, <1>2, <1>3 DEF OrphanInv

\* A creation gets on: the runner is registered only once the VM has its name.
LEMMA CreateOrphans ==
    ASSUME IndInv, OrphanInv, faults' = 0, NEW v \in WorkerIDs,
           Clone(v) \/ Configure(v) \/ Register(v) \/ StartVM(v) \/ Signal(v) \/ Mark(v)
    PROVE  OrphanInv'
<1>1. /\ op[v] \in Op /\ vm[v] \in VM /\ runner \in [Stamps -> RunnerState] /\ WorkerInv(v)
      /\ op[v].kind = "create" /\ ~CallFails /\ faults = 0
    BY Basics, CallsWork DEF Clone, Configure, Register, StartVM, Signal, Mark
<1>2. OrphanShape(v) /\ UNCHANGED <<proc, asking, pc>>
    BY <1>1 DEF OrphanInv, Clone, Configure, Register, StartVM, Signal, Mark, passVars
<1>3. op[v].at # "removeAfter"  BY DEF Clone, Configure, Register, StartVM, Signal, Mark
<1>4. CASE Register(v)
    <2>1. /\ op[v].at = "register" /\ runner' = [runner EXCEPT ![op[v].stamp] = "idle"] /\ UNCHANGED vm
          /\ op' = [op EXCEPT ![v] = [@ EXCEPT !.at = After.register, !.name = op[v].stamp]]
        BY <1>1, <1>4 DEF Register
    <2>2. op[v].stamp # 0 /\ vm[v].stamp = op[v].stamp
        BY <1>1, <2>1 DEF WorkerInv, OpShape, CreateShape
    <2>3. /\ op'[v] = [op[v] EXCEPT !.at = After.register, !.name = op[v].stamp]
          /\ \A u \in WorkerIDs \ {v} : op'[u] = op[u]
        BY <2>1, OneOp
    <2>4. op'[v].at = "start" /\ op'[v].name = op[v].stamp
        BY <1>1, <2>3 DEF Op, After
    <2>5. /\ \A r \in Stamps \ {op[v].stamp} : runner[r] = "new" => runner'[r] = "new"
          /\ \A r \in Stamps : runner'[r] = "idle" => runner[r] = "idle" \/ vm'[v].stamp = r
        BY <1>1, <2>1, <2>2
    <2>6. op'[v].name # 0  BY <2>2, <2>4
    <2> QED  BY <1>1, <1>2, <1>3, <2>1, <2>3, <2>4, <2>5, <2>6, OrphanStep
<1>5. CASE ~Register(v)
    <2>1. UNCHANGED runner  BY <1>5 DEF Clone, Configure, StartVM, Signal, Mark
    <2>2. vm'[v].stamp = vm[v].stamp \/ vm[v].stamp = 0
        <3>1. CASE Clone(v)
            <4>1. Taken(v) \/ vm[v].stamp = 0  BY <1>1 DEF WorkerInv, VMShape, Taken
            <4>2. Taken(v) => UNCHANGED vm  BY <1>1, <3>1 DEF Clone
            <4> QED  BY <4>1, <4>2
        <3>2. CASE UNCHANGED vm  BY <3>2
        <3>3. ASSUME NEW m, vm' = [vm EXCEPT ![v] = m], m.stamp = vm[v].stamp PROVE vm'[v].stamp = vm[v].stamp
            BY <3>3, OneVM
        <3>4. /\ [vm[v] EXCEPT !.kind = "worker", !.ss = op[v].ss].stamp = vm[v].stamp
              /\ [vm[v] EXCEPT !.on = TRUE].stamp = vm[v].stamp
              /\ [vm[v] EXCEPT !.jit = TRUE].stamp = vm[v].stamp
              /\ [vm[v] EXCEPT !.ready = TRUE].stamp = vm[v].stamp
            BY <1>1 DEF VM
        <3>5. \/ Clone(v) \/ UNCHANGED vm
              \/ vm' = [vm EXCEPT ![v] = [vm[v] EXCEPT !.kind = "worker", !.ss = op[v].ss]]
              \/ vm' = [vm EXCEPT ![v] = [vm[v] EXCEPT !.on = TRUE]]
              \/ vm' = [vm EXCEPT ![v] = [vm[v] EXCEPT !.jit = TRUE]]
              \/ vm' = [vm EXCEPT ![v] = [vm[v] EXCEPT !.ready = TRUE]]
            BY <1>5 DEF Configure, StartVM, Signal, Mark, Tagged
        <3> QED  BY <3>1, <3>3, <3>4, <3>5
    <2>3. \A u \in WorkerIDs \ {v} : vm'[u] = vm[u]
        BY <1>5, OneVM DEF Clone, Configure, StartVM, Signal, Mark, Cloned, Tagged
    <2>4. \/ op' = [op EXCEPT ![v] = NoOp]
          \/ op' = [op EXCEPT ![v] = [op[v] EXCEPT !.at = "stop", !.force = TRUE, !.run = TRUE]]
          \/ \E step \in {"configure", "register", "signal", "mark"} :
                op' = [op EXCEPT ![v] = [op[v] EXCEPT !.at = step]]
        BY <1>1, <1>5 DEF Clone, Configure, StartVM, Signal, Mark, After, GoOn, CleanUp, EndOp, VMIDInUse
    <2>5. \A u \in WorkerIDs \ {v} : op'[u] = op[u]  BY <2>4, OneOp
    <2>6. /\ op'[v].kind = "create" /\ op'[v].at \in {"stop", "destroy"} => op'[v].force
          /\ op'[v].kind = "create" => op'[v].stamp = op[v].stamp /\ op'[v].name = op[v].name
        <3>1. CASE op' = [op EXCEPT ![v] = NoOp]
            <4>1. op'[v] = NoOp /\ NoOp.kind = "none"  BY <3>1, OneOp DEF NoOp
            <4> QED  BY <4>1
        <3>2. CASE op' = [op EXCEPT ![v] = [op[v] EXCEPT !.at = "stop", !.force = TRUE, !.run = TRUE]]
            <4>1. op'[v] = [op[v] EXCEPT !.at = "stop", !.force = TRUE, !.run = TRUE]  BY <3>2, OneOp
            <4> QED  BY <1>1, <4>1 DEF Op
        <3>3. ASSUME NEW step \in {"configure", "register", "signal", "mark"},
                     op' = [op EXCEPT ![v] = [op[v] EXCEPT !.at = step]]
              PROVE  /\ op'[v].at \notin {"stop", "destroy"}
                     /\ op'[v].stamp = op[v].stamp /\ op'[v].name = op[v].name
            <4>1. op'[v] = [op[v] EXCEPT !.at = step]  BY <3>3, OneOp
            <4> QED  BY <1>1, <4>1 DEF Op
        <3> QED  BY <2>4, <3>1, <3>2, <3>3
    <2>7. op'[v].kind = "create" /\ op'[v].stamp # 0 /\ op'[v].name = 0 => runner'[op'[v].stamp] = "new"
        BY <1>1, <1>2, <2>1, <2>6 DEF OrphanShape
    <2> QED  BY <1>1, <1>2, <1>3, <2>1, <2>2, <2>3, <2>5, <2>6, <2>7, OrphanStep
<1> QED  BY <1>4, <1>5

\* An operation gets its slot. No runner is registered under a creation time before it is handed out.
LEMMA SlotOrphans ==
    ASSUME IndInv, OrphanInv, faults' = 0, NEW v \in WorkerIDs, GetSlot(v)
    PROVE  OrphanInv'
<1>1. op[v] \in Op /\ WorkerInv(v) /\ created \in 0..MaxCreated  BY Basics
<1>2. UNCHANGED <<vm, runner, proc, asking, pc, faults>> /\ op[v].at = "wait"
    BY DEF GetSlot, poolVars, passVars
<1>3. OrphanShape(v) /\ op[v].kind # "none"  BY <1>1, <1>2 DEF OrphanInv, WorkerInv, OpShape
<1>4. CASE op[v].kind = "create"
    <2>1. op'[v] = [op[v] EXCEPT !.at = "clone", !.stamp = NextName] /\ \A u \in WorkerIDs \ {v} : op'[u] = op[u]
        BY <1>4, OneOp DEF GetSlot
    <2>2. op'[v].at = "clone" /\ op'[v].stamp = created + 1  BY <1>1, <2>1 DEF Op, NextName
    <2>3. runner[created + 1] = "new"
        <3>1. created < MaxCreated  BY <1>4 DEF GetSlot
        <3>2. created + 1 \in Stamps /\ created + 1 > created  BY <1>1, <3>1, Bounds DEF Stamps
        <3> QED  BY <3>2 DEF IndInv, TimesApart
    <2> QED  BY <1>2, <1>3, <2>1, <2>2, <2>3, OrphanStep
<1>5. CASE op[v].kind # "create"
    <2>1. PICK at : op' = [op EXCEPT ![v].at = at]  BY <1>5 DEF GetSlot
    <2>2. op'[v] = [op[v] EXCEPT !.at = at] /\ \A u \in WorkerIDs \ {v} : op'[u] = op[u]  BY <2>1, OneOp
    <2>3. op'[v].kind = op[v].kind  BY <1>1, <2>2 DEF Op
    <2> QED  BY <1>2, <1>3, <1>5, <2>2, <2>3, OrphanStep
<1> QED  BY <1>4, <1>5

\* Retirements and clean-ups: where a VM goes, its runner went before, goes next, or never was.
LEMMA RetireOrphans ==
    ASSUME IndInv, OrphanInv, faults' = 0, NEW v \in WorkerIDs,
           RemoveRunner(v) \/ Stop(v) \/ Destroy(v) \/ RemoveRunnerAfter(v)
    PROVE  OrphanInv'
<1>1. /\ op[v] \in Op /\ vm[v] \in VM /\ runner \in [Stamps -> RunnerState] /\ WorkerInv(v)
    BY Basics
<1>2. ~Fault  BY NoFault
<1>3. faults = 0 /\ UNCHANGED <<proc, asking, pc>>
    BY <1>2 DEF RemoveRunner, Stop, Destroy, RemoveRunnerAfter, passVars
<1>4. OrphanShape(v) /\ op[v].kind # "none"
    BY <1>1, <1>3 DEF OrphanInv, WorkerInv, OpShape, RemoveRunner, Stop, Destroy, RemoveRunnerAfter
<1>5. \A r \in Stamps : /\ runner[r] = "new" => runner'[r] = "new"
                        /\ runner'[r] = "idle" => runner[r] = "idle"
    BY <1>1 DEF RemoveRunner, Stop, Destroy, RemoveRunnerAfter, Removed
<1>6. \/ op' = [op EXCEPT ![v] = NoOp]
      \/ \E step \in {"stop", "destroy", "removeAfter"} :
            op' = [op EXCEPT ![v] = [op[v] EXCEPT !.at = step]]
    BY DEF RemoveRunner, Stop, Destroy, RemoveRunnerAfter, VMGone, DestroyVMStep, EndOp, GoOn
<1>7. /\ \A u \in WorkerIDs \ {v} : op'[u] = op[u]
      /\ \/ op'[v].kind = "none"
         \/ /\ op'[v].kind = op[v].kind /\ op'[v].force = op[v].force
            /\ op'[v].stamp = op[v].stamp /\ op'[v].name = op[v].name
    <2>1. CASE op' = [op EXCEPT ![v] = NoOp]
        <3>1. NoOp.kind = "none"  BY DEF NoOp
        <3> QED  BY <2>1, <3>1, OneOp
    <2>2. ASSUME NEW step, op' = [op EXCEPT ![v] = [op[v] EXCEPT !.at = step]]
          PROVE  /\ \A u \in WorkerIDs \ {v} : op'[u] = op[u]
                 /\ op'[v].kind = op[v].kind /\ op'[v].force = op[v].force
                 /\ op'[v].stamp = op[v].stamp /\ op'[v].name = op[v].name
        <3>1. op'[v] = [op[v] EXCEPT !.at = step] /\ \A u \in WorkerIDs \ {v} : op'[u] = op[u]  BY <2>2, OneOp
        <3> QED  BY <1>1, <3>1 DEF Op
    <2> QED  BY <1>6, <2>1, <2>2
<1>8. op'[v].kind = "create" /\ op'[v].at \in {"stop", "destroy"} => op'[v].force
    <2>1. op'[v].kind = "create" => op[v].at \in {"stop", "destroy", "removeAfter"} /\ op[v].kind = "create"
        BY <1>1, <1>7 DEF RemoveRunner, Stop, Destroy, RemoveRunnerAfter, WorkerInv, OpShape
    <2>2. op[v].at = "removeAfter" => op'[v].kind = "none"
        <3>1. NoOp.kind = "none"  BY DEF NoOp
        <3> QED  BY <3>1, OneOp DEF RemoveRunner, Stop, Destroy, RemoveRunnerAfter, EndOp
    <2> QED  BY <1>4, <1>7, <2>1, <2>2 DEF OrphanShape
<1>9. op'[v].kind = "create" /\ op'[v].stamp # 0 /\ op'[v].name = 0 => runner'[op'[v].stamp] = "new"
    <2>1. op[v].stamp # 0 => op[v].stamp \in Stamps  BY <1>1 DEF Op, Name
    <2> QED  BY <1>4, <1>5, <1>7, <2>1 DEF OrphanShape
<1>10. op[v].at = "removeAfter" => runner'[op[v].name] # "idle"
    <2>1. ASSUME op[v].at = "removeAfter" PROVE Removed(op[v].name) /\ op[v].name \in Stamps
        <3>1. Removed(op[v].name)  BY <1>2, <2>1 DEF RemoveRunner, Stop, Destroy, RemoveRunnerAfter
        <3>2. op[v].name # 0  BY <1>1, <2>1 DEF WorkerInv, OpShape
        <3> QED  BY <1>1, <3>1, <3>2 DEF Op, Name
    <2> QED  BY <1>1, <2>1 DEF Removed
<1>11. CASE vm'[v].stamp = vm[v].stamp /\ \A u \in WorkerIDs \ {v} : vm'[u] = vm[u]
    BY <1>3, <1>4, <1>5, <1>7, <1>8, <1>9, <1>10, <1>11, OrphanStep
<1>12. CASE RemoveRunner(v) \/ RemoveRunnerAfter(v)
    BY <1>11, <1>12 DEF RemoveRunner, RemoveRunnerAfter
<1>13. CASE Stop(v)
    <2>1. vm' = [vm EXCEPT ![v] = [vm[v] EXCEPT !.on = FALSE]]  BY <1>2, <1>13 DEF Stop
    <2>2. vm'[v] = [vm[v] EXCEPT !.on = FALSE] /\ \A u \in WorkerIDs \ {v} : vm'[u] = vm[u]  BY <2>1, OneVM
    <2>3. vm'[v].stamp = vm[v].stamp  BY <1>1, <2>2 DEF VM
    <2> QED  BY <1>11, <2>2, <2>3
<1>14. CASE Destroy(v)
    <2>1. CASE UNCHANGED vm  BY <1>11, <2>1
    <2>2. CASE Destroyed(v) /\ VMGone(v)
        <3>1. vm'[v] = NoVM /\ \A u \in WorkerIDs \ {v} : vm'[u] = vm[u]  BY <2>2, OneVM DEF Destroyed
        <3>2. op[v].at = "destroy" /\ UNCHANGED runner  BY <1>14 DEF Destroy
        <3>3. vm[v].stamp # 0 => vm[v].kind # "none"  BY <1>1 DEF WorkerInv, VMShape
        <3>4. ASSUME vm[v].stamp # 0, op[v].name = 0 PROVE runner[vm[v].stamp] = "new"
            <4>1. CASE op[v].kind = "create"
                <5>1. op[v].stamp # 0  BY <1>1, <3>2, <4>1 DEF WorkerInv, OpShape
                <5>2. vm[v].stamp = op[v].stamp  BY <1>1, <3>2, <3>3, <3>4, <4>1 DEF WorkerInv, CreateShape
                <5> QED  BY <1>4, <3>4, <4>1, <5>1, <5>2 DEF OrphanShape
            <4>2. CASE op[v].kind = "retire"
                BY <1>1, <3>3, <3>4, <4>2 DEF WorkerInv, RetireShape, VMShape
            <4> QED  BY <1>14, <4>1, <4>2 DEF Destroy
        <3>5. ASSUME vm[v].stamp # 0, op[v].name # 0 PROVE vm[v].stamp = op[v].name
            <4>1. CASE op[v].kind = "create"
                <5>1. vm[v].stamp = op[v].stamp  BY <1>1, <3>2, <3>3, <3>5, <4>1 DEF WorkerInv, CreateShape
                <5>2. op[v].name = op[v].stamp  BY <1>1, <3>5, <4>1 DEF WorkerInv, OpShape
                <5> QED  BY <5>1, <5>2
            <4>2. CASE op[v].kind = "retire"
                BY <1>1, <3>3, <3>5, <4>2 DEF WorkerInv, RetireShape
            <4> QED  BY <1>14, <4>1, <4>2 DEF Destroy
        <3>6. ASSUME vm[v].stamp # 0, op[v].name # 0, ~op[v].force PROVE runner[vm[v].stamp] # "idle"
            <4>1. op[v].kind = "retire"  BY <1>4, <1>14, <3>2, <3>6 DEF OrphanShape, Destroy
            <4>2. runner[op[v].name] # "idle"  BY <1>1, <3>2, <3>6, <4>1 DEF WorkerInv, RetireShape
            <4> QED  BY <3>5, <3>6, <4>2
        <3>7. ASSUME op[v].name # 0, op[v].force PROVE op'[v].at = "removeAfter" /\ op'[v].name = op[v].name
            <4>1. op' = [op EXCEPT ![v] = [op[v] EXCEPT !.at = "removeAfter"]]  BY <2>2, <3>7 DEF VMGone, GoOn
            <4>2. op'[v] = [op[v] EXCEPT !.at = "removeAfter"]  BY <4>1, OneOp
            <4> QED  BY <1>1, <4>2 DEF Op
        <3>8. vm'[v].stamp # vm[v].stamp /\ vm[v].stamp # 0 =>
                    \/ runner'[vm[v].stamp] # "idle"
                    \/ op'[v].at = "removeAfter" /\ op'[v].name = vm[v].stamp
            BY <3>2, <3>4, <3>5, <3>6, <3>7
        <3> QED  BY <1>3, <1>4, <1>5, <1>7, <1>8, <1>9, <1>10, <3>1, <3>8, OrphanStep
    <2> QED  BY <1>2, <1>14, <2>1, <2>2 DEF Destroy
<1> QED  BY <1>12, <1>13, <1>14

\* An operation that has only started.
LEMMA Started ==
    /\ \A l \in Listing, force \in BOOLEAN : RetireOp(l, force).at = "wait" /\ RetireOp(l, force).stamp = 0
    /\ \A s \in ScaleSets, t \in TemplateIDs : CreateOp(s, t).at = "wait" /\ CreateOp(s, t).stamp = 0
BY RetireOpType, CreateOpType

\* The pass: it starts operations on free VMIDs, and asks GitHub about workers without one.
LEMMA PassOrphans ==
    ASSUME IndInv, OrphanInv, faults' = 0, Pass
    PROVE  OrphanInv'
<1>1. ~CallFails /\ faults = 0
    BY CallsWork DEF Pass, BeginPass, LookAt, Ask, Answer, Scale
<1>2. UNCHANGED <<vm, runner, proc>>
    BY DEF Pass, BeginPass, LookAt, Ask, Answer, Scale, poolVars
<1>3. seen \in [WorkerIDs -> Listing] /\ newest \in TemplateIDs \cup {0} /\ WorkerIDs \subseteq VMIDs
    BY DEF IndInv, TypeOK, VMIDs
<1>4. \A v \in WorkerIDs : v \in asking => op[v].kind = "none" /\ pc = "workers"
    BY <1>1 DEF OrphanInv, OrphanShape
<1>5. ASSUME \A v \in WorkerIDs :
                /\ op'[v] = op[v] \/ (op[v].kind = "none" /\ op'[v].at = "wait" /\ op'[v].stamp = 0)
                /\ v \in asking' => op'[v].kind = "none" /\ pc' = "workers"
      PROVE  OrphanInv'
    BY <1>1, <1>2, <1>5, OrphanQuiet
<1>6. CASE BeginPass
    <2>1. ASSUME NEW v \in WorkerIDs
          PROVE  op'[v] = op[v] \/ (op[v].kind = "none" /\ op'[v].at = "wait" /\ op'[v].stamp = 0)
        <3>1. ToPrune \subseteq TemplateIDs /\ v \notin TemplateIDs /\ v \in VMIDs
            BY Constants DEF ToPrune, Templates, VMIDs
        <3>2. op'[v] = IF v \in Strays THEN RetireOp(ListVM(v), TRUE) ELSE op[v]  BY <1>6, <3>1 DEF BeginPass
        <3>3. ListVM(v) \in Listing
            <4>1. vm[v] \in VM /\ shown[v] \in Status  BY Basics
            <4> QED  BY <4>1 DEF ListVM, Listing, VM
        <3>4. v \in Strays => op[v].kind = "none"  BY DEF Strays, IsBusy
        <3> QED  BY <3>2, <3>3, <3>4, Started
    <2>2. asking' = {}  BY <1>6 DEF BeginPass
    <2> QED  BY <1>5, <2>1, <2>2
<1>7. ASSUME NEW w \in WorkerIDs, LookAt(w) \/ Ask(w) \/ Answer(w)
      PROVE  OrphanInv'
    <2>1. UNCHANGED op \/ StartRetire(w, TRUE) \/ StartRetire(w, FALSE)
        BY <1>7 DEF LookAt, Ask, Answer
    <2>2. UNCHANGED op \/ op[w].kind = "none"
        BY <1>4, <1>7 DEF LookAt, Ask, Answer, IsBusy
    <2>3. ASSUME NEW v \in WorkerIDs
          PROVE  op'[v] = op[v] \/ (op[v].kind = "none" /\ op'[v].at = "wait" /\ op'[v].stamp = 0)
        <3>1. CASE UNCHANGED op  BY <3>1
        <3>2. ASSUME NEW force \in BOOLEAN, StartRetire(w, force)
              PROVE  op'[w] = RetireOp(seen[w], force) /\ \A u \in WorkerIDs \ {w} : op'[u] = op[u]
            BY <3>2, OneOp DEF StartRetire
        <3>3. seen[w] \in Listing  BY <1>3
        <3> QED  BY <2>1, <2>2, <3>1, <3>2, <3>3, Started
    <2>4. ASSUME NEW v \in WorkerIDs, v \in asking' PROVE op'[v].kind = "none" /\ pc' = "workers"
        BY <1>4, <1>7, <2>4 DEF LookAt, Ask, Answer, IsBusy
    <2> QED  BY <1>5, <2>3, <2>4
<1>8. ASSUME NEW s \in ScaleSets, Scale(s)
      PROVE  OrphanInv'
    <2> DEFINE active == Cardinality(CreatingFor(s)) + Cardinality(Active(s))
               new == IF Known(s) /\ active < desired[s] THEN ToCreate(s, desired[s] - active) ELSE {}
               old == IF Known(s) /\ active > desired[s] THEN ToRetire(s, active - desired[s]) ELSE {}
    <2>1. new \subseteq {v \in WorkerIDs : op[v].kind = "none"} /\ (new # {} => newest \in TemplateIDs)
        BY <1>3 DEF ToCreate, Lowest, FreeIDs, IsBusy
    <2>2. old \subseteq {v \in WorkerIDs : op[v].kind = "none"}
        BY DEF ToRetire, Lowest, Idle, Active, IsBusy
    <2>3. op' = [id \in VMIDs |-> IF id \in new THEN CreateOp(s, newest)
                                  ELSE IF id \in old THEN RetireOp(seen[id], FALSE)
                                  ELSE op[id]]
        BY <1>8 DEF Scale
    <2> HIDE DEF active, new, old
    <2>4. ASSUME NEW v \in WorkerIDs
          PROVE  op'[v] = op[v] \/ (op[v].kind = "none" /\ op'[v].at = "wait" /\ op'[v].stamp = 0)
        <3>1. CASE v \in new
            <4>1. op'[v] = CreateOp(s, newest) /\ newest \in TemplateIDs  BY <1>3, <2>1, <2>3, <3>1
            <4> QED  BY <2>1, <3>1, <4>1, Started
        <3>2. CASE v \in old /\ v \notin new
            <4>1. op'[v] = RetireOp(seen[v], FALSE) /\ seen[v] \in Listing  BY <1>3, <2>3, <3>2
            <4> QED  BY <2>2, <3>2, <4>1, Started
        <3>3. CASE v \notin old /\ v \notin new  BY <1>3, <2>3, <3>3
        <3> QED  BY <3>1, <3>2, <3>3
    <2>5. asking' = {}  BY <1>8 DEF Scale
    <2> QED  BY <1>5, <2>4, <2>5
<1> QED  BY <1>6, <1>7, <1>8 DEF Pass

\* Steps that leave the workers' VMs and operations alone, and under which registrations only end.
LEMMA OtherOrphans ==
    ASSUME IndInv, OrphanInv, faults' = 0,
           (\E t \in TemplateIDs : TemplateOp(t)) \/ Listener \/ Timers \/ UNCHANGED vars
    PROVE  OrphanInv'
<1>1. ASSUME NEW t \in TemplateIDs, TemplateOp(t)
      PROVE  faults = 0 /\ UNCHANGED <<vm, runner, proc, asking, pc>> /\ \A v \in WorkerIDs : op'[v] = op[v]
    <2>1. t \notin WorkerIDs /\ op \in [VMIDs -> Op] /\ WorkerIDs \subseteq VMIDs  BY Constants DEF IndInv, TypeOK, VMIDs
    <2>2. PICK o : op' = [op EXCEPT ![t] = o]  BY <1>1 DEF TemplateOp, GetSlot, DropWaiting, PruneDestroy, EndOp
    <2>3. faults = 0  BY <1>1, CallsWork DEF TemplateOp, GetSlot, DropWaiting, PruneDestroy
    <2>4. UNCHANGED <<vm, runner, proc, asking, pc>>
        BY <1>1 DEF TemplateOp, GetSlot, DropWaiting, PruneDestroy, poolVars, passVars
    <2> QED  BY <2>1, <2>2, <2>3, <2>4
<1>2. Listener \/ Timers => UNCHANGED <<faults, vm, runner, proc, asking, pc, op>>
    BY DEF Listener, Timers, DesiredRunners, JobStarted, JobCompleted, BackoffEnds, poolVars, passVars
<1>3. UNCHANGED vars => UNCHANGED <<faults, vm, runner, proc, asking, pc, op>>
    BY DEF vars, poolVars, ctlVars, passVars
<1>4. /\ faults = 0 /\ UNCHANGED <<vm, runner, proc, asking, pc>>
      /\ \A v \in WorkerIDs : op'[v] = op[v]
    BY <1>1, <1>2, <1>3
<1>5. \A v \in WorkerIDs : v \in asking' => op'[v].kind = "none" /\ pc' = "workers"
    BY <1>4 DEF OrphanInv, OrphanShape
<1> QED  BY <1>4, <1>5, OrphanQuiet

\* Proxmox, the guests, GitHub and the installer. A clone that an import takes away was never registered.
LEMMA SurroundingsOrphan ==
    ASSUME IndInv, OrphanInv, faults' = 0, UNCHANGED ctlVars, Guests \/ GitHub \/ Installer \/ Aging
    PROVE  OrphanInv'
<1>1. ~Fault /\ UNCHANGED <<op, proc, asking, pc>>  BY NoFault DEF ctlVars, passVars
<1>2. vm \in [WorkerIDs -> VM] /\ runner \in [Stamps -> RunnerState]  BY DEF IndInv, TypeOK, PoolTypeOK
<1>3. faults = 0
    BY <1>1 DEF Guests, GitHub, Installer, Aging, Sample, AssignJob, FinishJob, PowerOff, GuestDies, RunnerDeleted,
                JobAbandoned, ImportTemplate, TemplateListed, CloneSmokeTest, DestroySmokeTest, Expire
<1>4. \A r \in Stamps : (runner[r] = "new" => runner'[r] = "new") /\ (runner'[r] = "idle" => runner[r] = "idle")
    <2>1. \/ UNCHANGED runner
          \/ \E n : /\ runner[n] \in {"idle", "job"}
                    /\ \E g \in {"job", "done", "removed"} : runner' = [runner EXCEPT ![n] = g]
        <3>1. CASE Guests
            <4>1. PICK v \in WorkerIDs : Sample(v) \/ AssignJob(v) \/ FinishJob(v) \/ PowerOff(v) \/ GuestDies(v)
                BY <3>1 DEF Guests
            <4> QED  BY <4>1 DEF Sample, AssignJob, FinishJob, PowerOff, GuestDies
        <3>2. CASE GitHub  BY <3>2 DEF GitHub, RunnerDeleted, JobAbandoned
        <3>3. CASE Aging \/ Installer
            BY <3>3 DEF Aging, Installer, Expire, ImportTemplate, TemplateListed, CloneSmokeTest, DestroySmokeTest
        <3> QED  BY <3>1, <3>2, <3>3
    <2>2. ASSUME NEW n, NEW g \in {"job", "done", "removed"}, runner[n] \in {"idle", "job"},
                 runner' = [runner EXCEPT ![n] = g], NEW r \in Stamps
          PROVE  (runner[r] = "new" => runner'[r] = "new") /\ (runner'[r] = "idle" => runner[r] = "idle")
        BY <1>2, <2>2
    <2> QED  BY <2>1, <2>2
<1>5. \A u \in WorkerIDs : vm'[u].stamp = vm[u].stamp \/ runner[vm[u].stamp] = "new"
    <2>1. CASE UNCHANGED vm  BY <2>1
    <2>2. ASSUME NEW v \in WorkerIDs, vm' = [vm EXCEPT ![v] = [@ EXCEPT !.on = FALSE]], NEW u \in WorkerIDs
          PROVE  vm'[u].stamp = vm[u].stamp
        <3>1. vm'[v] = [vm[v] EXCEPT !.on = FALSE] /\ \A w \in WorkerIDs \ {v} : vm'[w] = vm[w]  BY <2>2, OneVM
        <3>2. vm[v] \in VM  BY <1>2
        <3>3. vm'[v].stamp = vm[v].stamp  BY <3>1, <3>2 DEF VM
        <3> QED  BY <3>1, <3>3
    <2>3. ASSUME NEW t \in TemplateIDs, NEW version, ImportTemplate(t, version), NEW u \in WorkerIDs
          PROVE  vm'[u] = vm[u] \/ runner[vm[u].stamp] = "new"
        <3>1. vm'[u] = vm[u] \/ vm[u].kind = "clone"  BY <2>3 DEF ImportTemplate
        <3> QED  BY <3>1 DEF IndInv, WorkerInv, VMShape
    <2>4. Guests \/ GitHub \/ Aging => UNCHANGED vm \/ \E v \in WorkerIDs : vm' = [vm EXCEPT ![v] = [@ EXCEPT !.on = FALSE]]
        BY DEF Guests, GitHub, Aging, Sample, AssignJob, FinishJob, PowerOff, GuestDies, RunnerDeleted, JobAbandoned, Expire
    <2>5. Installer => UNCHANGED vm \/ \E t \in TemplateIDs, version \in 1..MaxVersion : ImportTemplate(t, version)
        BY DEF Installer, TemplateListed, CloneSmokeTest, DestroySmokeTest
    <2> QED  BY <2>1, <2>2, <2>3, <2>4, <2>5
<1>6. \A v \in WorkerIDs : op'[v] = op[v] /\ (v \in asking' => op'[v].kind = "none" /\ pc' = "workers")
    BY <1>1, <1>3 DEF OrphanInv, OrphanShape
<1> QED  BY <1>1, <1>3, <1>4, <1>5, <1>6, OrphanQuiet

\* OrphanInv is inductive. The process doesn't end while nothing has failed.
LEMMA OrphanNext == IndInv /\ OrphanInv /\ [Next]_vars => OrphanInv'
<1> SUFFICES ASSUME IndInv, OrphanInv, [Next]_vars, faults' = 0 PROVE OrphanInv'
    BY DEF OrphanInv
<1>1. ~Process
    <2>1. ~Shutdown /\ ~Crash  BY NoFault DEF Shutdown, Crash
    <2>2. ~Stopped  BY DEF OrphanInv, Stopped
    <2>3. \A cfg \in Configs : ~Restart(cfg)  BY DEF OrphanInv, Restart
    <2> QED  BY <2>1, <2>2, <2>3 DEF Process
<1>2. ASSUME NEW v \in WorkerIDs, WorkerOp(v) PROVE OrphanInv'
    <2>1. ~DropWaiting(v)  BY DEF OrphanInv, DropWaiting
    <2> QED  BY <1>2, <2>1, CreateOrphans, SlotOrphans, RetireOrphans DEF WorkerOp
<1> QED  BY <1>1, <1>2, PassOrphans, OtherOrphans, SurroundingsOrphan DEF Next

\* OrphanInv holds in every reachable state.
LEMMA OrphanInvHolds == Spec => []OrphanInv
<1>1. Init => OrphanInv
    <2> SUFFICES ASSUME Init PROVE OrphanInv  OBVIOUS
    <2>1. NoOp.kind = "none"  BY DEF NoOp
    <2>2. \A v \in WorkerIDs : op[v].kind = "none" /\ v \notin asking  BY <2>1 DEF Init, VMIDs
    <2>3. proc = "up" /\ \A r \in Stamps : runner[r] = "new"  BY DEF Init, PoolInit
    <2> QED  BY <2>2, <2>3 DEF OrphanInv, OrphanShape
<1> QED  BY <1>1, OrphanNext, IndInvHolds, PTL DEF Spec

\* As long as nothing fails, no idle registration is left in GitHub without its VM or the operation that removes it
\* (NoOrphanRunners): retire and create's clean-up each take the runner out, in the order that fits what they know.
THEOREM RunnersGoWithVMs == Spec => []NoOrphanRunners
<1>1. OrphanInv => NoOrphanRunners  BY DEF OrphanInv, NoOrphanRunners, Removing
<1> QED  BY <1>1, OrphanInvHolds, PTL

-----------------------------------------------------------------------------
(* Single-use workers *)

\* The VM under the name r runs.
On(r) == \E v \in WorkerIDs : vm[v].stamp = r /\ vm[v].on

\* What the operation o does for the name r: set up its VM, or clone it next.
SetsUp(o, r) == o.kind = "create" /\ o.stamp = r /\ o.at \in {"configure", "register", "start"}
Clones(o, r) == o.kind = "create" /\ o.stamp = r /\ o.at = "clone"

\* What a creation has done for its runner and its VM: the runner is registered after the tags are set and before the
\* VM is started. The name it takes is nobody's, not even that of a VM it finds at its VMID.
Stage(v) ==
    op[v].kind = "create" =>
        /\ op[v].at = "clone" => vm[v].stamp # op[v].stamp
        /\ op[v].at \in {"configure", "register"} => runner[op[v].stamp] = "new"
        /\ op[v].at = "start" => runner[op[v].stamp] # "new"
        /\ op[v].at \in {"configure", "register", "start"} => ~vm[v].on

SingleInv == IndInv /\ \A v \in WorkerIDs : Stage(v)

\* The steps Worker allows a name, from its life l, its registration g and whether its VM is on, o, to l2, g2 and o2.
LegalStep(l, l2, g, g2, o, o2) ==
    \/ l2 = l /\ g2 = g /\ (o2 <=> o)
    \/ l = "absent" /\ l2 \in {"setup", "live", "gone"} /\ g2 = g /\ (o2 <=> o)
    \/ l = "setup" /\ l2 = "live" /\ g2 = g /\ (o2 <=> o)
    \/ l = "setup" /\ g = "new" /\ ~o /\ l2 \in {"setup", "live"} /\ g2 = "idle" /\ ~o2
    \/ l = "setup" /\ g # "new" /\ ~o /\ l2 = "live" /\ g2 = g /\ o2
    \/ l = "live" /\ g = "idle" /\ o /\ l2 = "live" /\ g2 = "job" /\ o2
    \/ g = "job" /\ l2 = l /\ g2 = "done" /\ (o2 <=> o)
    \/ g = "idle" /\ l2 = l /\ g2 = "removed" /\ (o2 <=> o)
    \/ o /\ l2 = l /\ g2 = g /\ ~o2
    \/ l \in {"setup", "live"} /\ ~o /\ l2 = "gone" /\ g2 = g /\ ~o2

\* The same, of the name r in a step of the controller.
Legal(r) == LegalStep(LifeOf(r), LifeOf(r)', runner[r], runner'[r], On(r), On(r)')

\* A step that is legal for every name is a step of Worker.
LEMMA LegalIsAllowed ==
    ASSUME \A r \in Stamps : Legal(r)
    PROVE  Single!WorkerNext
<1> SUFFICES ASSUME NEW r \in Stamps
             PROVE  \/ Single!Rests(r)
                    \/ Single!Create(r) \/ Single!GiveUp(r) \/ Single!Abandon(r) \/ Single!Register(r) \/ Single!Boot(r)
                    \/ Single!StartJob(r) \/ Single!EndJob(r) \/ Single!Unregister(r) \/ Single!GoDown(r)
                    \/ Single!Destroy(r)
    BY DEF Single!WorkerNext
<1>1. Legal(r)  OBVIOUS
<1>2. CASE LifeOf(r)' = LifeOf(r) /\ runner'[r] = runner[r] /\ (On(r)' <=> On(r))
    <2>1. Single!Rests(r)  BY <1>2 DEF Single!Rests, Single!Becomes, On
    <2> QED  BY <2>1
<1>3. CASE LifeOf(r) = "absent" /\ LifeOf(r)' \in {"setup", "live"} /\ runner'[r] = runner[r] /\ (On(r)' <=> On(r))
    <2>1. Single!Create(r)  BY <1>3 DEF Single!Create, Single!Becomes, On
    <2> QED  BY <2>1
<1>4. CASE LifeOf(r) = "absent" /\ LifeOf(r)' = "gone" /\ runner'[r] = runner[r] /\ (On(r)' <=> On(r))
    <2>1. Single!GiveUp(r)  BY <1>4 DEF Single!GiveUp, Single!Becomes, On
    <2> QED  BY <2>1
<1>5. CASE LifeOf(r) = "setup" /\ LifeOf(r)' = "live" /\ runner'[r] = runner[r] /\ (On(r)' <=> On(r))
    <2>1. Single!Abandon(r)  BY <1>5 DEF Single!Abandon, Single!Becomes, On
    <2> QED  BY <2>1
<1>6. CASE LifeOf(r) = "setup" /\ runner[r] = "new" /\ ~On(r) /\ LifeOf(r)' \in {"setup", "live"} /\ runner'[r] = "idle" /\ ~On(r)'
    <2>1. Single!Register(r)  BY <1>6 DEF Single!Register, Single!Becomes, On
    <2> QED  BY <2>1
<1>7. CASE LifeOf(r) = "setup" /\ runner[r] # "new" /\ ~On(r) /\ LifeOf(r)' = "live" /\ runner'[r] = runner[r] /\ On(r)'
    <2>1. Single!Boot(r)  BY <1>7 DEF Single!Boot, Single!Becomes, On
    <2> QED  BY <2>1
<1>8. CASE LifeOf(r) = "live" /\ runner[r] = "idle" /\ On(r) /\ LifeOf(r)' = "live" /\ runner'[r] = "job" /\ On(r)'
    <2>1. Single!StartJob(r)  BY <1>8 DEF Single!StartJob, Single!Becomes, On
    <2> QED  BY <2>1
<1>9. CASE runner[r] = "job" /\ LifeOf(r)' = LifeOf(r) /\ runner'[r] = "done" /\ (On(r)' <=> On(r))
    <2>1. Single!EndJob(r)  BY <1>9 DEF Single!EndJob, Single!Becomes, On
    <2> QED  BY <2>1
<1>10. CASE runner[r] = "idle" /\ LifeOf(r)' = LifeOf(r) /\ runner'[r] = "removed" /\ (On(r)' <=> On(r))
    <2>1. Single!Unregister(r)  BY <1>10 DEF Single!Unregister, Single!Becomes, On
    <2> QED  BY <2>1
<1>11. CASE On(r) /\ LifeOf(r)' = LifeOf(r) /\ runner'[r] = runner[r] /\ ~On(r)'
    <2>1. Single!GoDown(r)  BY <1>11 DEF Single!GoDown, Single!Becomes, On
    <2> QED  BY <2>1
<1>12. CASE LifeOf(r) \in {"setup", "live"} /\ ~On(r) /\ LifeOf(r)' = "gone" /\ runner'[r] = runner[r] /\ ~On(r)'
    <2>1. Single!Destroy(r)  BY <1>12 DEF Single!Destroy, Single!Becomes, On
    <2> QED  BY <2>1
<1> QED  BY <1>1, <1>2, <1>3, <1>4, <1>5, <1>6, <1>7, <1>8, <1>9, <1>10, <1>11, <1>12 DEF Legal, LegalStep

-----------------------------------------------------------------------------
(* The life of a name, seen from the VMIDs *)

\* A name rests in a step that changes neither its VM's place and power nor what an operation does for it.
LEMMA LifeKept ==
    ASSUME NEW r \in Stamps, (r > created') <=> (r > created),
           \A v \in WorkerIDs : /\ vm'[v].stamp = r <=> vm[v].stamp = r
                                /\ SetsUp(op'[v], r) <=> SetsUp(op[v], r)
                                /\ Clones(op'[v], r) <=> Clones(op[v], r)
    PROVE  LifeOf(r)' = LifeOf(r)
<1>1. HasVM(r)' <=> HasVM(r)  BY DEF HasVM
<1>2. SettingUp(r)' <=> SettingUp(r)  BY DEF SettingUp, SetsUp
<1>3. AboutToClone(r)' <=> AboutToClone(r)  BY DEF AboutToClone, Clones
<1> QED  BY <1>1, <1>2, <1>3, Zenon DEF LifeOf

\* The life of a name that only VMID v is connected with.
LifeAt(v, r) == IF vm[v].stamp = r THEN IF SetsUp(op[v], r) THEN "setup" ELSE "live"
                ELSE IF r > created \/ Clones(op[v], r) THEN "absent" ELSE "gone"

Alone(v, r) == \A u \in WorkerIDs \ {v} : vm[u].stamp # r /\ op[u].stamp # r

LifeIsLocal ==
    \A v \in WorkerIDs, r \in Stamps : Alone(v, r) => /\ LifeOf(r) = LifeAt(v, r)
                                                      /\ On(r) <=> vm[v].stamp = r /\ vm[v].on

LEMMA Local == LifeIsLocal
<1> SUFFICES ASSUME NEW v \in WorkerIDs, NEW r \in Stamps, Alone(v, r)
             PROVE  LifeOf(r) = LifeAt(v, r) /\ (On(r) <=> vm[v].stamp = r /\ vm[v].on)
    BY DEF LifeIsLocal
<1>1. HasVM(r) <=> vm[v].stamp = r  BY DEF Alone, HasVM
<1>2. SettingUp(r) <=> SetsUp(op[v], r)  BY DEF Alone, SettingUp, SetsUp
<1>3. AboutToClone(r) <=> Clones(op[v], r)  BY DEF Alone, AboutToClone, Clones
<1>4. On(r) <=> vm[v].stamp = r /\ vm[v].on  BY DEF Alone, On
<1> QED  BY <1>1, <1>2, <1>3, <1>4, Zenon DEF LifeOf, LifeAt

LEMMA LocalNext == LifeIsLocal'
BY Local, PTL

\* The names VMID v stands for.
Own(v) == {vm[v].stamp, op[v].stamp} \ {0}

\* What is left to prove of a step, once it is known to keep IndInv.
StepOK == Single!WorkerNext /\ \A v \in WorkerIDs : Stage(v)'

\* A step on VMID v alone is legal for all names if it is for those of v.
LEMMA OwnStep ==
    ASSUME SingleInv, IndInv', NEW v \in WorkerIDs,
           \A u \in WorkerIDs \ {v} : op'[u] = op[u] /\ vm'[u] = vm[u],
           \A r \in Stamps \ (Own(v) \cup Own(v)') : runner'[r] = runner[r] /\ ((r > created') <=> (r > created)),
           \A r \in Stamps \cap (Own(v) \cup Own(v)') :
                LegalStep(LifeAt(v, r), LifeAt(v, r)', runner[r], runner'[r],
                          vm[v].stamp = r /\ vm[v].on, vm'[v].stamp = r /\ vm'[v].on),
           Stage(v)'
    PROVE  StepOK
<1> USE DEF SingleInv
<1>3. ASSUME NEW u \in WorkerIDs, u # v PROVE Stage(u)'
    <2>1. SUFFICES ASSUME op[u].kind = "create", op[u].stamp # 0 PROVE runner'[op[u].stamp] = runner[op[u].stamp]
        <3>1. op'[u] = op[u] /\ vm'[u] = vm[u]  BY <1>3
        <3>2. op[u].kind = "create" /\ op[u].stamp = 0 => op[u].at = "wait"  BY DEF IndInv, WorkerInv, OpShape
        <3>3. Stage(u)  OBVIOUS
        <3> QED  BY <2>1, <3>1, <3>2, <3>3 DEF Stage
    <2>2. op[u].stamp \in Stamps
        <3>1. op[u] \in Op  BY Basics
        <3> QED  BY <2>1, <3>1 DEF Op, Name
    <2>3. op[u].stamp \in Times(u) /\ op[u].stamp \in Times(u)'  BY <2>1, <1>3 DEF Times
    <2>4. op[u].stamp \notin Times(v) /\ op[u].stamp \notin Times(v)'  BY <2>3, <1>3 DEF IndInv, TimesApart
    <2>5. op[u].stamp \notin Own(v) \cup Own(v)'  BY <2>4 DEF Times, Own
    <2> QED  BY <2>2, <2>5
<1> SUFFICES ASSUME NEW r \in Stamps PROVE Legal(r)
    BY <1>3, LegalIsAllowed DEF StepOK
<1>1. CASE r \in Own(v) \cup Own(v)'
    <2>1. r # 0  BY <1>1 DEF Own
    <2>2. ASSUME r \in Own(v) PROVE Alone(v, r) /\ Alone(v, r)'
        <3>1. r \in Times(v)  BY <2>2 DEF Own, Times
        <3>2. \A u \in WorkerIDs \ {v} : r \notin Times(u)  BY <3>1 DEF IndInv, TimesApart
        <3>3. \A u \in WorkerIDs \ {v} : vm[u].stamp # r /\ op[u].stamp # r  BY <2>1, <3>2 DEF Times
        <3> QED  BY <3>3 DEF Alone
    <2>3. ASSUME r \in Own(v)' PROVE Alone(v, r) /\ Alone(v, r)'
        <3>1. r \in Times(v)'  BY <2>3 DEF Own, Times
        <3>2. \A u \in WorkerIDs \ {v} : r \notin Times(u)'  BY <3>1 DEF IndInv, TimesApart
        <3>3. \A u \in WorkerIDs \ {v} : vm'[u].stamp # r /\ op'[u].stamp # r  BY <2>1, <3>2 DEF Times
        <3> QED  BY <3>3 DEF Alone
    <2>4. Alone(v, r) /\ Alone(v, r)'  BY <1>1, <2>2, <2>3
    <2>5. LifeOf(r) = LifeAt(v, r) /\ (On(r) <=> vm[v].stamp = r /\ vm[v].on)
        BY <2>4, Local DEF LifeIsLocal
    <2>6. LifeOf(r)' = LifeAt(v, r)' /\ (On(r)' <=> vm'[v].stamp = r /\ vm'[v].on)
        BY <2>4, LocalNext DEF LifeIsLocal
    <2>7. LegalStep(LifeAt(v, r), LifeAt(v, r)', runner[r], runner'[r],
                    vm[v].stamp = r /\ vm[v].on, vm'[v].stamp = r /\ vm'[v].on)
        BY <1>1
    <2> HIDE DEF LifeAt, LifeOf, On
    <2> QED  BY <2>5, <2>6, <2>7 DEF Legal, LegalStep
<1>2. CASE r \notin Own(v) \cup Own(v)'
    <2>1. r # 0  BY Bounds DEF Stamps
    <2>2. vm[v].stamp # r /\ op[v].stamp # r /\ vm'[v].stamp # r /\ op'[v].stamp # r  BY <1>2, <2>1 DEF Own
    <2>3. ~SetsUp(op[v], r) /\ ~SetsUp(op'[v], r) /\ ~Clones(op[v], r) /\ ~Clones(op'[v], r)
        BY <2>2 DEF SetsUp, Clones
    <2>4. \A u \in WorkerIDs : /\ vm'[u].stamp = r <=> vm[u].stamp = r
                               /\ SetsUp(op'[u], r) <=> SetsUp(op[u], r)
                               /\ Clones(op'[u], r) <=> Clones(op[u], r)
        BY <2>2, <2>3
    <2>5. runner'[r] = runner[r] /\ ((r > created') <=> (r > created))  BY <1>2
    <2>6. LifeOf(r)' = LifeOf(r)  BY <2>4, <2>5, LifeKept
    <2>7. On(r)' <=> On(r)  BY <2>2 DEF On
    <2> QED  BY <2>5, <2>6, <2>7 DEF Legal, LegalStep
<1> QED  BY <1>1, <1>2

\* An operation that is past its slot and hasn't yet booted its VM.
Staged(o) == o.kind = "create" /\ o.at \in {"clone", "configure", "register", "start"}

\* A registration that ends, or gets a job.
RegStep(r) ==
    \/ runner'[r] = runner[r]
    \/ runner[r] = "idle" /\ runner'[r] = "removed"
    \/ runner[r] = "job" /\ runner'[r] = "done"
    \/ runner[r] = "idle" /\ runner'[r] = "job" /\ LifeOf(r) = "live" /\ On(r)

\* A step that moves no VM, starts none and leaves the operations that set one up alone: names rest, VMs go down, or
\* registrations move on.
LEMMA QuietNames ==
    ASSUME SingleInv,
           \A v \in WorkerIDs : vm'[v].stamp = vm[v].stamp /\ (op'[v] = op[v] \/ (~Staged(op[v]) /\ ~Staged(op'[v]))),
           created' = created,
           \/ runner' = runner /\ \A v \in WorkerIDs : vm'[v].on => vm[v].on
           \/ (\A r \in Stamps : RegStep(r)) /\ \A v \in WorkerIDs : vm'[v].on <=> vm[v].on
    PROVE  StepOK
<1>1. ASSUME NEW v \in WorkerIDs, NEW r \in Stamps
      PROVE  /\ vm'[v].stamp = r <=> vm[v].stamp = r
             /\ SetsUp(op'[v], r) <=> SetsUp(op[v], r)
             /\ Clones(op'[v], r) <=> Clones(op[v], r)
    BY <1>1 DEF SetsUp, Clones, Staged
<1>2. ASSUME NEW r \in Stamps PROVE LifeOf(r)' = LifeOf(r)
    <2>1. (r > created') <=> (r > created)  OBVIOUS
    <2> QED  BY <1>1, <2>1, LifeKept
<1>3. ASSUME NEW r \in Stamps PROVE Legal(r)
    <2>1. CASE runner' = runner /\ \A v \in WorkerIDs : vm'[v].on => vm[v].on
        <3>1. On(r)' => On(r)  BY <2>1 DEF On
        <3> QED  BY <1>2, <2>1, <3>1 DEF Legal, LegalStep
    <2>2. CASE (\A x \in Stamps : RegStep(x)) /\ \A v \in WorkerIDs : vm'[v].on <=> vm[v].on
        <3>1. On(r)' <=> On(r)  BY <2>2 DEF On
        <3>2. RegStep(r)  BY <2>2
        <3> QED  BY <1>2, <3>1, <3>2 DEF Legal, LegalStep, RegStep
    <2> QED  BY <2>1, <2>2
<1>4. ASSUME NEW v \in WorkerIDs PROVE Stage(v)'
    <2>1. CASE ~Staged(op'[v])  BY <2>1 DEF Stage, Staged
    <2>2. CASE op'[v] = op[v] /\ Staged(op[v])
        <3>1. op[v].stamp \in Stamps
            <4>1. op[v].stamp # 0  BY <2>2 DEF SingleInv, IndInv, WorkerInv, OpShape, Staged
            <4>2. op[v] \in Op  BY Basics DEF SingleInv
            <4> QED  BY <4>1, <4>2 DEF Op, Name
        <3>2. runner'[op[v].stamp] = "new" <=> runner[op[v].stamp] = "new"  BY <3>1 DEF RegStep
        <3>3. Stage(v)  BY DEF SingleInv
        <3>4. vm'[v].on => vm[v].on  OBVIOUS
        <3> QED  BY <2>2, <3>2, <3>3, <3>4 DEF Stage
    <2> QED  BY <2>1, <2>2
<1> QED  BY <1>3, <1>4, LegalIsAllowed DEF StepOK

-----------------------------------------------------------------------------
(* Steps that leave the names' VMs where they are *)

\* A step that changes only operations, none of them one that sets up a VM.
LEMMA QuietOps ==
    ASSUME SingleInv, UNCHANGED <<vm, runner, created>>,
           \A v \in WorkerIDs : op'[v] = op[v] \/ (~Staged(op[v]) /\ ~Staged(op'[v]))
    PROVE  StepOK
BY QuietNames

\* No operation, and what is not a creation, sets up a VM.
LEMMA NotStaged ==
    /\ ~Staged(NoOp)
    /\ \A o : o.kind # "create" \/ o.at \notin {"clone", "configure", "register", "start"} => ~Staged(o)
BY DEF Staged, NoOp

\* A retirement is at steps of its own.
LEMMA RetireAt ==
    ASSUME IndInv, NEW v \in WorkerIDs, op[v].at \in {"remove", "stop", "destroy", "removeAfter"}
    PROVE  ~Staged(op[v]) /\ op[v].kind \in {"create", "retire"} /\ (op[v].at = "remove" => op[v].kind = "retire")
BY DEF IndInv, WorkerInv, OpShape, Staged

\* DropWaiting: a creation that waits has no name yet.
LEMMA DropWaitingRefines ==
    ASSUME SingleInv, NEW v \in WorkerIDs, DropWaiting(v)
    PROVE  StepOK
<1>1. op'[v] = NoOp /\ (\A u \in WorkerIDs \ {v} : op'[u] = op[u]) /\ op[v].at = "wait"
    BY OneOp DEF SingleInv, DropWaiting
<1>2. UNCHANGED <<vm, runner, created>>  BY DEF DropWaiting, poolVars
<1> QED  BY <1>1, <1>2, NotStaged, QuietOps DEF Staged

\* GetSlot of a retirement.
LEMMA RetireSlotRefines ==
    ASSUME SingleInv, NEW v \in WorkerIDs, GetSlot(v), op[v].kind # "create"
    PROVE  StepOK
<1>1. PICK at : op' = [op EXCEPT ![v].at = at]  BY DEF GetSlot
<1>2. op'[v] = [op[v] EXCEPT !.at = at] /\ \A u \in WorkerIDs \ {v} : op'[u] = op[u]
    BY <1>1, OneOp DEF SingleInv
<1>3. op[v] \in Op  BY Basics DEF SingleInv
<1>4. op'[v].kind = op[v].kind  BY <1>2, <1>3 DEF Op
<1>5. UNCHANGED <<vm, runner, created>>  BY DEF GetSlot, poolVars
<1> QED  BY <1>2, <1>4, <1>5, QuietOps DEF Staged

\* Signal changes what the guest has, not whether it runs.
LEMMA SignalRefines ==
    ASSUME SingleInv, NEW v \in WorkerIDs, Signal(v)
    PROVE  StepOK
<1>1. op[v] \in Op /\ vm[v] \in VM  BY Basics DEF SingleInv
<1>2. UNCHANGED <<runner, created>> /\ ~Staged(op[v])  BY DEF Signal, Staged
<1>3. \A u \in WorkerIDs : vm'[u].stamp = vm[u].stamp /\ vm'[u].on = vm[u].on
    <2>1. CASE UNCHANGED vm  BY <2>1
    <2>2. CASE vm' = [vm EXCEPT ![v] = [@ EXCEPT !.jit = TRUE]]
        <3>1. vm'[v] = [vm[v] EXCEPT !.jit = TRUE] /\ \A u \in WorkerIDs \ {v} : vm'[u] = vm[u]
            BY <2>2, OneVM DEF SingleInv
        <3> QED  BY <3>1, <1>1 DEF VM
    <2> QED  BY <2>1, <2>2 DEF Signal
<1>4. op'[v].at \in {"mark", "stop"} /\ \A u \in WorkerIDs \ {v} : op'[u] = op[u]
    <2>1. CASE GoOn(v, After.signal)
        <3>1. op'[v] = [op[v] EXCEPT !.at = "mark"] /\ \A u \in WorkerIDs \ {v} : op'[u] = op[u]
            BY <2>1, OneOp DEF SingleInv, GoOn, After
        <3> QED  BY <3>1, <1>1 DEF Op
    <2>2. CASE CleanUp(v)
        <3>1. op'[v] = [op[v] EXCEPT !.at = "stop", !.force = TRUE, !.run = TRUE]
              /\ \A u \in WorkerIDs \ {v} : op'[u] = op[u]
            BY <2>2, OneOp DEF SingleInv, CleanUp
        <3> QED  BY <3>1, <1>1 DEF Op
    <2> QED  BY <2>1, <2>2 DEF Signal
<1>5. ~Staged(op'[v])  BY <1>4 DEF Staged
<1> QED  BY <1>2, <1>3, <1>4, <1>5, QuietNames

\* Mark likewise.
LEMMA MarkRefines ==
    ASSUME SingleInv, NEW v \in WorkerIDs, Mark(v)
    PROVE  StepOK
<1>1. op[v] \in Op /\ vm[v] \in VM  BY Basics DEF SingleInv
<1>2. UNCHANGED <<runner, created>> /\ ~Staged(op[v])  BY DEF Mark, Staged
<1>3. \A u \in WorkerIDs : vm'[u].stamp = vm[u].stamp /\ vm'[u].on = vm[u].on
    <2>1. CASE UNCHANGED vm  BY <2>1
    <2>2. CASE vm' = [vm EXCEPT ![v] = [@ EXCEPT !.ready = TRUE]]
        <3>1. vm'[v] = [vm[v] EXCEPT !.ready = TRUE] /\ \A u \in WorkerIDs \ {v} : vm'[u] = vm[u]
            BY <2>2, OneVM DEF SingleInv
        <3> QED  BY <3>1, <1>1 DEF VM
    <2> QED  BY <2>1, <2>2 DEF Mark
<1>4. ~Staged(op'[v]) /\ \A u \in WorkerIDs \ {v} : op'[u] = op[u]
    <2>1. CASE EndOp(v, FALSE)
        <3>1. op'[v] = NoOp /\ \A u \in WorkerIDs \ {v} : op'[u] = op[u]
            BY <2>1, OneOp DEF SingleInv, EndOp
        <3> QED  BY <3>1, NotStaged
    <2>2. CASE CleanUp(v)
        <3>1. op'[v] = [op[v] EXCEPT !.at = "stop", !.force = TRUE, !.run = TRUE]
              /\ \A u \in WorkerIDs \ {v} : op'[u] = op[u]
            BY <2>2, OneOp DEF SingleInv, CleanUp
        <3> QED  BY <3>1, <1>1 DEF Op, Staged
    <2> QED  BY <2>1, <2>2 DEF Mark
<1> QED  BY <1>2, <1>3, <1>4, QuietNames

\* The operation of a retirement moves on, or ends.
LEMMA RetireMoves ==
    ASSUME IndInv, NEW v \in WorkerIDs, NEW step, GoOn(v, step) \/ EndOp(v, TRUE),
           step \notin {"clone", "configure", "register", "start"}
    PROVE  ~Staged(op'[v]) /\ \A u \in WorkerIDs \ {v} : op'[u] = op[u]
<1>1. CASE GoOn(v, step)
    <2>1. op'[v] = [op[v] EXCEPT !.at = step] /\ \A u \in WorkerIDs \ {v} : op'[u] = op[u]
        BY <1>1, OneOp DEF GoOn
    <2>2. op[v] \in Op  BY Basics
    <2> QED  BY <2>1, <2>2 DEF Op, Staged
<1>2. CASE EndOp(v, TRUE)
    <2>1. op'[v] = NoOp /\ \A u \in WorkerIDs \ {v} : op'[u] = op[u]  BY <1>2, OneOp DEF EndOp
    <2> QED  BY <2>1, NotStaged
<1> QED  BY <1>1, <1>2

\* Removing a runner takes an idle registration away.
LEMMA RemovedReg ==
    ASSUME IndInv, NEW n, Removed(n) \/ runner' = runner
    PROVE  \A r \in Stamps : RegStep(r)
<1>1. runner \in [Stamps -> RunnerState]  BY DEF IndInv, TypeOK, PoolTypeOK
<1> QED  BY <1>1 DEF Removed, RegStep

\* RemoveRunner.
LEMMA RemoveRunnerRefines ==
    ASSUME SingleInv, NEW v \in WorkerIDs, RemoveRunner(v)
    PROVE  StepOK
<1>1. ~Staged(op[v])  BY RetireAt DEF SingleInv, RemoveRunner
<1>2. GoOn(v, DestroyVMStep(op[v])) \/ EndOp(v, TRUE)  BY DEF RemoveRunner
<1>3. DestroyVMStep(op[v]) \notin {"clone", "configure", "register", "start"}  BY DEF DestroyVMStep
<1>4. ~Staged(op'[v]) /\ \A u \in WorkerIDs \ {v} : op'[u] = op[u]  BY <1>2, <1>3, RetireMoves DEF SingleInv
<1>5. Removed(op[v].name) \/ runner' = runner  BY DEF RemoveRunner
<1>6. \A r \in Stamps : RegStep(r)  BY <1>5, RemovedReg DEF SingleInv
<1>7. UNCHANGED <<vm, created>>  BY DEF RemoveRunner
<1> QED  BY <1>1, <1>4, <1>6, <1>7, QuietNames

\* RemoveRunnerAfter.
LEMMA RemoveRunnerAfterRefines ==
    ASSUME SingleInv, NEW v \in WorkerIDs, RemoveRunnerAfter(v)
    PROVE  StepOK
<1>1. ~Staged(op[v])  BY RetireAt DEF SingleInv, RemoveRunnerAfter
<1>2. ~Staged(op'[v]) /\ \A u \in WorkerIDs \ {v} : op'[u] = op[u]
    BY RetireMoves DEF SingleInv, RemoveRunnerAfter
<1>3. Removed(op[v].name) \/ runner' = runner  BY DEF RemoveRunnerAfter
<1>4. \A r \in Stamps : RegStep(r)  BY <1>3, RemovedReg DEF SingleInv
<1>5. UNCHANGED <<vm, created>>  BY DEF RemoveRunnerAfter
<1> QED  BY <1>1, <1>2, <1>4, <1>5, QuietNames

\* Stop: the VM goes down.
LEMMA StopRefines ==
    ASSUME SingleInv, NEW v \in WorkerIDs, Stop(v)
    PROVE  StepOK
<1>1. ~Staged(op[v]) /\ vm[v] \in VM  BY RetireAt, Basics DEF SingleInv, Stop
<1>2. ~Staged(op'[v]) /\ \A u \in WorkerIDs \ {v} : op'[u] = op[u]  BY RetireMoves DEF SingleInv, Stop
<1>3. \A u \in WorkerIDs : vm'[u].stamp = vm[u].stamp /\ (vm'[u].on => vm[u].on)
    <2>1. CASE UNCHANGED vm  BY <2>1
    <2>2. CASE vm' = [vm EXCEPT ![v] = [@ EXCEPT !.on = FALSE]]
        <3>1. vm'[v] = [vm[v] EXCEPT !.on = FALSE] /\ \A u \in WorkerIDs \ {v} : vm'[u] = vm[u]
            BY <2>2, OneVM DEF SingleInv
        <3> QED  BY <3>1, <1>1 DEF VM
    <2> QED  BY <2>1, <2>2 DEF Stop
<1>4. UNCHANGED <<runner, created>>  BY DEF Stop
<1> QED  BY <1>1, <1>2, <1>3, <1>4, QuietNames

-----------------------------------------------------------------------------
(* The steps of a creation, and the end of a VM *)

\* The names of a VMID are creation times that have been handed out.
LEMMA OwnNames ==
    ASSUME IndInv, NEW v \in WorkerIDs
    PROVE  /\ created \in Nat
           /\ \A r \in Own(v) : r \in Stamps /\ ~(r > created) /\ r # 0
           /\ vm[v].kind = "none" <=> vm[v].stamp = 0
           /\ op[v].kind = "create" /\ op[v].at # "wait" => op[v].stamp \in Own(v)
           /\ op[v].kind = "create" /\ op[v].at \notin {"wait", "clone"} /\ vm[v].kind # "none"
                => vm[v].stamp = op[v].stamp
           /\ op[v].kind # "create" \/ op[v].at = "wait" => op[v].stamp = 0
<1>1. Own(v) \subseteq Times(v)  BY DEF Own, Times
<1>2. Times(v) \subseteq 1..created  BY DEF IndInv, TimesApart
<1>3. created \in 0..MaxCreated  BY DEF IndInv, TypeOK
<1>4. created \in Nat /\ \A r \in Own(v) : r \in Stamps /\ ~(r > created) /\ r # 0
    BY <1>1, <1>2, <1>3, Bounds DEF Stamps
<1>5. WorkerInv(v)  BY DEF IndInv
<1> QED  BY <1>4, <1>5 DEF WorkerInv, OpShape, VMShape, CreateShape, Own

\* GetSlot of a creation: it takes the next name, for which there is no VM yet.
LEMMA CreateSlotRefines ==
    ASSUME SingleInv, IndInv', NEW v \in WorkerIDs, GetSlot(v), op[v].kind = "create"
    PROVE  StepOK
<1> USE DEF SingleInv
<1>1. op[v] \in Op /\ created \in Nat /\ op[v].stamp = 0  BY Basics, OwnNames DEF GetSlot
<1>2. /\ op' = [op EXCEPT ![v] = [@ EXCEPT !.at = "clone", !.stamp = created + 1]]
      /\ created' = created + 1 /\ UNCHANGED <<vm, runner>>
    BY DEF GetSlot, NextName, poolVars
<1>3. op'[v] = [op[v] EXCEPT !.at = "clone", !.stamp = created + 1] /\ \A u \in WorkerIDs \ {v} : op'[u] = op[u]
    BY <1>2, OneOp
<1>4. op'[v].kind = "create" /\ op'[v].at = "clone" /\ op'[v].stamp = created + 1  BY <1>1, <1>3 DEF Op
<1>5. \A r \in Stamps : r # created + 1 => ((r > created') <=> (r > created))  BY <1>1, <1>2, Bounds DEF Stamps
<1>6. created + 1 \in Own(v)' /\ (created + 1 > created)  BY <1>1, <1>4 DEF Own
<1>7. ASSUME NEW r \in Stamps \cap (Own(v) \cup Own(v)')
      PROVE  LegalStep(LifeAt(v, r), LifeAt(v, r)', runner[r], runner'[r],
                       vm[v].stamp = r /\ vm[v].on, vm'[v].stamp = r /\ vm'[v].on)
    <2>1. CASE r = created + 1
        <3>1. vm[v].stamp # r  BY <2>1, <1>6, OwnNames DEF Own
        <3>2. LifeAt(v, r) = "absent"  BY <2>1, <1>6, <3>1 DEF LifeAt
        <3>3. LifeAt(v, r)' = "absent"  BY <2>1, <1>2, <1>4, <3>1 DEF LifeAt, Clones
        <3> QED  BY <3>2, <3>3, <1>2 DEF LegalStep
    <2>2. CASE r # created + 1
        <3>1. r = vm[v].stamp  BY <2>2, <1>1, <1>2, <1>4 DEF Own
        <3>2. LifeAt(v, r) = "live" /\ LifeAt(v, r)' = "live"  BY <3>1, <1>1, <1>2, <1>4, <1>7, OwnNames DEF LifeAt, SetsUp
        <3> QED  BY <3>2, <1>2 DEF LegalStep
    <2> QED  BY <2>1, <2>2
<1>8. Stage(v)'
    <2>1. vm'[v].stamp # created + 1  BY <1>1, <1>2, OwnNames DEF Own
    <2> QED  BY <1>4, <2>1 DEF Stage
<1>9. \A r \in Stamps \ (Own(v) \cup Own(v)') : runner'[r] = runner[r] /\ ((r > created') <=> (r > created))
    BY <1>2, <1>5, <1>6
<1> QED  BY <1>2, <1>3, <1>7, <1>8, <1>9, OwnStep

\* A step of a creation past its clone that leaves the VM in its place.
LEMMA CreationStep ==
    ASSUME SingleInv, IndInv', NEW v \in WorkerIDs,
           op[v].kind = "create", op[v].at \in {"configure", "register", "start"},
           op'[v].kind = "create", op'[v].stamp = op[v].stamp,
           \A u \in WorkerIDs \ {v} : op'[u] = op[u] /\ vm'[u] = vm[u],
           vm'[v].stamp = vm[v].stamp, created' = created,
           \A r \in Stamps \ {op[v].stamp} : runner'[r] = runner[r],
           LegalStep(IF vm[v].stamp = op[v].stamp THEN "setup" ELSE "gone",
                     IF vm[v].stamp = op[v].stamp
                     THEN IF op'[v].at \in {"configure", "register", "start"} THEN "setup" ELSE "live" ELSE "gone",
                     runner[op[v].stamp], runner'[op[v].stamp],
                     vm[v].stamp = op[v].stamp /\ vm[v].on, vm[v].stamp = op[v].stamp /\ vm'[v].on),
           op'[v].at # "clone",
           Stage(v)'
    PROVE  StepOK
<1> USE DEF SingleInv
<1> DEFINE s == op[v].stamp
<1>1. s \in Own(v) /\ s \in Stamps /\ ~(s > created) /\ s # 0 /\ vm[v].stamp \in {0, s}
    BY OwnNames
<1>2. Own(v) = {s} /\ Own(v)' = {s}  BY <1>1 DEF Own
<1>3. LifeAt(v, s) = IF vm[v].stamp = s THEN "setup" ELSE "gone"  BY <1>1 DEF LifeAt, SetsUp, Clones
<1>4. LifeAt(v, s)' = IF vm[v].stamp = s
                      THEN IF op'[v].at \in {"configure", "register", "start"} THEN "setup" ELSE "live" ELSE "gone"
    BY <1>1 DEF LifeAt, SetsUp, Clones
<1>5. LegalStep(LifeAt(v, s), LifeAt(v, s)', runner[s], runner'[s],
                vm[v].stamp = s /\ vm[v].on, vm'[v].stamp = s /\ vm'[v].on)
    BY <1>3, <1>4, Zenon
<1>6. \A r \in Stamps \ (Own(v) \cup Own(v)') : runner'[r] = runner[r] /\ ((r > created') <=> (r > created))
    BY <1>2
<1>7. \A r \in Stamps \cap (Own(v) \cup Own(v)') :
            LegalStep(LifeAt(v, r), LifeAt(v, r)', runner[r], runner'[r],
                      vm[v].stamp = r /\ vm[v].on, vm'[v].stamp = r /\ vm'[v].on)
    BY <1>2, <1>5
<1> QED  BY <1>6, <1>7, OwnStep

\* The operation on v goes on with a creation's next step, or with its cleanup.
LEMMA CreationOp ==
    ASSUME IndInv, NEW v \in WorkerIDs, NEW step, GoOn(v, step) \/ CleanUp(v)
    PROVE  /\ op'[v].kind = op[v].kind /\ op'[v].stamp = op[v].stamp
           /\ op'[v].at = step \/ op'[v].at = "stop"
           /\ GoOn(v, step) => op'[v].at = step
           /\ CleanUp(v) => op'[v].at = "stop"
           /\ \A u \in WorkerIDs \ {v} : op'[u] = op[u]
<1>1. op[v] \in Op  BY Basics
<1>2. ASSUME GoOn(v, step)
      PROVE  /\ op'[v].kind = op[v].kind /\ op'[v].stamp = op[v].stamp /\ op'[v].at = step
             /\ \A u \in WorkerIDs \ {v} : op'[u] = op[u]
    <2>1. op'[v] = [op[v] EXCEPT !.at = step] /\ \A u \in WorkerIDs \ {v} : op'[u] = op[u]
        BY <1>2, OneOp DEF GoOn
    <2> QED  BY <2>1, <1>1 DEF Op
<1>3. ASSUME CleanUp(v)
      PROVE  /\ op'[v].kind = op[v].kind /\ op'[v].stamp = op[v].stamp /\ op'[v].at = "stop"
             /\ \A u \in WorkerIDs \ {v} : op'[u] = op[u]
    <2>1. op'[v] = [op[v] EXCEPT !.at = "stop", !.force = TRUE, !.run = TRUE]
          /\ \A u \in WorkerIDs \ {v} : op'[u] = op[u]
        BY <1>3, OneOp DEF CleanUp
    <2> QED  BY <2>1, <1>1 DEF Op
<1> QED  BY <1>2, <1>3

\* Configure: the clone gets its tags, or is abandoned.
LEMMA ConfigureRefines ==
    ASSUME SingleInv, IndInv', NEW v \in WorkerIDs, Configure(v)
    PROVE  StepOK
<1> USE DEF SingleInv
<1>1. op[v].kind = "create" /\ op[v].at = "configure" /\ UNCHANGED <<runner, created>>  BY DEF Configure
<1>2. vm'[v].stamp = vm[v].stamp /\ vm'[v].on = vm[v].on /\ \A u \in WorkerIDs \ {v} : vm'[u] = vm[u]
    <2>1. vm[v] \in VM  BY Basics
    <2>2. CASE UNCHANGED vm  BY <2>2
    <2>3. CASE Tagged(v, op[v].ss)
        <3>1. vm'[v] = [vm[v] EXCEPT !.kind = "worker", !.ss = op[v].ss] /\ \A u \in WorkerIDs \ {v} : vm'[u] = vm[u]
            BY <2>3, OneVM DEF Tagged
        <3> QED  BY <3>1, <2>1 DEF VM
    <2> QED  BY <2>2, <2>3 DEF Configure
<1>3. /\ op'[v].kind = "create" /\ op'[v].stamp = op[v].stamp /\ op'[v].at \in {"register", "stop"}
      /\ \A u \in WorkerIDs \ {v} : op'[u] = op[u]
    <2>1. GoOn(v, "register") \/ CleanUp(v)  BY DEF Configure, After
    <2> QED  BY <1>1, <2>1, CreationOp
<1>4. Stage(v)  OBVIOUS
<1>5. Stage(v)'  BY <1>1, <1>2, <1>3, <1>4 DEF Stage
<1> QED  BY <1>1, <1>2, <1>3, <1>5, CreationStep DEF LegalStep

\* Register: the runner is new until then, and the VM is off.
LEMMA RegisterRefines ==
    ASSUME SingleInv, IndInv', NEW v \in WorkerIDs, Register(v)
    PROVE  StepOK
<1> USE DEF SingleInv
<1> DEFINE s == op[v].stamp
<1>1. op[v].kind = "create" /\ op[v].at = "register" /\ UNCHANGED <<vm, created>>  BY DEF Register
<1>2. s \in Stamps /\ vm[v].stamp = s
    <2>1. vm[v].kind = "worker"  BY <1>1 DEF IndInv, WorkerInv, CreateShape
    <2> QED  BY <1>1, <2>1, OwnNames
<1>3. runner[s] = "new" /\ ~vm[v].on  BY <1>1 DEF Stage
<1>4. runner \in [Stamps -> RunnerState] /\ op[v] \in Op  BY Basics
<1>5. CASE CallWorks /\ runner' = [runner EXCEPT ![op[v].stamp] = "idle"]
           /\ op' = [op EXCEPT ![v] = [@ EXCEPT !.at = After.register, !.name = op[v].stamp]]
    <2>1. op'[v] = [op[v] EXCEPT !.at = "start", !.name = op[v].stamp] /\ \A u \in WorkerIDs \ {v} : op'[u] = op[u]
        BY <1>5, OneOp DEF After
    <2>2. op'[v].kind = "create" /\ op'[v].stamp = s /\ op'[v].at = "start"  BY <2>1, <1>1, <1>4 DEF Op
    <2>3. runner'[s] = "idle" /\ \A r \in Stamps \ {s} : runner'[r] = runner[r]  BY <1>2, <1>4, <1>5
    <2>4. Stage(v)'  BY <1>1, <1>3, <2>2, <2>3 DEF Stage
    <2> QED  BY <1>1, <1>2, <1>3, <2>1, <2>2, <2>3, <2>4, CreationStep DEF LegalStep
<1>6. CASE CleanUp(v) /\ (UNCHANGED runner \/ runner' = [runner EXCEPT ![op[v].stamp] = "idle"])
    <2>1. /\ op'[v].kind = "create" /\ op'[v].stamp = s /\ op'[v].at = "stop"
          /\ \A u \in WorkerIDs \ {v} : op'[u] = op[u]
        BY <1>1, <1>6, CreationOp
    <2>2. runner'[s] \in {"new", "idle"} /\ \A r \in Stamps \ {s} : runner'[r] = runner[r]  BY <1>2, <1>3, <1>4, <1>6
    <2>3. Stage(v)'  BY <2>1 DEF Stage
    <2> QED  BY <1>1, <1>2, <1>3, <2>1, <2>2, <2>3, CreationStep DEF LegalStep
<1> QED  BY <1>5, <1>6 DEF Register

\* StartVM: the VM boots once, with its runner registered.
LEMMA StartVMRefines ==
    ASSUME SingleInv, IndInv', NEW v \in WorkerIDs, StartVM(v)
    PROVE  StepOK
<1> USE DEF SingleInv
<1> DEFINE s == op[v].stamp
<1>1. op[v].kind = "create" /\ op[v].at = "start" /\ UNCHANGED <<runner, created>>  BY DEF StartVM
<1>2. s \in Stamps /\ vm[v].stamp = s
    <2>1. vm[v].kind = "worker"  BY <1>1 DEF IndInv, WorkerInv, CreateShape
    <2> QED  BY <1>1, <2>1, OwnNames
<1>3. runner[s] # "new" /\ ~vm[v].on  BY <1>1 DEF Stage
<1>4. vm'[v].stamp = vm[v].stamp /\ (UNCHANGED vm \/ vm'[v].on) /\ \A u \in WorkerIDs \ {v} : vm'[u] = vm[u]
    <2>1. vm[v] \in VM  BY Basics
    <2>2. CASE UNCHANGED vm  BY <2>2
    <2>3. CASE vm' = [vm EXCEPT ![v] = [@ EXCEPT !.on = TRUE]]
        <3>1. vm'[v] = [vm[v] EXCEPT !.on = TRUE] /\ \A u \in WorkerIDs \ {v} : vm'[u] = vm[u]
            BY <2>3, OneVM
        <3> QED  BY <3>1, <2>1 DEF VM
    <2> QED  BY <2>2, <2>3 DEF StartVM
<1>5. /\ op'[v].kind = "create" /\ op'[v].stamp = s /\ op'[v].at \in {"signal", "stop"}
      /\ \A u \in WorkerIDs \ {v} : op'[u] = op[u]
    <2>1. GoOn(v, "signal") \/ CleanUp(v)  BY DEF StartVM, After
    <2> QED  BY <1>1, <2>1, CreationOp
<1>6. Stage(v)'  BY <1>5 DEF Stage
<1> QED  BY <1>1, <1>2, <1>3, <1>4, <1>5, <1>6, CreationStep DEF LegalStep

\* Clone: the name gets its VM, or never will.
LEMMA CloneRefines ==
    ASSUME SingleInv, IndInv', NEW v \in WorkerIDs, Clone(v)
    PROVE  StepOK
<1> USE DEF SingleInv
<1>1. op[v].kind = "create" /\ op[v].at = "clone" /\ UNCHANGED <<runner, created>>  BY DEF Clone
<1>2. PICK s \in Stamps : s = op[v].stamp /\ s \in Own(v) /\ ~(s > created) /\ s # 0  BY <1>1, OwnNames
<1>3. runner[s] = "new"  BY <1>1, <1>2 DEF IndInv, WorkerInv, CreateShape
<1>4. \A r \in Stamps \ (Own(v) \cup Own(v)') : runner'[r] = runner[r] /\ ((r > created') <=> (r > created))
    BY <1>1
<1>5. NoOp.kind = "none" /\ NoOp.stamp = 0  BY DEF NoOp
<1>6. CASE EndOp(v, TRUE) /\ UNCHANGED vm
    <2>1. op'[v] = NoOp /\ \A u \in WorkerIDs \ {v} : op'[u] = op[u]  BY <1>6, OneOp DEF EndOp
    <2>2. ASSUME NEW r \in Stamps \cap (Own(v) \cup Own(v)')
          PROVE  LegalStep(LifeAt(v, r), LifeAt(v, r)', runner[r], runner'[r],
                           vm[v].stamp = r /\ vm[v].on, vm'[v].stamp = r /\ vm'[v].on)
        <3>1. r \in {vm[v].stamp, s} /\ r # 0  BY <2>1, <2>2, <1>2, <1>5, <1>6 DEF Own
        <3>2. CASE vm[v].stamp = r
            <4>1. LifeAt(v, r) = "live" /\ LifeAt(v, r)' = "live"  BY <3>2, <2>1, <1>1, <1>5, <1>6 DEF LifeAt, SetsUp
            <4> QED  BY <4>1, <1>1, <1>6 DEF LegalStep
        <3>3. CASE vm[v].stamp # r
            <4>1. r = s  BY <3>1, <3>3
            <4>2. LifeAt(v, r) = "absent"  BY <4>1, <3>3, <1>1, <1>2 DEF LifeAt, Clones
            <4>3. LifeAt(v, r)' = "gone"  BY <4>1, <3>3, <2>1, <1>1, <1>2, <1>5, <1>6 DEF LifeAt, Clones
            <4> QED  BY <4>2, <4>3, <1>1, <1>6 DEF LegalStep
        <3> QED  BY <3>2, <3>3
    <2>3. Stage(v)'  BY <2>1, <1>5 DEF Stage
    <2> QED  BY <2>1, <2>2, <2>3, <1>4, <1>6, OwnStep
<1>7. CASE (GoOn(v, After.clone) \/ EndOp(v, TRUE)) /\ ~Taken(v) /\ Cloned(v, op[v].stamp, op[v].tpl)
    <2>1. vm[v].stamp = 0  BY <1>7, OwnNames DEF Taken
    <2>2. vm'[v].stamp = s /\ ~vm'[v].on /\ \A u \in WorkerIDs \ {v} : vm'[u] = vm[u]
        <3>1. vm'[v] = [NoVM EXCEPT !.kind = "clone", !.stamp = s, !.tpl = op[v].tpl]
              /\ \A u \in WorkerIDs \ {v} : vm'[u] = vm[u]
            BY <1>2, <1>7, OneVM DEF Cloned
        <3> QED  BY <3>1 DEF NoVM
    <2>3. /\ \/ op'[v].kind = "create" /\ op'[v].stamp = s /\ op'[v].at = "configure"
             \/ op'[v] = NoOp
          /\ \A u \in WorkerIDs \ {v} : op'[u] = op[u]
        <3>1. CASE GoOn(v, After.clone)
            <4>1. GoOn(v, "configure")  BY <3>1 DEF After
            <4> QED  BY <4>1, <1>1, <1>2, CreationOp
        <3>2. CASE EndOp(v, TRUE)  BY <3>2, OneOp DEF EndOp
        <3> QED  BY <3>1, <3>2, <1>7
    <2>4. Own(v) = {s} /\ Own(v)' = {s}  BY <1>2, <1>5, <2>1, <2>2, <2>3 DEF Own
    <2>5. LifeAt(v, s) = "absent"  BY <1>1, <1>2, <2>1 DEF LifeAt, Clones
    <2>6. LifeAt(v, s)' \in {"setup", "live"}  BY <2>2 DEF LifeAt
    <2>7. LegalStep(LifeAt(v, s), LifeAt(v, s)', runner[s], runner'[s],
                    vm[v].stamp = s /\ vm[v].on, vm'[v].stamp = s /\ vm'[v].on)
        BY <1>1, <1>2, <2>1, <2>2, <2>5, <2>6 DEF LegalStep
    <2>8. \A r \in Stamps \cap (Own(v) \cup Own(v)') :
                LegalStep(LifeAt(v, r), LifeAt(v, r)', runner[r], runner'[r],
                          vm[v].stamp = r /\ vm[v].on, vm'[v].stamp = r /\ vm'[v].on)
        BY <2>4, <2>7
    <2>9. Stage(v)'  BY <1>1, <1>3, <1>5, <2>2, <2>3 DEF Stage
    <2> QED  BY <2>2, <2>3, <2>8, <2>9, <1>4, OwnStep
<1> QED  BY <1>6, <1>7 DEF Clone, VMIDInUse

\* Destroy: only a VM that is down goes.
LEMMA DestroyRefines ==
    ASSUME SingleInv, IndInv', NEW v \in WorkerIDs, Destroy(v)
    PROVE  StepOK
<1> USE DEF SingleInv
<1>1. ~Staged(op[v]) /\ UNCHANGED <<runner, created>> /\ op[v].at = "destroy"  BY RetireAt DEF Destroy
<1>2. VMGone(v) => GoOn(v, "removeAfter") \/ EndOp(v, TRUE)  BY DEF VMGone
<1>3. GoOn(v, "removeAfter") \/ EndOp(v, TRUE)  BY <1>2 DEF Destroy
<1>4. ~Staged(op'[v]) /\ \A u \in WorkerIDs \ {v} : op'[u] = op[u]
    <2>1. "removeAfter" \notin {"clone", "configure", "register", "start"}  OBVIOUS
    <2> QED  BY <1>3, <2>1, RetireMoves, Zenon
<1>5. CASE UNCHANGED vm  BY <1>1, <1>4, <1>5, QuietOps
<1>6. CASE ~vm[v].on /\ Destroyed(v)
    <2>1. vm'[v] = NoVM /\ (\A u \in WorkerIDs \ {v} : vm'[u] = vm[u]) /\ NoVM.stamp = 0
        BY <1>6, OneVM DEF Destroyed, NoVM
    <2>2. op'[v].stamp \in {0, op[v].stamp}
        <3>1. CASE GoOn(v, "removeAfter")
            <4>1. op'[v].stamp = op[v].stamp  BY <3>1, CreationOp
            <4> QED  BY <4>1
        <3>2. CASE EndOp(v, TRUE)
            <4>1. op'[v] = NoOp  BY <3>2, OneOp DEF EndOp
            <4>2. NoOp.stamp = 0  BY DEF NoOp
            <4> QED  BY <4>1, <4>2
        <3> QED  BY <3>1, <3>2, <1>3
    <2>3. Own(v)' \subseteq Own(v)  BY <2>1, <2>2 DEF Own
    <2>4. ASSUME NEW r \in Stamps \cap (Own(v) \cup Own(v)')
          PROVE  LegalStep(LifeAt(v, r), LifeAt(v, r)', runner[r], runner'[r],
                           vm[v].stamp = r /\ vm[v].on, vm'[v].stamp = r /\ vm'[v].on)
        <3>1. ~(r > created) /\ r # 0  BY <2>3, <2>4, OwnNames
        <3>2. LifeAt(v, r)' = "gone"  BY <3>1, <2>1, <1>1, <1>4 DEF LifeAt, Clones, Staged
        <3>3. LifeAt(v, r) = IF vm[v].stamp = r THEN "live" ELSE "gone"
            BY <3>1, <1>1 DEF LifeAt, Clones, SetsUp, Staged
        <3> QED  BY <3>1, <3>2, <3>3, <2>1, <1>1, <1>6 DEF LegalStep
    <2>5. Stage(v)'  BY <1>4 DEF Stage, Staged
    <2>6. \A r \in Stamps \ (Own(v) \cup Own(v)') : runner'[r] = runner[r] /\ ((r > created') <=> (r > created))
        BY <1>1
    <2> QED  BY <2>1, <2>4, <2>5, <2>6, <1>4, OwnStep
<1> QED  BY <1>5, <1>6 DEF Destroy

\* Every step of an operation on a worker VMID.
LEMMA WorkerOpRefines ==
    ASSUME SingleInv, IndInv', NEW v \in WorkerIDs, WorkerOp(v)
    PROVE  StepOK
<1>1. GetSlot(v) => StepOK  BY CreateSlotRefines, RetireSlotRefines
<1> QED  BY <1>1, DropWaitingRefines, CloneRefines, ConfigureRefines, RegisterRefines, StartVMRefines, SignalRefines,
            MarkRefines, RemoveRunnerRefines, StopRefines, DestroyRefines, RemoveRunnerAfterRefines DEF WorkerOp

-----------------------------------------------------------------------------
(* Steps of the pass, the listener, the process and the templates *)

\* An operation on a template.
LEMMA TemplateOpRefines ==
    ASSUME SingleInv, NEW t \in TemplateIDs, TemplateOp(t)
    PROVE  StepOK
<1>1. t \in VMIDs /\ t \notin WorkerIDs /\ op \in [VMIDs -> Op] /\ WorkerIDs \subseteq VMIDs /\ TemplateInv(t)
    BY Constants DEF SingleInv, IndInv, TypeOK, VMIDs
<1>2. UNCHANGED <<vm, runner, created>>
    BY <1>1 DEF TemplateOp, GetSlot, DropWaiting, PruneDestroy, poolVars, TemplateInv
<1>3. PICK o : op' = [op EXCEPT ![t] = o]
    BY <1>1 DEF TemplateOp, GetSlot, DropWaiting, PruneDestroy, EndOp, TemplateInv
<1>4. \A v \in WorkerIDs : op'[v] = op[v]  BY <1>1, <1>3
<1> QED  BY <1>2, <1>4, QuietOps

\* The pass starts operations on VMIDs without one.
LEMMA StartRefines ==
    ASSUME SingleInv, UNCHANGED <<vm, runner, created>>,
           \A v \in WorkerIDs : op'[v] = op[v] \/ (~IsBusy(v) /\ op'[v].at = "wait")
    PROVE  StepOK
BY QuietOps DEF Staged, IsBusy

\* BeginPass.
LEMMA BeginPassRefines ==
    ASSUME SingleInv, BeginPass
    PROVE  StepOK
<1>1. UNCHANGED <<vm, runner, created>>  BY DEF BeginPass, poolVars
<1>2. vm \in [WorkerIDs -> VM] /\ shown \in [WorkerIDs -> Status]  BY DEF SingleInv, IndInv, TypeOK, PoolTypeOK
<1>3. ASSUME NEW v \in WorkerIDs PROVE op'[v] = op[v] \/ (~IsBusy(v) /\ op'[v].at = "wait")
    <2>1. ToPrune \subseteq TemplateIDs /\ v \notin TemplateIDs /\ v \in VMIDs
        BY Constants DEF ToPrune, Templates, VMIDs
    <2>2. op'[v] = IF v \in Strays THEN RetireOp(ListVM(v), TRUE) ELSE op[v]  BY <2>1 DEF BeginPass
    <2>3. ListVM(v) \in Listing  BY <1>2 DEF ListVM, Listing, VM
    <2>4. RetireOp(ListVM(v), TRUE).at = "wait"  BY <2>3, RetireOpType
    <2> QED  BY <2>2, <2>4 DEF Strays
<1> QED  BY <1>1, <1>3, StartRefines

\* LookAt and Ask.
LEMMA LookAtRefines ==
    ASSUME SingleInv, NEW v \in WorkerIDs, LookAt(v) \/ Ask(v)
    PROVE  StepOK
<1>1. UNCHANGED <<vm, runner, created>>  BY DEF LookAt, Ask, poolVars
<1>2. CASE UNCHANGED op  BY <1>1, <1>2, StartRefines
<1>3. CASE ~IsBusy(v) /\ \E force \in BOOLEAN : StartRetire(v, force)
    <2>1. PICK force \in BOOLEAN : StartRetire(v, force)  BY <1>3
    <2>2. op'[v] = RetireOp(seen[v], force) /\ \A u \in WorkerIDs \ {v} : op'[u] = op[u]
        BY <2>1, OneOp DEF SingleInv, StartRetire
    <2>3. seen[v] \in Listing  BY DEF SingleInv, IndInv, TypeOK
    <2>4. op'[v].at = "wait"  BY <2>2, <2>3, RetireOpType
    <2> QED  BY <1>1, <1>3, <2>2, <2>4, StartRefines
<1> QED  BY <1>2, <1>3 DEF LookAt, Ask

\* Answer, whatever is going on at the VMID meanwhile.
LEMMA AnswerRefines ==
    ASSUME SingleInv, IndInv', NEW v \in WorkerIDs, Answer(v)
    PROVE  StepOK
<1> USE DEF SingleInv
<1>1. UNCHANGED <<vm, runner, created>>  BY DEF Answer, poolVars
<1>2. CASE UNCHANGED op  BY <1>1, <1>2, StartRefines
<1>3. CASE StartRetire(v, FALSE)
    <2>1. op'[v] = RetireOp(seen[v], FALSE) /\ \A u \in WorkerIDs \ {v} : op'[u] = op[u]
        BY <1>3, OneOp DEF StartRetire
    <2>2. seen[v] \in Listing  BY DEF IndInv, TypeOK
    <2>3. op'[v].kind = "retire" /\ op'[v].stamp = 0  BY <2>1, <2>2, RetireOpType
    <2>4. ASSUME NEW r \in Stamps \cap (Own(v) \cup Own(v)')
          PROVE  LegalStep(LifeAt(v, r), LifeAt(v, r)', runner[r], runner'[r],
                           vm[v].stamp = r /\ vm[v].on, vm'[v].stamp = r /\ vm'[v].on)
        <3>1. r \in Own(v)  BY <2>3, <2>4, <1>1 DEF Own
        <3>2. ~(r > created)  BY <3>1, OwnNames
        <3>3. LifeAt(v, r)' = IF vm[v].stamp = r THEN "live" ELSE "gone"
            BY <1>1, <2>3, <3>2 DEF LifeAt, Clones, SetsUp
        <3>4. LifeAt(v, r) \in IF vm[v].stamp = r THEN {"setup", "live"} ELSE {"absent", "gone"}
            BY <3>2 DEF LifeAt
        <3> QED  BY <1>1, <3>3, <3>4 DEF LegalStep
    <2>5. Stage(v)'  BY <2>3 DEF Stage
    <2>6. \A r \in Stamps \ (Own(v) \cup Own(v)') : runner'[r] = runner[r] /\ ((r > created') <=> (r > created))
        BY <1>1
    <2> QED  BY <1>1, <2>1, <2>4, <2>5, <2>6, OwnStep
<1> QED  BY <1>2, <1>3 DEF Answer

\* Scale.
LEMMA ScaleRefines ==
    ASSUME SingleInv, NEW s \in ScaleSets, Scale(s)
    PROVE  StepOK
<1> DEFINE active == Cardinality(CreatingFor(s)) + Cardinality(Active(s))
           new == IF Known(s) /\ active < desired[s] THEN ToCreate(s, desired[s] - active) ELSE {}
           old == IF Known(s) /\ active > desired[s] THEN ToRetire(s, active - desired[s]) ELSE {}
<1>1. UNCHANGED <<vm, runner, created>>  BY DEF Scale, poolVars
<1>2. seen \in [WorkerIDs -> Listing] /\ newest \in TemplateIDs \cup {0} /\ WorkerIDs \subseteq VMIDs
    BY DEF SingleInv, IndInv, TypeOK, VMIDs
<1>3. (\A v \in new : ~IsBusy(v)) /\ (new # {} => newest \in TemplateIDs)
    BY <1>2 DEF ToCreate, Lowest, FreeIDs
<1>4. \A v \in old : ~IsBusy(v)
    BY DEF ToRetire, Lowest, Idle, Active
<1>5. op' = [id \in VMIDs |-> IF id \in new THEN CreateOp(s, newest)
                              ELSE IF id \in old THEN RetireOp(seen[id], FALSE)
                              ELSE op[id]]
    BY DEF Scale
<1> HIDE DEF active, new, old
<1>6. ASSUME NEW v \in WorkerIDs PROVE op'[v] = op[v] \/ (~IsBusy(v) /\ op'[v].at = "wait")
    <2>1. CASE v \in new
        <3>1. op'[v] = CreateOp(s, newest) /\ newest \in TemplateIDs  BY <1>2, <1>3, <1>5, <2>1
        <3> QED  BY <1>3, <2>1, <3>1, CreateOpType
    <2>2. CASE v \in old /\ v \notin new
        <3>1. op'[v] = RetireOp(seen[v], FALSE) /\ seen[v] \in Listing  BY <1>2, <1>5, <2>2
        <3> QED  BY <1>4, <2>2, <3>1, RetireOpType
    <2>3. CASE v \notin old /\ v \notin new  BY <1>2, <1>5, <2>3
    <2> QED  BY <2>1, <2>2, <2>3
<1> QED  BY <1>1, <1>6, StartRefines

\* Every step of the pass.
LEMMA PassRefines ==
    ASSUME SingleInv, IndInv', Pass
    PROVE  StepOK
BY BeginPassRefines, LookAtRefines, AnswerRefines, ScaleRefines DEF Pass

\* The listener's reports and the timers.
LEMMA ReportRefines ==
    ASSUME SingleInv, Listener \/ Timers
    PROVE  StepOK
<1>1. UNCHANGED <<vm, runner, created, op>>
    BY DEF Listener, Timers, DesiredRunners, JobStarted, JobCompleted, BackoffEnds, poolVars
<1> QED  BY <1>1, QuietOps

\* The process forgets its operations: a creation's VM is left to others, or never comes.
LEMMA ForgetRefines ==
    ASSUME SingleInv, Forget, UNCHANGED <<vm, runner, created>>
    PROVE  StepOK
<1> USE DEF SingleInv
<1>1. \A v \in WorkerIDs : op'[v].kind = "none"  BY DEF Forget, VMIDs, NoOp
<1>2. \A v \in WorkerIDs : Stage(v)'  BY <1>1 DEF Stage
<1> SUFFICES ASSUME NEW r \in Stamps PROVE Legal(r)  BY <1>2, LegalIsAllowed DEF StepOK
<1>3. ~SettingUp(r)' /\ ~AboutToClone(r)'  BY <1>1 DEF SettingUp, AboutToClone
<1>4. (HasVM(r)' <=> HasVM(r)) /\ (On(r)' <=> On(r)) /\ runner'[r] = runner[r] /\ ((r > created') <=> (r > created))
    BY DEF HasVM, On
<1>5. CASE HasVM(r)
    <2>1. LifeOf(r)' = "live" /\ LifeOf(r) \in {"setup", "live"}  BY <1>3, <1>4, <1>5 DEF LifeOf
    <2> QED  BY <1>4, <2>1 DEF Legal, LegalStep
<1>6. CASE ~HasVM(r)
    <2>1. LifeOf(r)' = IF r > created THEN "absent" ELSE "gone"  BY <1>3, <1>4, <1>6 DEF LifeOf
    <2>2. LifeOf(r) \in IF r > created THEN {"absent"} ELSE {"absent", "gone"}  BY <1>6 DEF LifeOf
    <2>3. r > created \/ ~(r > created)  OBVIOUS
    <2> QED  BY <1>4, <2>1, <2>2, <2>3 DEF Legal, LegalStep
<1> QED  BY <1>5, <1>6

\* The process stops, dies and starts.
LEMMA ProcessRefines ==
    ASSUME SingleInv, Process
    PROVE  StepOK
<1>1. UNCHANGED <<vm, runner, created>>
    BY DEF Process, Shutdown, Stopped, Crash, Restart, poolVars
<1>2. Forget \/ UNCHANGED op
    BY DEF Process, Shutdown, Stopped, Crash, Restart
<1> QED  BY <1>1, <1>2, ForgetRefines, QuietOps

-----------------------------------------------------------------------------
(* Steps of Proxmox, the guests, GitHub and the installer *)

\* A VM that runs is past its setup.
LEMMA RunningIsLive ==
    ASSUME SingleInv, NEW v \in WorkerIDs, vm[v].on
    PROVE  /\ vm[v].stamp \in Stamps /\ LifeOf(vm[v].stamp) = "live" /\ On(vm[v].stamp)
<1> USE DEF SingleInv
<1>1. vm[v].stamp # 0  BY DEF IndInv, WorkerInv, VMShape
<1>2. PICK s \in Stamps : s = vm[v].stamp
    <2>1. vm[v] \in VM  BY Basics
    <2> QED  BY <1>1, <2>1 DEF VM, Name
<1>3. HasVM(s) /\ On(s)  BY <1>2 DEF HasVM, On
<1>4. ASSUME SettingUp(s) PROVE FALSE
    <2>1. PICK u \in WorkerIDs : op[u].kind = "create" /\ op[u].stamp = s /\ op[u].at \in {"configure", "register", "start"}
        BY <1>4 DEF SettingUp
    <2>2. s \in Times(u) /\ s \in Times(v)  BY <1>1, <1>2, <2>1 DEF Times
    <2>3. u = v  BY <2>2 DEF IndInv, TimesApart
    <2> QED  BY <2>1, <2>3 DEF Stage
<1> QED  BY <1>2, <1>3, <1>4 DEF LifeOf

\* The guests' steps.
LEMMA GuestsRefine ==
    ASSUME SingleInv, UNCHANGED ctlVars, NEW v \in WorkerIDs,
           Sample(v) \/ AssignJob(v) \/ FinishJob(v) \/ PowerOff(v) \/ GuestDies(v)
    PROVE  StepOK
<1> USE DEF SingleInv
<1>1. UNCHANGED <<op, created>>  BY DEF ctlVars
<1>2. vm[v] \in VM /\ runner \in [Stamps -> RunnerState]  BY Basics
<1>3. CASE Sample(v)  BY <1>1, <1>3, QuietOps DEF Sample
<1>4. CASE AssignJob(v) \/ FinishJob(v)
    <2>1. UNCHANGED vm /\ vm[v].on  BY <1>4 DEF AssignJob, FinishJob
    <2>2. PICK s \in Stamps : s = vm[v].stamp /\ LifeOf(s) = "live" /\ On(s)  BY <2>1, RunningIsLive
    <2>3. \A r \in Stamps : RegStep(r)
        <3>1. CASE AssignJob(v)  BY <1>2, <2>2, <3>1 DEF AssignJob, RegStep
        <3>2. CASE FinishJob(v)  BY <1>2, <2>2, <3>2 DEF FinishJob, RegStep
        <3> QED  BY <1>4, <3>1, <3>2
    <2> QED  BY <1>1, <2>1, <2>3, QuietNames
<1>5. CASE PowerOff(v) \/ GuestDies(v)
    <2>1. vm'[v] = [vm[v] EXCEPT !.on = FALSE] /\ \A u \in WorkerIDs \ {v} : vm'[u] = vm[u]
        BY <1>5, OneVM DEF PowerOff, GuestDies
    <2>2. vm'[v].stamp = vm[v].stamp /\ ~vm'[v].on  BY <1>2, <2>1 DEF VM
    <2>3. runner' = runner  BY <1>5 DEF PowerOff, GuestDies
    <2> QED  BY <1>1, <2>1, <2>2, <2>3, QuietNames
<1> QED  BY <1>3, <1>4, <1>5

\* GitHub's own steps.
LEMMA GitHubRefines ==
    ASSUME SingleInv, UNCHANGED ctlVars, NEW n \in Stamps, RunnerDeleted(n) \/ JobAbandoned(n)
    PROVE  StepOK
<1>1. UNCHANGED <<op, created, vm>>  BY DEF ctlVars, RunnerDeleted, JobAbandoned
<1>2. runner \in [Stamps -> RunnerState]  BY DEF SingleInv, IndInv, TypeOK, PoolTypeOK
<1>3. \A r \in Stamps : RegStep(r)  BY <1>2 DEF RegStep, RunnerDeleted, JobAbandoned
<1> QED  BY <1>1, <1>3, QuietNames

\* Clones that an import destroys: they are down, and their names are gone.
LEMMA ImportRefines ==
    ASSUME SingleInv, UNCHANGED <<op, created, runner>>, NEW gone \in SUBSET WorkerIDs,
           \A v \in gone : vm[v].kind = "clone",
           vm' = [v \in WorkerIDs |-> IF v \in gone THEN NoVM ELSE vm[v]]
    PROVE  StepOK
<1> USE DEF SingleInv
<1>1. NoVM.stamp = 0 /\ NoVM.on = FALSE  BY DEF NoVM
<1>2. \A v \in WorkerIDs : vm'[v] = IF v \in gone THEN NoVM ELSE vm[v]  OBVIOUS
<1>3. ASSUME NEW v \in WorkerIDs PROVE Stage(v)'
    <2>1. Stage(v) /\ WorkerInv(v)  BY DEF IndInv
    <2> QED  BY <1>1, <1>2, <2>1 DEF Stage, WorkerInv, OpShape
<1> SUFFICES ASSUME NEW r \in Stamps PROVE Legal(r)  BY <1>3, LegalIsAllowed DEF StepOK
<1>4. r # 0  BY Bounds DEF Stamps
<1>5. CASE \E v \in gone : vm[v].stamp = r
    <2>1. PICK v \in gone : vm[v].stamp = r  BY <1>5
    <2>2. vm[v].kind = "clone" /\ ~vm[v].on  BY <2>1 DEF IndInv, WorkerInv, VMShape
    <2>3. r \in Times(v)  BY <1>4, <2>1 DEF Times
    <2>4. \A u \in WorkerIDs \ {v} : r \notin Times(u)  BY <2>1, <2>3 DEF IndInv, TimesApart
    <2>5. \A u \in WorkerIDs \ {v} : vm[u].stamp # r /\ op[u].stamp # r  BY <1>4, <2>4 DEF Times
    <2>6. Alone(v, r) /\ Alone(v, r)'  BY <1>1, <1>2, <1>4, <2>5 DEF Alone
    <2>7. ~Clones(op[v], r)
        BY <2>1 DEF Clones, Stage
    <2>8. ~(r > created)  BY <2>1, <1>4, OwnNames DEF Own
    <2>9. LifeAt(v, r) \in {"setup", "live"} /\ LifeAt(v, r)' = "gone" /\ vm'[v] = NoVM
        BY <1>1, <1>2, <1>4, <2>1, <2>7, <2>8 DEF LifeAt
    <2>10. LifeOf(r) = LifeAt(v, r) /\ ~On(r)  BY <2>1, <2>2, <2>6, Local DEF LifeIsLocal
    <2>11. LifeOf(r)' = LifeAt(v, r)' /\ ~On(r)'  BY <1>1, <2>1, <2>6, <2>9, LocalNext DEF LifeIsLocal
    <2> HIDE DEF LifeAt, LifeOf, On
    <2> QED  BY <2>9, <2>10, <2>11 DEF Legal, LegalStep
<1>6. CASE ~ \E v \in gone : vm[v].stamp = r
    <2>1. \A v \in WorkerIDs : (vm'[v].stamp = r <=> vm[v].stamp = r) /\ (vm'[v].stamp = r => vm'[v].on = vm[v].on)
        BY <1>1, <1>2, <1>4, <1>6
    <2>2. On(r)' <=> On(r)  BY <2>1 DEF On
    <2>3. LifeOf(r)' = LifeOf(r)  BY <2>1, LifeKept
    <2> QED  BY <2>2, <2>3 DEF Legal, LegalStep
<1> QED  BY <1>5, <1>6

\* The installer's steps.
LEMMA InstallerRefines ==
    ASSUME SingleInv, UNCHANGED ctlVars, Installer
    PROVE  StepOK
<1>1. UNCHANGED <<op, created, runner>>
    BY DEF ctlVars, Installer, ImportTemplate, TemplateListed, CloneSmokeTest, DestroySmokeTest
<1>2. CASE UNCHANGED vm  BY <1>1, <1>2, QuietOps
<1>3. ASSUME NEW t \in TemplateIDs, NEW version \in 1..MaxVersion, ImportTemplate(t, version) PROVE StepOK
    <2>1. PICK same \in SUBSET TemplateIDs :
              vm' = [v \in WorkerIDs |-> IF v \in {u \in WorkerIDs : vm[u].kind = "clone" /\ vm[u].tpl \in same}
                                         THEN NoVM ELSE vm[v]]
        BY <1>3 DEF ImportTemplate
    <2> DEFINE gone == {u \in WorkerIDs : vm[u].kind = "clone" /\ vm[u].tpl \in same}
    <2>2. gone \in SUBSET WorkerIDs /\ \A v \in gone : vm[v].kind = "clone"  OBVIOUS
    <2>3. vm' = [v \in WorkerIDs |-> IF v \in gone THEN NoVM ELSE vm[v]]  BY <2>1
    <2> HIDE DEF gone
    <2> QED  BY <1>1, <2>2, <2>3, ImportRefines
<1> QED  BY <1>2, <1>3 DEF Installer, TemplateListed, CloneSmokeTest, DestroySmokeTest

-----------------------------------------------------------------------------
(* The theorem *)

\* Every step of the controller and its surroundings.
LEMMA NextRefines == SingleInv /\ [Next]_vars => [Single!WorkerNext]_(Single!workerVars) /\ SingleInv'
<1> SUFFICES ASSUME SingleInv, [Next]_vars PROVE Single!WorkerNext /\ SingleInv'
    OBVIOUS
<1>1. IndInv'  BY NextInv DEF SingleInv
<1> SUFFICES StepOK  BY <1>1 DEF StepOK, SingleInv
<1>2. CASE UNCHANGED vars
    <2>1. UNCHANGED <<vm, runner, created, op>>  BY <1>2 DEF vars, poolVars, ctlVars
    <2> QED  BY <2>1, QuietOps
<1>3. CASE UNCHANGED ctlVars /\ Guests  BY <1>3, GuestsRefine DEF Guests
<1>4. CASE UNCHANGED ctlVars /\ GitHub  BY <1>4, GitHubRefines DEF GitHub
<1>5. CASE UNCHANGED ctlVars /\ Aging
    <2>1. UNCHANGED <<vm, runner, created, op>>  BY <1>5 DEF Aging, Expire, ctlVars
    <2> QED  BY <2>1, QuietOps
<1> QED  BY <1>1, <1>2, <1>3, <1>4, <1>5, WorkerOpRefines, TemplateOpRefines, PassRefines, ReportRefines,
            ProcessRefines, InstallerRefines DEF Next

\* The initial states.
LEMMA InitRefines == Init => Single!WorkerInit /\ SingleInv
<1> SUFFICES ASSUME Init PROVE Single!WorkerInit /\ SingleInv  OBVIOUS
<1>1. IndInv  BY InitInv
<1>2. \A v \in WorkerIDs : op[v].kind = "none" /\ vm[v].stamp = 0 /\ ~vm[v].on
    BY DEF Init, PoolInit, VMIDs, NoOp, NoVM
<1>3. \A v \in WorkerIDs : Stage(v)  BY <1>2 DEF Stage
<1>4. ASSUME NEW r \in Stamps PROVE LifeOf(r) = "absent" /\ runner[r] = "new" /\ ~On(r)
    <2>1. r # 0 /\ r > created  BY Bounds DEF Stamps, Init
    <2>2. ~HasVM(r) /\ ~On(r)  BY <1>2, <2>1 DEF HasVM, On
    <2> QED  BY <2>1, <2>2 DEF LifeOf, Init, PoolInit
<1>5. Single!WorkerInit  BY <1>4 DEF Single!WorkerInit, On
<1> QED  BY <1>1, <1>3, <1>5 DEF SingleInv

\* Workers are single-use (SingleUse): every behaviour of the controller, with its crashes, lost answers, guests that
\* die and installs beside it, is one in which each name goes through Worker's steps.
THEOREM SingleUseHolds == Spec => SingleUse
BY InitRefines, NextRefines, PTL DEF Spec, SingleUse, Single!WorkerSpec

=============================================================================
