--------------------------- MODULE ListenerProofs ---------------------------
(***************************************************************************)
(* Proofs about Listener for any scale sets, limits, labels and bounds.    *)
(***************************************************************************)
EXTENDS Listener, TLAPS

-----------------------------------------------------------------------------
(* The inductive invariant *)

\* The target of s that a pass would read now.
Current(s) == IF s \in known THEN desired[s] ELSE -1

\* A pass has acted on the target of s, or one is still to come or to get there.
Attended(s) == s \in todo \/ wake \/ at[s] = "wake" \/ acted[s] = Current(s)

WakeInv ==
    /\ pc = "sleep" => todo = {}
    /\ pc = "pass" \/ (pc = "sleep" /\ passOK) => \A s \in ScaleSets : Attended(s)

\* Registration goes through the scale sets one by one, nobody listens before it is through, and the call it is about
\* to make fits what GitHub has.
RegisterInv ==
    /\ \A s \in ScaleSets : Len(remote[s]) <= 1 /\ (at[s] # "none" => remote[s] = <<want>>)
    /\ pc \in {"down", "register"} => \A s \in ScaleSets : at[s] = "none" /\ sess[s] = "new"
    /\ pc = "register" =>
        /\ call # None /\ call.set \in todo
        /\ \A s \in ScaleSets \ todo : remote[s] = <<want>>
        /\ call.step = "create" => remote[call.set] = <<>>
        /\ call.step = "update" => remote[call.set] # <<>>

\* Nothing failed so far, except that the controller may have been told to stop.
Clean == faults <= (IF cancelled THEN 1 ELSE 0) /\ outages = 0

SessionInv ==
    /\ cancelled => faults >= 1
    /\ pc = "exit" => cancelled
    /\ outages = 0 => reach
    /\ \A s \in ScaleSets :
        /\ at[s] \in {"open", "wait"} => sess[s] # "open"
        /\ Clean /\ at[s] = "none" /\ sess[s] = "open" => session[s] = "none"

ListenerInv == TypeOK /\ WakeInv /\ RegisterInv /\ SessionInv

-----------------------------------------------------------------------------
(* Values *)

\* What ListenerAssumption says of the bounds.
LEMMA Bounds ==
    /\ MinRunners \in Nat /\ MaxRunners \in Nat /\ MaxAssigned \in Nat
    /\ MaxMessages \in Nat /\ MaxFaults \in Nat /\ MaxOutages \in Nat
BY ListenerAssumption DEF ListenerAssumption

\* A target is within the configured limits, whatever GitHub assigns.
LEMMA TargetType ==
  ASSUME NEW n \in 0..MaxAssigned
  PROVE  TargetOf(n) \in Targets
BY Bounds DEF TargetOf, Targets

\* Counting a fault keeps the counter within its bound, and a step that counts none leaves it.
LEMMA FaultType ==
  ASSUME faults \in 0..MaxFaults, Fault
  PROVE  faults' \in 0..MaxFaults /\ faults' = faults + 1
BY Bounds DEF Fault

\* A call that works counts no fault; one that fails counts one, unless GitHub is away or ctx has ended.
LEMMA CallType ==
  ASSUME faults \in 0..MaxFaults, Works \/ Fails \/ Lost
  PROVE  /\ faults' \in 0..MaxFaults /\ faults' >= faults
         /\ faults' = faults \/ (faults' = faults + 1 /\ ~cancelled)
BY Bounds, FaultType DEF Works, Fails, Lost, Fault

\* Removing the first message leaves messages.
LEMMA TailType ==
  ASSUME NEW S, NEW q \in Seq(S), q # <<>>
  PROVE  Head(q) \in S /\ Tail(q) \in Seq(S)
OBVIOUS

\* One label is one scale set.
LEMMA OneLabel == Len(<<want>>) = 1 /\ Len(<<>>) = 0 /\ <<want>> # <<>>
OBVIOUS

-----------------------------------------------------------------------------
(* Initial states *)

\* A host without a controller satisfies the invariant.
LEMMA InitInv == Init => ListenerInv
<1> SUFFICES ASSUME Init PROVE ListenerInv
  OBVIOUS
<1>1. TypeOK
  <2>1. remote \in [ScaleSets -> Seq(Labels)] /\ mail \in [ScaleSets -> Seq(0..MaxAssigned)]
    BY DEF Init
  <2>2. assigned \in [ScaleSets -> 0..MaxAssigned] /\ desired \in [ScaleSets -> Targets]
    BY Bounds DEF Init, Targets
  <2>3. acted \in [ScaleSets -> Targets \cup {-1}]
    BY DEF Init
  <2>4. sent \in 0..MaxMessages /\ faults \in 0..MaxFaults /\ outages \in 0..MaxOutages
    BY Bounds DEF Init
  <2> QED BY <2>1, <2>2, <2>3, <2>4 DEF Init, TypeOK, None
<1>2. WakeInv
  BY DEF Init, WakeInv
<1>3. RegisterInv
  BY OneLabel DEF Init, RegisterInv
<1>4. SessionInv
  BY DEF Init, SessionInv
<1> QED BY <1>1, <1>2, <1>3, <1>4 DEF ListenerInv

-----------------------------------------------------------------------------
(* Registration *)

\* Registration goes on with another scale set, or is over.
LEMMA RegisteredStep ==
  ASSUME ListenerInv, pc = "register", Registered,
         remote' \in [ScaleSets -> Seq(Labels)], remote'[call.set] = <<want>>,
         \A s \in ScaleSets \ {call.set} : remote'[s] = remote[s],
         faults' \in 0..MaxFaults, faults' >= faults,
         UNCHANGED <<session, assigned, mail, reach, want, cancelled, stateVars, reportVars, sent, outages>>
  PROVE  ListenerInv'
<1> DEFINE left == todo \ {call.set}
<1>1. call.set \in ScaleSets /\ left \subseteq ScaleSets /\ \A s \in ScaleSets \ left : remote'[s] = <<want>>
  BY DEF ListenerInv, TypeOK, RegisterInv, None
<1>2. ASSUME NEW s \in ScaleSets PROVE Len(remote'[s]) <= 1
  <2>1. CASE s = call.set
    <3>1. remote'[s] = <<want>>
      BY <2>1
    <3>2. Len(remote'[s]) = 1
      BY <3>1, Zenon, OneLabel
    <3> QED BY <3>2
  <2>2. CASE s # call.set
    BY <2>2 DEF ListenerInv, RegisterInv
  <2> QED BY <2>1, <2>2
<1>3. CASE left = {}
  <2>1. pc' = "pass" /\ todo' = ScaleSets /\ call' = None /\ at' = [s \in ScaleSets |-> "open"]
    BY <1>3 DEF Registered, NextCall
  <2>2. TypeOK'
    BY <2>1 DEF ListenerInv, TypeOK, stateVars, reportVars
  <2>3. WakeInv'
    BY <2>1 DEF WakeInv, Attended
  <2>4. RegisterInv'
    BY <1>1, <1>2, <1>3, <2>1 DEF RegisterInv
  <2>5. SessionInv'
    BY <2>1 DEF ListenerInv, TypeOK, RegisterInv, SessionInv, Clean, stateVars
  <2> QED BY <2>2, <2>3, <2>4, <2>5 DEF ListenerInv
<1>4. CASE left # {}
  <2>1. PICK s \in left : call' = [set |-> s, step |-> "find"]
    BY <1>4 DEF Registered, NextCall
  <2>2. todo' = left /\ pc' = pc /\ at' = at
    BY <1>4 DEF Registered, NextCall
  <2>3. TypeOK'
    BY <1>1, <2>1, <2>2 DEF ListenerInv, TypeOK, stateVars, reportVars
  <2>4. WakeInv'
    BY <2>2 DEF WakeInv
  <2>5. RegisterInv'
    BY <1>1, <1>2, <2>1, <2>2 DEF ListenerInv, RegisterInv, None, stateVars
  <2>6. SessionInv'
    BY <2>2 DEF ListenerInv, TypeOK, RegisterInv, SessionInv, Clean, stateVars
  <2> QED BY <2>3, <2>4, <2>5, <2>6 DEF ListenerInv
<1> QED BY <1>3, <1>4

\* A registration that failed starts over, or ends with ctx. GitHub has at most one scale set more than before, of the
\* name that was to be registered.
LEMMA RetriedStep ==
  ASSUME ListenerInv, pc = "register", Retry,
         remote' \in [ScaleSets -> Seq(Labels)], Len(remote'[call.set]) <= 1,
         \A s \in ScaleSets \ {call.set} : remote'[s] = remote[s],
         faults' \in 0..MaxFaults, faults' >= faults,
         UNCHANGED <<session, assigned, mail, reach, want, cancelled, stateVars, reportVars, sent, outages>>
  PROVE  ListenerInv'
<1>1. call.set \in ScaleSets /\ call \in [set : ScaleSets, step : {"find", "create", "update"}] /\ call.set \in todo
  BY DEF ListenerInv, TypeOK, RegisterInv, None
<1>2. at' = at /\ \A s \in ScaleSets : at[s] = "none" /\ sess[s] = "new"
  BY DEF ListenerInv, RegisterInv, Retry
<1>3. ASSUME NEW s \in ScaleSets PROVE Len(remote'[s]) <= 1
  BY DEF ListenerInv, RegisterInv
<1>4. CASE cancelled
  <2>1. pc' = "exit" /\ todo' = {} /\ call' = None
    BY <1>4 DEF Retry
  <2>2. TypeOK'
    BY <1>2, <2>1 DEF ListenerInv, TypeOK, stateVars, reportVars
  <2>3. WakeInv'
    BY <2>1 DEF WakeInv
  <2>4. RegisterInv'
    BY <1>2, <1>3, <2>1 DEF RegisterInv
  <2>5. SessionInv'
    BY <1>2, <1>4, <2>1 DEF ListenerInv, TypeOK, SessionInv, Clean, stateVars
  <2> QED BY <2>2, <2>3, <2>4, <2>5 DEF ListenerInv
<1>5. CASE ~cancelled
  <2>1. pc' = pc /\ todo' = todo /\ call' = [call EXCEPT !.step = "find"]
    BY <1>5 DEF Retry, RetryStep
  <2>2. call' \in [set : ScaleSets, step : {"find", "create", "update"}] /\ call'.set = call.set /\ call'.step = "find"
    BY <1>1, <2>1
  <2>3. TypeOK'
    BY <1>2, <2>1, <2>2 DEF ListenerInv, TypeOK, stateVars, reportVars
  <2>4. WakeInv'
    BY <2>1 DEF WakeInv
  <2>5. RegisterInv'
    BY <1>1, <1>2, <1>3, <2>1, <2>2 DEF ListenerInv, RegisterInv, None, stateVars
  <2>6. SessionInv'
    BY <1>2, <2>1 DEF ListenerInv, TypeOK, SessionInv, Clean, stateVars
  <2> QED BY <2>3, <2>4, <2>5, <2>6 DEF ListenerInv
<1> QED BY <1>4, <1>5

\* GitHub's scale sets of the name that is being registered become q.
LEMMA RemoteType ==
  ASSUME ListenerInv, pc = "register", NEW q \in Seq(Labels), SetRemote(q)
  PROVE  /\ remote' \in [ScaleSets -> Seq(Labels)] /\ remote'[call.set] = q
         /\ \A s \in ScaleSets \ {call.set} : remote'[s] = remote[s]
<1>1. call.set \in ScaleSets /\ remote \in [ScaleSets -> Seq(Labels)]
  BY DEF ListenerInv, TypeOK, RegisterInv, None
<1> QED BY <1>1 DEF SetRemote

\* Every call of EnsureScaleSet preserves the invariant.
LEMMA EnsureInv ==
  ASSUME ListenerInv, EnsureScaleSet
  PROVE  ListenerInv'
<1>1. /\ pc = "register" /\ faults \in 0..MaxFaults /\ call.set \in ScaleSets
      /\ remote \in [ScaleSets -> Seq(Labels)] /\ want \in Labels
      /\ Len(remote[call.set]) <= 1
  BY DEF EnsureScaleSet, ListenerInv, TypeOK, RegisterInv, None
<1>2. UNCHANGED <<session, assigned, mail, reach, want, cancelled, stateVars, reportVars, sent, outages>>
  BY DEF EnsureScaleSet
<1>3. Append(<<>>, want) = <<want>> /\ <<want>> \in Seq(Labels) /\ Len(<<want>>) <= 1
  BY <1>1, OneLabel
<1>4. CASE Find
  <2>1. remote' = remote /\ faults' \in 0..MaxFaults /\ faults' >= faults
    BY <1>1, <1>4, CallType DEF Find
  <2>2. CASE remote[call.set] = <<want>> /\ Registered
    BY <1>1, <1>2, <2>1, <2>2, RegisteredStep
  <2>3. CASE /\ call' = [call EXCEPT !.step = IF remote[call.set] = <<>> THEN "create" ELSE "update"]
             /\ UNCHANGED <<pc, todo, at>>
    <3>1. /\ call \in [set : ScaleSets, step : {"find", "create", "update"}]
          /\ call' \in [set : ScaleSets, step : {"find", "create", "update"}]
          /\ call'.set = call.set
          /\ call'.step = IF remote[call.set] = <<>> THEN "create" ELSE "update"
      BY <1>1, <2>3 DEF ListenerInv, TypeOK, RegisterInv, None
    <3>2. TypeOK'
      BY <1>2, <2>1, <2>3, <3>1 DEF ListenerInv, TypeOK, stateVars, reportVars
    <3>3. WakeInv'
      BY <1>1, <2>3 DEF WakeInv
    <3>4. RegisterInv'
      BY <1>1, <1>2, <2>1, <2>3, <3>1 DEF ListenerInv, RegisterInv, None, stateVars
    <3>5. SessionInv'
      BY <1>1, <1>2, <2>1, <2>3 DEF ListenerInv, TypeOK, RegisterInv, SessionInv, Clean, stateVars
    <3> QED BY <3>2, <3>3, <3>4, <3>5 DEF ListenerInv
  <2>4. CASE Retry
    BY <1>1, <1>2, <2>1, <2>4, RetriedStep
  <2> QED BY <1>4, <2>2, <2>3, <2>4 DEF Find
<1>5. CASE Create
  <2>1. faults' \in 0..MaxFaults /\ faults' >= faults
    BY <1>1, <1>5, CallType DEF Create
  <2>2. Append(remote[call.set], want) = <<want>>
    BY <1>1, <1>3, <1>5 DEF Create, ListenerInv, RegisterInv
  <2>3. CASE SetRemote(<<want>>) /\ Registered
    BY <1>1, <1>2, <1>3, <2>1, <2>3, RemoteType, RegisteredStep
  <2>4. CASE SetRemote(<<want>>) /\ Retry
    <3>1. /\ remote' \in [ScaleSets -> Seq(Labels)] /\ remote'[call.set] = <<want>>
          /\ \A s \in ScaleSets \ {call.set} : remote'[s] = remote[s]
      BY <1>1, <1>3, <2>4, RemoteType
    <3>2. Len(remote'[call.set]) <= 1
      BY <1>3, <3>1, Zenon
    <3> QED BY <1>1, <1>2, <2>1, <2>4, <3>1, <3>2, RetriedStep
  <2>5. CASE Retry /\ UNCHANGED remote
    BY <1>1, <1>2, <2>1, <2>5, RetriedStep
  <2> QED BY <1>5, <2>2, <2>3, <2>4, <2>5 DEF Create
<1>6. CASE Update
  <2>1. faults' \in 0..MaxFaults /\ faults' >= faults
    BY <1>1, <1>6, CallType DEF Update
  <2>2. CASE SetRemote(<<want>>) /\ Registered
    BY <1>1, <1>2, <1>3, <2>1, <2>2, RemoteType, RegisteredStep
  <2>3. CASE SetRemote(<<want>>) /\ Retry
    <3>1. /\ remote' \in [ScaleSets -> Seq(Labels)] /\ remote'[call.set] = <<want>>
          /\ \A s \in ScaleSets \ {call.set} : remote'[s] = remote[s]
      BY <1>1, <1>3, <2>3, RemoteType
    <3>2. Len(remote'[call.set]) <= 1
      BY <1>3, <3>1, Zenon
    <3> QED BY <1>1, <1>2, <2>1, <2>3, <3>1, <3>2, RetriedStep
  <2>4. CASE Retry /\ UNCHANGED remote
    BY <1>1, <1>2, <2>1, <2>4, RetriedStep
  <2> QED BY <1>6, <2>2, <2>3, <2>4 DEF Update
<1> QED BY <1>4, <1>5, <1>6 DEF EnsureScaleSet

-----------------------------------------------------------------------------
(* Listeners *)

\* A step of the listener of s, which leaves the loop and the registered scale sets alone. What is left to show is that
\* the demand of s is attended to, and that its session is in order.
LEMMA ListenerStep ==
  ASSUME ListenerInv, NEW s \in ScaleSets, at[s] # "none",
         NEW a \in {"none", "open", "first", "listen", "wake", "close", "wait"}, at' = [at EXCEPT ![s] = a],
         known' = known \/ known' = known \cup {s},
         desired' \in [ScaleSets -> Targets], \A r \in ScaleSets \ {s} : desired'[r] = desired[r],
         sess' \in [ScaleSets -> {"new", "open", "failed"}], \A r \in ScaleSets \ {s} : sess'[r] = sess[r],
         session' \in [ScaleSets -> {"none", "ours", "stale"}], \A r \in ScaleSets \ {s} : session'[r] = session[r],
         mail' \in [ScaleSets -> Seq(0..MaxAssigned)], wake' \in BOOLEAN, wake => wake',
         faults' \in 0..MaxFaults, faults' >= faults,
         UNCHANGED <<remote, assigned, reach, want, loopVars, reportVars, sent, outages>>,
         Attended(s) => Attended(s)',
         a \in {"open", "wait"} => sess'[s] # "open",
         Clean' /\ a = "none" /\ sess'[s] = "open" => session'[s] = "none"
  PROVE  ListenerInv'
<1>1. at' \in [ScaleSets -> {"none", "open", "first", "listen", "wake", "close", "wait"}]
      /\ at'[s] = a /\ \A r \in ScaleSets \ {s} : at'[r] = at[r]
  BY DEF ListenerInv, TypeOK
<1>2. TypeOK'
  BY <1>1 DEF ListenerInv, TypeOK, loopVars, reportVars
<1>3. WakeInv'
  <2>1. \A r \in ScaleSets : Attended(r) => Attended(r)'
    BY <1>1 DEF Attended, Current, loopVars, reportVars
  <2> QED BY <2>1 DEF ListenerInv, WakeInv, loopVars, reportVars
<1>4. RegisterInv'
  BY <1>1 DEF ListenerInv, RegisterInv, loopVars
<1>5. SessionInv'
  <2>1. Clean' => Clean
    BY DEF ListenerInv, TypeOK, Clean, loopVars
  <2>2. cancelled' => faults' >= 1
    BY DEF ListenerInv, TypeOK, SessionInv, loopVars
  <2> QED BY <1>1, <2>1, <2>2 DEF ListenerInv, SessionInv, loopVars
<1> QED BY <1>2, <1>3, <1>4, <1>5 DEF ListenerInv

\* listenOnce returns: Listen ends with ctx, or waits and has reported the failure.
LEMMA OnceReturnsType ==
  ASSUME TypeOK, NEW s \in ScaleSets, OnceReturns(s)
  PROVE  /\ \E a \in {"none", "wait"} : at' = [at EXCEPT ![s] = a] /\ (a = "wait" => sess'[s] # "open")
                                                               /\ (a = "none" => cancelled /\ sess' = sess)
         /\ sess' \in [ScaleSets -> {"new", "open", "failed"}] /\ \A r \in ScaleSets \ {s} : sess'[r] = sess[r]
BY DEF OnceReturns, Reports, TypeOK

\* Setting the session of one scale set leaves the others.
LEMMA SessionUpdate ==
  ASSUME TypeOK, NEW s \in ScaleSets, NEW x \in {"none", "ours", "stale"}, session' = [session EXCEPT ![s] = x]
  PROVE  /\ session' \in [ScaleSets -> {"none", "ours", "stale"}] /\ session'[s] = x
         /\ \A r \in ScaleSets \ {s} : session'[r] = session[r]
BY DEF TypeOK

\* Opening a session preserves the invariant.
LEMMA OpenInv ==
  ASSUME ListenerInv, NEW s \in ScaleSets, Open(s)
  PROVE  ListenerInv'
<1>1. at[s] = "open" /\ sess[s] # "open" /\ TypeOK
  BY DEF Open, ListenerInv, SessionInv
<1>2. UNCHANGED <<remote, assigned, mail, reach, want, loopVars, known, desired, wake, reportVars, sent, outages>>
  BY DEF Open
<1>3. faults' \in 0..MaxFaults /\ faults' >= faults
  BY <1>1, CallType DEF Open, TypeOK
<1>4. CASE Works /\ session[s] = "none" /\ session' = [session EXCEPT ![s] = "ours"]
           /\ at' = [at EXCEPT ![s] = "first"] /\ Reports(s, "open")
  <2>1. sess' \in [ScaleSets -> {"new", "open", "failed"}] /\ \A r \in ScaleSets \ {s} : sess'[r] = sess[r]
    BY <1>1, <1>4 DEF Reports, TypeOK
  <2>2. Attended(s) => Attended(s)'
    BY <1>1, <1>2 DEF Attended, Current, loopVars, reportVars
  <2> QED BY <1>1, <1>2, <1>3, <1>4, <2>1, <2>2, SessionUpdate, ListenerStep DEF TypeOK
<1>5. CASE OnceReturns(s) /\ (UNCHANGED session \/ session' = [session EXCEPT ![s] = "stale"])
  <2>1. PICK a \in {"none", "wait"} : at' = [at EXCEPT ![s] = a] /\ (a = "wait" => sess'[s] # "open")
                                       /\ (a = "none" => cancelled /\ sess' = sess)
    BY <1>1, <1>5, OnceReturnsType
  <2>2. sess' \in [ScaleSets -> {"new", "open", "failed"}] /\ \A r \in ScaleSets \ {s} : sess'[r] = sess[r]
    BY <1>1, <1>5, OnceReturnsType
  <2>3. session' \in [ScaleSets -> {"none", "ours", "stale"}] /\ \A r \in ScaleSets \ {s} : session'[r] = session[r]
    BY <1>1, <1>5, SessionUpdate DEF TypeOK
  <2>4. Attended(s) => Attended(s)'
    BY <1>1, <1>2 DEF Attended, Current, loopVars, reportVars
  <2> QED BY <1>1, <1>2, <1>3, <2>1, <2>2, <2>3, <2>4, ListenerStep DEF TypeOK
<1> QED BY <1>4, <1>5 DEF Open

\* Recording a demand preserves the invariant: a target that changes makes the listener wake the loop.
LEMMA RecordInv ==
  ASSUME ListenerInv, NEW s \in ScaleSets, at[s] \in {"first", "listen"}, NEW n \in 0..MaxAssigned, Record(s, n),
         mail' \in [ScaleSets -> Seq(0..MaxAssigned)], faults' \in 0..MaxFaults, faults' >= faults,
         UNCHANGED <<remote, session, assigned, reach, want, loopVars, sess, wake, reportVars, sent, outages>>
  PROVE  ListenerInv'
<1>1. TypeOK /\ TargetOf(n) \in Targets
  BY TargetType DEF ListenerInv
<1>2. desired' \in [ScaleSets -> Targets] /\ desired'[s] = TargetOf(n) /\ \A r \in ScaleSets \ {s} : desired'[r] = desired[r]
  BY <1>1 DEF Record, TypeOK
<1>3. known' = known \cup {s}
  BY DEF Record
<1>4. PICK a \in {"wake", "listen"} : at' = [at EXCEPT ![s] = a] /\ (a = "listen" => s \in known /\ desired[s] = TargetOf(n))
  BY DEF Record
<1>5. Attended(s) => Attended(s)'
  <2>1. at'[s] = a
    BY <1>1, <1>4 DEF TypeOK
  <2> QED BY <1>2, <1>3, <1>4, <2>1 DEF Attended, Current, loopVars, reportVars
<1> QED BY <1>1, <1>2, <1>3, <1>4, <1>5, ListenerStep DEF TypeOK

\* The statistics that came with the session, and every message after them, preserve the invariant.
LEMMA DemandInv ==
  ASSUME ListenerInv, NEW s \in ScaleSets, First(s) \/ Message(s)
  PROVE  ListenerInv'
<1>1. TypeOK /\ assigned[s] \in 0..MaxAssigned /\ mail[s] \in Seq(0..MaxAssigned)
  BY DEF ListenerInv, TypeOK
<1>2. CASE First(s)
  <2>1. faults' \in 0..MaxFaults /\ faults' >= faults
    BY <1>1, <1>2 DEF First, bounds, TypeOK
  <2> QED BY <1>1, <1>2, <2>1, RecordInv DEF First, githubVars, bounds, TypeOK
<1>3. CASE Message(s)
  <2>1. Head(mail[s]) \in 0..MaxAssigned /\ mail' \in [ScaleSets -> Seq(0..MaxAssigned)]
    BY <1>1, <1>3, TailType DEF Message, TypeOK
  <2>2. faults' \in 0..MaxFaults /\ faults' >= faults
    BY <1>1, <1>3, CallType DEF Message, TypeOK
  <2> QED BY <1>3, <2>1, <2>2, RecordInv DEF Message
<1> QED BY <1>2, <1>3

\* The end of a session, its closing, the backoff and waking the loop preserve the invariant.
LEMMA SessionStepInv ==
  ASSUME ListenerInv, NEW s \in ScaleSets, SessionFails(s) \/ Trigger(s) \/ Close(s) \/ Backoff(s)
  PROVE  ListenerInv'
<1>1. TypeOK
  BY DEF ListenerInv
<1>2. CASE SessionFails(s)
  <2>1. mail' \in [ScaleSets -> Seq(0..MaxAssigned)]
    <3>1. mail \in [ScaleSets -> Seq(0..MaxAssigned)] /\ mail[s] \in Seq(0..MaxAssigned)
      BY <1>1 DEF TypeOK
    <3>2. CASE UNCHANGED mail
      BY <3>1, <3>2
    <3>3. CASE mail[s] # <<>> /\ mail' = [mail EXCEPT ![s] = Tail(@)]
      BY <3>1, <3>3, TailType
    <3> QED BY <1>2, <3>2, <3>3 DEF SessionFails
  <2>2. faults' \in 0..MaxFaults /\ faults' >= faults
    BY <1>1, <1>2, CallType DEF SessionFails, TypeOK
  <2>3. Attended(s) => Attended(s)'
    BY <1>2 DEF SessionFails, Attended, Current, loopVars, stateVars, reportVars
  <2> QED BY <1>1, <1>2, <2>1, <2>2, <2>3, ListenerStep DEF SessionFails, stateVars, TypeOK
<1>3. CASE Trigger(s)
  <2>1. Attended(s)'
    BY <1>3 DEF Trigger, Attended
  <2>2. faults' \in 0..MaxFaults /\ faults' >= faults
    BY <1>1, <1>3 DEF Trigger, bounds, TypeOK
  <2> QED BY <1>1, <1>3, <2>1, <2>2, ListenerStep DEF Trigger, githubVars, bounds, TypeOK
<1>4. CASE Close(s)
  <2>1. PICK a \in {"none", "wait"} : at' = [at EXCEPT ![s] = a] /\ (a = "wait" => sess'[s] # "open")
                                       /\ (a = "none" => cancelled /\ sess' = sess)
    BY <1>1, <1>4, OnceReturnsType DEF Close
  <2>2. sess' \in [ScaleSets -> {"new", "open", "failed"}] /\ \A r \in ScaleSets \ {s} : sess'[r] = sess[r]
    BY <1>1, <1>4, OnceReturnsType DEF Close
  <2>3. PICK x \in {"none", "stale"} : session' = [session EXCEPT ![s] = x]
                                        /\ (x = "stale" => ~reach \/ faults' = faults + 1)
    BY <1>1, <1>4, FaultType DEF Close, CloseTimesOut, CloseWorks, TypeOK
  <2>4. faults' \in 0..MaxFaults /\ faults' >= faults
    BY <1>1, <1>4, FaultType DEF Close, TypeOK
  <2>5. Attended(s) => Attended(s)'
    BY <1>4 DEF Close, Attended, Current, loopVars, reportVars
  <2>6. Clean' /\ a = "none" => session'[s] = "none"
    <3>1. CASE x = "none"
      BY <1>1, <2>3, <3>1, SessionUpdate
    <3>2. CASE x = "stale"
      BY <1>1, <1>4, <2>1, <2>3, <3>2 DEF Close, Clean, ListenerInv, SessionInv, TypeOK, loopVars
    <3> QED BY <3>1, <3>2
  <2> QED BY <1>1, <1>4, <2>1, <2>2, <2>3, <2>4, <2>5, <2>6, SessionUpdate, ListenerStep DEF Close, TypeOK
<1>5. CASE Backoff(s)
  <2>1. PICK a \in {"none", "open"} : at' = [at EXCEPT ![s] = a]
    BY <1>5 DEF Backoff
  <2>2. sess[s] # "open"
    BY <1>5 DEF Backoff, ListenerInv, SessionInv
  <2>3. Attended(s) => Attended(s)'
    BY <1>5 DEF Backoff, Attended, Current, loopVars, stateVars, reportVars
  <2>4. faults' \in 0..MaxFaults /\ faults' >= faults
    BY <1>1, <1>5 DEF Backoff, bounds, TypeOK
  <2> QED BY <1>1, <1>5, <2>1, <2>2, <2>3, <2>4, ListenerStep DEF Backoff, githubVars, stateVars, bounds, TypeOK
<1> QED BY <1>2, <1>3, <1>4, <1>5

-----------------------------------------------------------------------------
(* The loop *)

\* The steps of a pass and of the select preserve the invariant: a pass gets to every scale set, and a token is taken
\* only for a whole pass.
LEMMA LoopInv ==
  ASSUME ListenerInv, (\E s \in ScaleSets : Scale(s)) \/ EndPass \/ PassFails \/ Woken \/ Tick \/ Leave
  PROVE  ListenerInv'
<1>1. TypeOK
  BY DEF ListenerInv
<1>2. ASSUME NEW s \in ScaleSets, Scale(s) PROVE ListenerInv'
  <2>1. acted' \in [ScaleSets -> Targets \cup {-1}] /\ acted'[s] = Current(s) /\ \A r \in ScaleSets \ {s} : acted'[r] = acted[r]
    BY <1>1, <1>2 DEF Scale, Current, TypeOK
  <2>2. TypeOK'
    BY <1>1, <1>2, <2>1 DEF Scale, githubVars, stateVars, bounds, TypeOK
  <2>3. WakeInv'
    BY <1>2, <2>1 DEF Scale, ListenerInv, WakeInv, Attended, Current, stateVars
  <2>4. RegisterInv'
    BY <1>2 DEF Scale, ListenerInv, RegisterInv, githubVars, stateVars
  <2>5. SessionInv'
    BY <1>2 DEF Scale, ListenerInv, SessionInv, Clean, githubVars, stateVars, bounds
  <2> QED BY <2>2, <2>3, <2>4, <2>5 DEF ListenerInv
<1>3. CASE EndPass
  <2>1. TypeOK'
    BY <1>1, <1>3 DEF EndPass, WriteStatus, githubVars, stateVars, bounds, TypeOK
  <2>2. WakeInv'
    BY <1>3 DEF EndPass, ListenerInv, WakeInv, Attended, Current, stateVars
  <2>3. RegisterInv'
    BY <1>3 DEF EndPass, ListenerInv, RegisterInv, githubVars, stateVars
  <2>4. SessionInv'
    BY <1>3 DEF EndPass, ListenerInv, SessionInv, Clean, githubVars, stateVars, bounds
  <2> QED BY <2>1, <2>2, <2>3, <2>4 DEF ListenerInv
<1>4. CASE PassFails
  <2>1. faults' \in 0..MaxFaults /\ faults' >= faults
    BY <1>1, <1>4, FaultType DEF PassFails, TypeOK
  <2>2. TypeOK'
    BY <1>1, <1>4, <2>1 DEF PassFails, WriteStatus, githubVars, stateVars, TypeOK
  <2>3. WakeInv'
    BY <1>4 DEF PassFails, WriteStatus, WakeInv
  <2>4. RegisterInv'
    BY <1>4 DEF PassFails, ListenerInv, RegisterInv, githubVars, stateVars
  <2>5. SessionInv'
    BY <1>1, <1>4, <2>1 DEF PassFails, ListenerInv, SessionInv, Clean, TypeOK, githubVars, stateVars
  <2> QED BY <2>2, <2>3, <2>4, <2>5 DEF ListenerInv
<1>5. CASE Woken \/ Tick
  <2>1. pc = "sleep" /\ pc' = "pass" /\ todo' = ScaleSets /\ wake' \in BOOLEAN
        /\ UNCHANGED <<githubVars, want, cancelled, call, at, known, desired, sess, reportVars, bounds>>
    BY <1>1, <1>5 DEF Woken, Tick, stateVars, TypeOK
  <2>2. TypeOK'
    BY <1>1, <2>1 DEF githubVars, reportVars, bounds, TypeOK
  <2>3. WakeInv'
    BY <2>1 DEF WakeInv, Attended
  <2>4. RegisterInv'
    BY <2>1 DEF ListenerInv, RegisterInv, githubVars
  <2>5. SessionInv'
    BY <2>1 DEF ListenerInv, SessionInv, Clean, githubVars, bounds
  <2> QED BY <2>2, <2>3, <2>4, <2>5 DEF ListenerInv
<1>6. CASE Leave
  <2>1. TypeOK'
    BY <1>1, <1>6 DEF Leave, githubVars, stateVars, reportVars, bounds, TypeOK
  <2>2. WakeInv'
    BY <1>6 DEF Leave, WakeInv
  <2>3. RegisterInv'
    BY <1>6 DEF Leave, ListenerInv, RegisterInv, githubVars, stateVars
  <2>4. SessionInv'
    BY <1>6 DEF Leave, ListenerInv, SessionInv, Clean, githubVars, stateVars, bounds
  <2> QED BY <2>1, <2>2, <2>3, <2>4 DEF ListenerInv
<1> QED BY <1>2, <1>3, <1>4, <1>5, <1>6

-----------------------------------------------------------------------------
(* The process and GitHub *)

\* A process that is gone leaves nothing but what GitHub has.
LEMMA GoneInv ==
  ASSUME ListenerInv, Gone, session' \in [ScaleSets -> {"none", "ours", "stale"}],
         faults' \in 0..MaxFaults, faults' >= faults,
         UNCHANGED <<remote, assigned, mail, reach, want, sent, outages>>
  PROVE  ListenerInv'
<1>1. TypeOK'
  <2>1. desired' \in [ScaleSets -> Targets] /\ acted' \in [ScaleSets -> Targets \cup {-1}]
    BY Bounds DEF Gone, Targets
  <2> QED BY <2>1 DEF Gone, ListenerInv, TypeOK
<1>2. WakeInv'
  BY DEF Gone, WakeInv
<1>3. RegisterInv'
  BY DEF Gone, ListenerInv, RegisterInv
<1>4. SessionInv'
  BY DEF Gone, ListenerInv, SessionInv
<1> QED BY <1>1, <1>2, <1>3, <1>4 DEF ListenerInv

\* The end of the process, a stop, a crash and a new start preserve the invariant.
LEMMA ProcessInv ==
  ASSUME ListenerInv, Exit \/ Stop \/ Crash \/ Start
  PROVE  ListenerInv'
<1>1. TypeOK
  BY DEF ListenerInv
<1>2. CASE Exit
  <2>1. faults' \in 0..MaxFaults /\ faults' >= faults
    BY <1>1, <1>2 DEF Exit, bounds, TypeOK
  <2> QED BY <1>1, <1>2, <2>1, GoneInv DEF Exit, githubVars, bounds, TypeOK
<1>3. CASE Stop
  <2>1. faults' \in 0..MaxFaults /\ faults' = faults + 1
    BY <1>1, <1>3, FaultType DEF Stop, TypeOK
  <2>2. TypeOK'
    BY <1>1, <1>3, <2>1 DEF Stop, githubVars, stateVars, reportVars, TypeOK
  <2>3. WakeInv'
    BY <1>3 DEF Stop, ListenerInv, WakeInv, Attended, Current, stateVars, reportVars
  <2>4. RegisterInv'
    BY <1>3 DEF Stop, ListenerInv, RegisterInv, githubVars, stateVars
  <2>5. SessionInv'
    BY <1>1, <1>3, <2>1 DEF Stop, ListenerInv, SessionInv, Clean, TypeOK, githubVars, stateVars
  <2> QED BY <2>2, <2>3, <2>4, <2>5 DEF ListenerInv
<1>4. CASE Crash
  <2>1. faults' \in 0..MaxFaults /\ faults' >= faults
    BY <1>1, <1>4, FaultType DEF Crash, TypeOK
  <2>2. session' \in [ScaleSets -> {"none", "ours", "stale"}]
    BY <1>1, <1>4 DEF Crash, TypeOK
  <2> QED BY <1>4, <2>1, <2>2, GoneInv DEF Crash
<1>5. CASE Start
  <2>1. PICK s \in ScaleSets : call' = [set |-> s, step |-> "find"]
    BY <1>5 DEF Start
  <2>2. TypeOK'
    BY <1>1, <1>5, <2>1 DEF Start, githubVars, stateVars, reportVars, bounds, TypeOK
  <2>3. WakeInv'
    BY <1>5 DEF Start, WakeInv
  <2>4. RegisterInv'
    BY <1>5, <2>1 DEF Start, ListenerInv, RegisterInv, None, githubVars, stateVars
  <2>5. SessionInv'
    BY <1>5 DEF Start, ListenerInv, SessionInv, Clean, githubVars, stateVars, bounds
  <2> QED BY <2>2, <2>3, <2>4, <2>5 DEF ListenerInv
<1> QED BY <1>2, <1>3, <1>4, <1>5

\* What GitHub does preserves the invariant.
LEMMA GitHubInv ==
  ASSUME ListenerInv, GitHub
  PROVE  ListenerInv'
<1>1. TypeOK
  BY DEF ListenerInv
<1>2. ASSUME NEW s \in ScaleSets, Expire(s) PROVE ListenerInv'
  <2>1. session' \in [ScaleSets -> {"none", "ours", "stale"}] /\ session'[s] = "none"
        /\ \A r \in ScaleSets \ {s} : session'[r] = session[r]
    BY <1>1, <1>2, SessionUpdate DEF Expire
  <2>2. TypeOK'
    BY <1>1, <1>2, <2>1 DEF Expire, loopVars, stateVars, reportVars, bounds, TypeOK
  <2>3. WakeInv' /\ RegisterInv'
    BY <1>2 DEF Expire, ListenerInv, WakeInv, Attended, Current, RegisterInv, loopVars, stateVars, reportVars
  <2>4. SessionInv'
    BY <1>2, <2>1 DEF Expire, ListenerInv, SessionInv, Clean, loopVars, stateVars, bounds
  <2> QED BY <2>2, <2>3, <2>4 DEF ListenerInv
<1>3. ASSUME NEW s \in ScaleSets, NEW n \in 0..MaxAssigned, Demand(s, n) PROVE ListenerInv'
  <2>1. assigned' \in [ScaleSets -> 0..MaxAssigned] /\ sent' \in 0..MaxMessages
    BY <1>1, <1>3, Bounds DEF Demand, TypeOK
  <2>2. mail' \in [ScaleSets -> Seq(0..MaxAssigned)]
    BY <1>1, <1>3 DEF Demand, TypeOK
  <2>3. TypeOK'
    BY <1>1, <1>3, <2>1, <2>2 DEF Demand, loopVars, stateVars, reportVars, TypeOK
  <2>4. WakeInv' /\ RegisterInv'
    BY <1>3 DEF Demand, ListenerInv, WakeInv, Attended, Current, RegisterInv, loopVars, stateVars, reportVars
  <2>5. SessionInv'
    BY <1>3 DEF Demand, ListenerInv, SessionInv, Clean, loopVars, stateVars
  <2> QED BY <2>3, <2>4, <2>5 DEF ListenerInv
<1>4. CASE Outage \/ Back
  <2>1. TypeOK'
    <3>1. outages' \in 0..MaxOutages
      BY <1>1, <1>4, Bounds DEF Outage, Back, bounds, TypeOK
    <3>2. reach' \in BOOLEAN
      BY <1>4 DEF Outage, Back
    <3> QED BY <1>1, <1>4, <3>1, <3>2 DEF Outage, Back, loopVars, stateVars, reportVars, bounds, TypeOK
  <2>2. WakeInv' /\ RegisterInv'
    BY <1>4 DEF Outage, Back, ListenerInv, WakeInv, Attended, Current, RegisterInv, loopVars, stateVars, reportVars
  <2>3. SessionInv'
    BY <1>1, <1>4 DEF Outage, Back, ListenerInv, SessionInv, Clean, TypeOK, loopVars, stateVars, bounds
  <2> QED BY <2>1, <2>2, <2>3 DEF ListenerInv
<1> QED BY <1>2, <1>3, <1>4 DEF GitHub

-----------------------------------------------------------------------------
(* The theorems *)

\* A step without any change keeps the invariant.
LEMMA StutterInv ==
  ASSUME ListenerInv, UNCHANGED vars
  PROVE  ListenerInv'
BY DEF ListenerInv, TypeOK, WakeInv, Attended, Current, RegisterInv, SessionInv, Clean, vars, githubVars, loopVars,
       stateVars, reportVars, bounds

\* Every step preserves the invariant.
LEMMA NextInv == ListenerInv /\ [Next]_vars => ListenerInv'
<1> SUFFICES ASSUME ListenerInv, [Next]_vars PROVE ListenerInv'
  OBVIOUS
<1>1. CASE EnsureScaleSet
  BY <1>1, EnsureInv
<1>2. ASSUME NEW s \in ScaleSets, Listen(s) PROVE ListenerInv'
  BY <1>2, OpenInv, DemandInv, SessionStepInv DEF Listen
<1>3. CASE Loop
  BY <1>3, LoopInv, ProcessInv DEF Loop
<1>4. CASE Stop \/ Crash \/ Start
  BY <1>4, ProcessInv
<1>5. CASE GitHub
  BY <1>5, GitHubInv
<1>6. CASE UNCHANGED vars
  BY <1>6, StutterInv
<1> QED BY <1>1, <1>2, <1>3, <1>4, <1>5, <1>6 DEF Next

\* The inductive invariant, of which the others are consequences.
THEOREM ListenerInvHolds == Spec => []ListenerInv
BY InitInv, NextInv, PTL DEF Spec

\* Type correctness: in particular no target exceeds maxRunners, whatever GitHub assigns.
THEOREM ListenerTypes == Spec => []TypeOK
<1>1. ListenerInv => TypeOK
  BY DEF ListenerInv
<1> QED BY <1>1, ListenerInvHolds, PTL

\* The loop never sleeps on a change of demand: for any number of scale sets, messages and failures, and however
\* DesiredRunners, trigger and the passes interleave.
THEOREM WakeupsKept == Spec => []NoLostWakeup
<1>1. ListenerInv => NoLostWakeup
  BY DEF ListenerInv, WakeInv, Attended, Current, NoLostWakeup
<1> QED BY <1>1, ListenerInvHolds, PTL

\* EnsureScaleSet registers no scale set twice, for any number of lost answers, restarts and changes of labels.
THEOREM NoSecondScaleSet == Spec => []RegisteredOnce
<1>1. ListenerInv => RegisteredOnce
  BY DEF ListenerInv, RegisterInv, RegisteredOnce
<1> QED BY <1>1, ListenerInvHolds, PTL

\* A stop of a controller that met no failure leaves no session behind, for any number of scale sets.
THEOREM SessionsClosed == Spec => []StopClosesSessions
<1>1. ListenerInv => StopClosesSessions
  BY DEF ListenerInv, SessionInv, Clean, StopClosesSessions
<1> QED BY <1>1, ListenerInvHolds, PTL
=============================================================================
