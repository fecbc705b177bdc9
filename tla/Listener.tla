------------------------------ MODULE Listener ------------------------------
(***************************************************************************)
(* How GitHub's demand reaches the reconcile loop: registering the scale   *)
(* sets, one message session per scale set with its retries, the state     *)
(* they report into, the loop that they wake, the status it writes for     *)
(* `parcon status`, and the way out of all that.                           *)
(*                                                                         *)
(* What a pass does with the demand is Controller's; here it only counts   *)
(* which demand the last pass acted on.                                    *)
(***************************************************************************)
EXTENDS Integers, Sequences

CONSTANTS
    ScaleSets,
    MinRunners, MaxRunners,  \* of every scale set
    Labels,                  \* the labels a configuration may give the scale sets
    MaxAssigned,             \* bound: jobs assigned at once
    MaxMessages,             \* bound: messages GitHub sends
    MaxFaults,               \* bound: calls that fail although GitHub answers, failed passes, crashes and stops
    MaxOutages               \* bound: times GitHub becomes unreachable

ASSUME ListenerAssumption ==
    /\ MinRunners \in Nat /\ MaxRunners \in Nat \ {0}
    /\ MaxAssigned \in Nat /\ MaxMessages \in Nat /\ MaxFaults \in Nat /\ MaxOutages \in Nat
    /\ 0 \notin Labels

VARIABLES
    remote,    \* GitHub's scale sets of each name: the labels of each
    session,   \* GitHub's message session of each: none, the controller's, or one nobody holds
    assigned,  \* jobs assigned to each
    mail,      \* messages for each that weren't fetched yet: the jobs assigned when they were sent
    reach,     \* GitHub can be reached
    want,      \* the labels in the controller's configuration
    pc,        \* Run: down, registering, passing, sleeping in its select, or waiting for its listeners
    cancelled, \* ctx ended
    todo,      \* scale sets still to register, or to scale in this pass
    call,      \* the call EnsureScaleSet is about to make for one of them, if any
    at,        \* Listen, for each scale set
    known, desired, sess,  \* scaleSetState: known, desired, and the session fields
    wake,      \* the wake channel holds a token
    acted,     \* the demand that the last pass acted on, -1 if it knew none
    passOK,    \* the last pass didn't fail
    counted,   \* a pass has counted the workers, so the status lists the scale sets
    status,    \* the status file's word on each session, "none" without one
    sent, faults, outages  \* the bounds' counters

githubVars == <<remote, session, assigned, mail, reach>>
loopVars   == <<pc, cancelled, todo, call>>
stateVars  == <<known, desired, sess, wake>>
reportVars == <<acted, passOK, counted, status>>
bounds     == <<sent, faults, outages>>
vars       == <<githubVars, want, loopVars, at, stateVars, reportVars, bounds>>

None == [set |-> "", step |-> ""]
Targets == 0..MaxRunners

\* Type correctness of the whole state.
TypeOK ==
    /\ remote \in [ScaleSets -> Seq(Labels)]
    /\ session \in [ScaleSets -> {"none", "ours", "stale"}]
    /\ assigned \in [ScaleSets -> 0..MaxAssigned] /\ mail \in [ScaleSets -> Seq(0..MaxAssigned)]
    /\ reach \in BOOLEAN /\ want \in Labels
    /\ pc \in {"down", "register", "pass", "sleep", "exit"} /\ cancelled \in BOOLEAN
    /\ todo \subseteq ScaleSets
    /\ call \in {None} \cup [set : ScaleSets, step : {"find", "create", "update"}]
    /\ at \in [ScaleSets -> {"none", "open", "first", "listen", "wake", "close", "wait"}]
    /\ known \subseteq ScaleSets /\ desired \in [ScaleSets -> Targets]
    /\ sess \in [ScaleSets -> {"new", "open", "failed"}] /\ wake \in BOOLEAN
    /\ acted \in [ScaleSets -> Targets \cup {-1}] /\ passOK \in BOOLEAN /\ counted \in BOOLEAN
    /\ status \in [ScaleSets -> {"none", "new", "open", "failed"}]
    /\ sent \in 0..MaxMessages /\ faults \in 0..MaxFaults /\ outages \in 0..MaxOutages

Fault == faults < MaxFaults /\ faults' = faults + 1

\* A call with ctx works, or fails: by itself, because GitHub can't be reached, or because ctx ended. GitHub may have
\* done what a failed call asked for, when only its answer was lost.
Works == reach /\ ~cancelled /\ UNCHANGED faults
Fails == IF reach /\ ~cancelled THEN Fault ELSE UNCHANGED faults
Lost  == reach /\ Fails

-----------------------------------------------------------------------------
(* registerScaleSets and EnsureScaleSet *)

\* The next scale set's call, or the loop and its listeners once all are registered.
NextCall(left) ==
    IF left = {}
    THEN /\ pc' = "pass" /\ todo' = ScaleSets /\ call' = None
         /\ at' = [s \in ScaleSets |-> "open"]
    ELSE /\ \E s \in left : call' = [set |-> s, step |-> "find"]
         /\ todo' = left /\ UNCHANGED <<pc, at>>

\* The scale set is as configured. (Which of several with the same name GitHub finds is left to it.)
Registered == NextCall(todo \ {call.set})

\* The call failed: the backoff ends with ctx, or EnsureScaleSet starts over.
RetryStep_SameCall == call.step
RetryStep == "find"

Retry == IF cancelled
         THEN pc' = "exit" /\ todo' = {} /\ call' = None /\ UNCHANGED at
         ELSE call' = [call EXCEPT !.step = RetryStep] /\ UNCHANGED <<pc, todo, at>>

SetRemote(labels) == remote' = [remote EXCEPT ![call.set] = labels]

\* GetRunnerScaleSet. sameLabels, and whether runners update themselves, is one question here: is it as wanted?
Find ==
    /\ call.step = "find"
    /\ \/ Works /\ remote[call.set] = <<want>> /\ Registered
       \/ /\ Works /\ remote[call.set] # <<want>>
          /\ call' = [call EXCEPT !.step = IF remote[call.set] = <<>> THEN "create" ELSE "update"]
          /\ UNCHANGED <<pc, todo, at>>
       \/ Fails /\ Retry
    /\ UNCHANGED remote

Create ==
    /\ call.step = "create"
    /\ \/ Works /\ SetRemote(Append(remote[call.set], want)) /\ Registered
       \/ Lost /\ SetRemote(Append(remote[call.set], want)) /\ Retry
       \/ Fails /\ Retry /\ UNCHANGED remote

Update ==
    /\ call.step = "update"
    /\ \/ Works /\ SetRemote(<<want>>) /\ Registered
       \/ Lost /\ SetRemote(<<want>>) /\ Retry
       \/ Fails /\ Retry /\ UNCHANGED remote

EnsureScaleSet ==
    /\ pc = "register"
    /\ Find \/ Create \/ Update
    /\ UNCHANGED <<session, assigned, mail, reach, want, cancelled, stateVars, reportVars, sent, outages>>

-----------------------------------------------------------------------------
(* scaleSetState and trigger *)

TargetOf(n) == IF MinRunners + n < MaxRunners THEN MinRunners + n ELSE MaxRunners

\* DesiredRunners, up to its unlock: it wakes the loop afterwards, and only if the target changed.
\* (JobCompleted wakes the loop, too; JobStarted and JobCompleted record what only Controller reads.)
Record_WakesOnce(s, n) ==
    /\ known' = known \cup {s} /\ desired' = [desired EXCEPT ![s] = TargetOf(n)]
    /\ at' = [at EXCEPT ![s] = IF s \notin known THEN "wake" ELSE "listen"]
Record(s, n) ==
    /\ known' = known \cup {s} /\ desired' = [desired EXCEPT ![s] = TargetOf(n)]
    /\ at' = [at EXCEPT ![s] = IF s \notin known \/ desired[s] # TargetOf(n) THEN "wake" ELSE "listen"]

\* trigger: a token that is already there stays.
Trigger(s) ==
    /\ at[s] = "wake"
    /\ wake' = TRUE /\ at' = [at EXCEPT ![s] = "listen"]
    /\ UNCHANGED <<githubVars, want, loopVars, known, desired, sess, reportVars, bounds>>

-----------------------------------------------------------------------------
(* Listen and listenOnce *)

\* SessionOpened, and SessionEnded at the end of a session that wasn't ended by ctx.
Reports(s, what) == sess' = [sess EXCEPT ![s] = what]

\* What Listen does when listenOnce returns: it is over with ctx, or waits and tries again.
OnceReturns_GivesUp(s) == at' = [at EXCEPT ![s] = "none"] /\ UNCHANGED sess
OnceReturns_Quiet(s) ==
    IF cancelled THEN at' = [at EXCEPT ![s] = "none"] /\ UNCHANGED sess
    ELSE at' = [at EXCEPT ![s] = "wait"] /\ UNCHANGED sess
OnceReturns(s) ==
    IF cancelled THEN at' = [at EXCEPT ![s] = "none"] /\ UNCHANGED sess
    ELSE at' = [at EXCEPT ![s] = "wait"] /\ Reports(s, "failed")

\* MessageSessionClient, which GitHub refuses while another session of the scale set exists.
Open(s) ==
    /\ at[s] = "open"
    /\ \/ /\ Works /\ session[s] = "none"
          /\ session' = [session EXCEPT ![s] = "ours"]
          /\ at' = [at EXCEPT ![s] = "first"] /\ Reports(s, "open")
       \/ Works /\ session[s] # "none" /\ OnceReturns(s) /\ UNCHANGED session
       \/ Fails /\ OnceReturns(s) /\ UNCHANGED session
       \/ /\ Lost /\ session[s] = "none"
          /\ session' = [session EXCEPT ![s] = "stale"] /\ OnceReturns(s)
    /\ UNCHANGED <<remote, assigned, mail, reach, want, loopVars, known, desired, wake, reportVars, sent, outages>>

\* The listener starts with the statistics that came with the session.
First(s) ==
    /\ at[s] = "first"
    /\ Record(s, assigned[s])
    /\ UNCHANGED <<githubVars, want, loopVars, sess, wake, reportVars, bounds>>

\* A message: it is deleted, then handled. (A poll without one repeats the last statistics, which changes nothing.)
Message(s) ==
    /\ at[s] = "listen" /\ mail[s] # <<>>
    /\ Works
    /\ Record(s, Head(mail[s])) /\ mail' = [mail EXCEPT ![s] = Tail(@)]
    /\ UNCHANGED <<remote, session, assigned, reach, want, loopVars, sess, wake, reportVars, sent, outages>>

\* A poll fails, perhaps when the message is already deleted, or ctx ends. Then the session is closed.
SessionFails(s) ==
    /\ at[s] \in {"first", "listen"}
    /\ \/ Fails /\ UNCHANGED mail
       \/ Lost /\ mail[s] # <<>> /\ mail' = [mail EXCEPT ![s] = Tail(@)]
    /\ at' = [at EXCEPT ![s] = "close"]
    /\ UNCHANGED <<remote, session, assigned, reach, want, loopVars, stateVars, reportVars, sent, outages>>

\* session.Close, with a context of its own: it outlives ctx, but not closeTimeout.
CloseWorks_WithCtx == reach /\ ~cancelled
CloseWorks == reach

CloseTimesOut_Never == FALSE
CloseTimesOut == ~CloseWorks

Close(s) ==
    /\ at[s] = "close"
    /\ \/ CloseWorks /\ session' = [session EXCEPT ![s] = "none"] /\ UNCHANGED faults
       \/ CloseTimesOut /\ session' = [session EXCEPT ![s] = "stale"] /\ UNCHANGED faults
       \/ Fault /\ session' = [session EXCEPT ![s] = "stale"]
    /\ OnceReturns(s)
    /\ UNCHANGED <<remote, assigned, mail, reach, want, loopVars, known, desired, wake, reportVars, sent, outages>>

\* The backoff passes, or ctx ends it.
Backoff(s) ==
    /\ at[s] = "wait"
    /\ at' = [at EXCEPT ![s] = IF cancelled THEN "none" ELSE "open"]
    /\ UNCHANGED <<githubVars, want, loopVars, stateVars, reportVars, bounds>>

Listen(s) == Open(s) \/ First(s) \/ Message(s) \/ SessionFails(s) \/ Trigger(s) \/ Close(s) \/ Backoff(s)

-----------------------------------------------------------------------------
(* Run's loop *)

\* The pass gets to scale set s and reads its target.
Scale(s) ==
    /\ pc = "pass" /\ s \in todo
    /\ acted' = [acted EXCEPT ![s] = IF s \in known THEN desired[s] ELSE -1]
    /\ todo' = todo \ {s}
    /\ UNCHANGED <<githubVars, want, pc, cancelled, call, at, stateVars, passOK, counted, status, bounds>>

\* writeStatus, after a pass that failed or not. It lists the scale sets once a pass has counted their workers.
WriteStatus(ok) ==
    /\ passOK' = ok /\ counted' = (counted \/ ok)
    /\ status' = [s \in ScaleSets |-> IF counted \/ ok THEN sess[s] ELSE "none"]

EndPass ==
    /\ pc = "pass" /\ todo = {}
    /\ pc' = "sleep" /\ WriteStatus(TRUE)
    /\ UNCHANGED <<githubVars, want, cancelled, todo, call, at, stateVars, acted, bounds>>

\* ListVMs fails, by itself or because ctx ended.
PassFails ==
    /\ pc = "pass" /\ todo = ScaleSets
    /\ (cancelled /\ UNCHANGED faults) \/ Fault
    /\ pc' = "sleep" /\ todo' = {} /\ WriteStatus(FALSE)
    /\ UNCHANGED <<githubVars, want, cancelled, call, at, stateVars, acted, sent, outages>>

\* The select: the wake channel or the ticker starts a pass, the end of ctx the way out.
Woken ==
    /\ pc = "sleep" /\ wake
    /\ pc' = "pass" /\ todo' = ScaleSets /\ wake' = FALSE
    /\ UNCHANGED <<githubVars, want, cancelled, call, at, known, desired, sess, reportVars, bounds>>

Tick ==
    /\ pc = "sleep"
    /\ pc' = "pass" /\ todo' = ScaleSets
    /\ UNCHANGED <<githubVars, want, cancelled, call, at, stateVars, reportVars, bounds>>

Leave ==
    /\ pc = "sleep" /\ cancelled
    /\ pc' = "exit"
    /\ UNCHANGED <<githubVars, want, cancelled, todo, call, at, stateVars, reportVars, bounds>>

\* The process is gone, and with it the status: the unit's RuntimeDirectory goes with the service.
Gone ==
    /\ pc' = "down" /\ cancelled' = FALSE /\ todo' = {} /\ call' = None
    /\ at' = [s \in ScaleSets |-> "none"]
    /\ known' = {} /\ desired' = [s \in ScaleSets |-> 0] /\ sess' = [s \in ScaleSets |-> "new"] /\ wake' = FALSE
    /\ acted' = [s \in ScaleSets |-> -1] /\ passOK' = FALSE /\ counted' = FALSE
    /\ status' = [s \in ScaleSets |-> "none"]

\* listeners.Wait, then Run returns. (waitForOps is bounded by its own timeout.)
Exit ==
    /\ pc = "exit" /\ \A s \in ScaleSets : at[s] = "none"
    /\ Gone
    /\ UNCHANGED <<githubVars, want, bounds>>

-----------------------------------------------------------------------------
(* systemd and the operator *)

\* SIGTERM ends ctx.
Stop ==
    /\ pc # "down" /\ ~cancelled /\ Fault
    /\ cancelled' = TRUE
    /\ UNCHANGED <<githubVars, want, pc, todo, call, at, stateVars, reportVars, sent, outages>>

\* The process dies, and nobody holds its sessions any more.
Crash ==
    /\ pc # "down" /\ Fault /\ Gone
    /\ session' = [s \in ScaleSets |-> IF session[s] = "ours" THEN "stale" ELSE session[s]]
    /\ UNCHANGED <<remote, assigned, mail, reach, want, sent, outages>>

\* A new process, perhaps with other labels.
Start ==
    /\ pc = "down"
    /\ want' \in Labels
    /\ pc' = "register" /\ todo' = ScaleSets /\ \E s \in ScaleSets : call' = [set |-> s, step |-> "find"]
    /\ UNCHANGED <<githubVars, cancelled, at, stateVars, reportVars, bounds>>

-----------------------------------------------------------------------------
(* GitHub *)

\* Jobs are assigned or done, and a message says so.
Demand(s, n) ==
    /\ assigned[s] # n /\ sent < MaxMessages
    /\ assigned' = [assigned EXCEPT ![s] = n] /\ mail' = [mail EXCEPT ![s] = Append(@, n)]
    /\ sent' = sent + 1
    /\ UNCHANGED <<remote, session, reach, want, loopVars, at, stateVars, reportVars, faults, outages>>

\* A session nobody polls expires.
Expire(s) ==
    /\ session[s] = "stale"
    /\ session' = [session EXCEPT ![s] = "none"]
    /\ UNCHANGED <<remote, assigned, mail, reach, want, loopVars, at, stateVars, reportVars, bounds>>

Outage ==
    /\ reach /\ outages < MaxOutages
    /\ reach' = FALSE /\ outages' = outages + 1
    /\ UNCHANGED <<remote, session, assigned, mail, want, loopVars, at, stateVars, reportVars, sent, faults>>

Back ==
    /\ ~reach /\ reach' = TRUE
    /\ UNCHANGED <<remote, session, assigned, mail, want, loopVars, at, stateVars, reportVars, bounds>>

-----------------------------------------------------------------------------
Init ==
    /\ remote = [s \in ScaleSets |-> <<>>] /\ session = [s \in ScaleSets |-> "none"]
    /\ assigned = [s \in ScaleSets |-> 0] /\ mail = [s \in ScaleSets |-> <<>>] /\ reach = TRUE
    /\ want \in Labels /\ pc = "down" /\ cancelled = FALSE /\ todo = {} /\ call = None
    /\ at = [s \in ScaleSets |-> "none"]
    /\ known = {} /\ desired = [s \in ScaleSets |-> 0] /\ sess = [s \in ScaleSets |-> "new"] /\ wake = FALSE
    /\ acted = [s \in ScaleSets |-> -1] /\ passOK = FALSE /\ counted = FALSE
    /\ status = [s \in ScaleSets |-> "none"]
    /\ sent = 0 /\ faults = 0 /\ outages = 0

Loop == (\E s \in ScaleSets : Scale(s)) \/ EndPass \/ PassFails \/ Woken \/ Tick \/ Leave \/ Exit

GitHub == (\E s \in ScaleSets : Expire(s) \/ \E n \in 0..MaxAssigned : Demand(s, n)) \/ Outage \/ Back

Next == EnsureScaleSet \/ (\E s \in ScaleSets : Listen(s)) \/ Loop \/ Stop \/ Crash \/ Start \/ GitHub

\* Every goroutine and timer goes on, select picks at random among what is ready, systemd restarts the service, and
\* GitHub drops sessions that nobody polls. Nothing says that GitHub can be reached again.
Fairness ==
    /\ WF_vars(EnsureScaleSet) /\ WF_vars(Start)
    /\ \A s \in ScaleSets : WF_vars(Listen(s)) /\ WF_vars(Scale(s)) /\ WF_vars(Expire(s))
    /\ WF_vars(EndPass) /\ WF_vars(Tick) /\ SF_vars(Leave) /\ WF_vars(Exit)

Spec == Init /\ [][Next]_vars /\ Fairness

-----------------------------------------------------------------------------
(* Safety *)

\* The loop doesn't sleep on a change of demand: asleep, with no token waiting and none about to be sent, it acted on
\* the target of every scale set, however messages, passes and coalesced wakeups interleave. Only after a failed pass
\* the loop waits for its ticker (DesiredRunners, trigger, Run).
NoLostWakeup ==
    pc = "sleep" /\ ~wake /\ passOK => \A s \in ScaleSets :
        at[s] = "wake" \/ acted[s] = IF s \in known THEN desired[s] ELSE -1

\* Whatever answers of GitHub are lost, and however often the controller restarts and its labels change, no scale set
\* is registered twice, and one that is listened to has the labels of the configuration (EnsureScaleSet finds before it
\* creates, on every retry).
RegisteredOnce ==
    \A s \in ScaleSets : Len(remote[s]) <= 1 /\ (at[s] # "none" => remote[s] = <<want>>)

\* A stop closes the sessions that are open, so that none keeps the next start from listening, unless GitHub can't be
\* reached or the call fails (listenOnce closes with a context that ctx's end doesn't cancel).
StopClosesSessions ==
    pc = "exit" /\ faults <= 1 /\ outages = 0 => \A s \in ScaleSets :
        at[s] = "none" /\ sess[s] = "open" => session[s] = "none"

-----------------------------------------------------------------------------
(* Liveness *)

\* Told to stop, the controller stops, even if GitHub can't be reached any more: no listener holds it up.
StopsInTheEnd == cancelled ~> pc = "down"

\* Once GitHub can be reached and the demand settles, passes act on it, whatever was lost, repeated or stale before: a
\* dead session is replaced, and a new one starts with the current statistics.
DemandReaches ==
    \A s \in ScaleSets, n \in 0..MaxAssigned :
        <>[](reach /\ assigned[s] = n) => <>[](s \in known /\ acted[s] = TargetOf(n))

\* githubFindings' verdict on a scale set.
Verdict(s) == CASE status[s] = "open" -> "ok" [] status[s] = "failed" -> "fail" [] OTHER -> "warn"

\* A lost session doesn't stay "listening for jobs" in `parcon status`, even while GitHub can't be reached.
StatusFollows == \A s \in ScaleSets : session[s] # "ours" ~> (Verdict(s) # "ok" \/ session[s] = "ours")

=============================================================================
