------------------------------ MODULE Settings ------------------------------
(***************************************************************************)
(* The settings file on the host: what `parcon install`'s flags and        *)
(* `parcon config set` put there, what the config keys read, print and     *)
(* accept, and what the controller makes of the config that is rendered    *)
(* from it.                                                                *)
(*                                                                         *)
(* An operation that may refuse its input is the set of its results: one,  *)
(* or none.                                                                *)
(***************************************************************************)
EXTENDS Integers, Sequences, FiniteSets

CONSTANTS
    Flags,     \* the settings that parcon install's other flags may ask for, before --set
    Written,   \* the values that may be given to a key
    Hosts,     \* the nodes' Limits: CPUs and memory in MiB, 0 where it isn't known
    LowerCase, \* of each label
    MaxInt,    \* the largest int, 2^63 - 1 in the code
    MaxSize    \* the largest size in MiB, 2^31 - 1 in the code

\* The settings that install's flags can be about, and the values that can be written: text that is none of them is
\* refused before it is looked at. The flags leave the keys' settings at their defaults.
SettingsRecord ==
    [range : [start : Int, end : Int], min : Int, max : 1..MaxInt, labels : Seq(DOMAIN LowerCase), name : STRING,
     group : STRING, target : {"", "organization", "repository"}, lifetime : Int,
     worker : [cores : 0..MaxInt, memory : 0..MaxSize]]

IsValue(v) ==
    \/ v.kind = "number" /\ v.n \in Int
    \/ v.kind = "size" /\ v.n \in Nat
    \/ v.kind = "lifetime" /\ v.days \in Nat /\ v.minutes \in Int /\ v.seconds \in Nat

ASSUME SettingsAssumption ==
    /\ MaxInt \in Nat /\ MaxSize \in 8192..MaxInt
    /\ Flags \subseteq SettingsRecord
    /\ \A v \in Written : IsValue(v)
    /\ Hosts \subseteq [cpus : Nat, memory : Nat]

VARIABLES
    s,      \* the settings
    limits, \* the node's
    at      \* flags: parcon install applies its flags; saved: in the settings file; refused: the command failed

settingsVars == <<s, limits, at>>

ReservedVMIDs == 4
MinVMID == 100
MaxVMID == 999999999
MinCores == 1
MinMemoryMiB == 1024
MinMaxLifetime == 10       \* lifetimes are in minutes
MaxMaxLifetime == 5 * 1440
DefaultMaxLifetime == 360
DefaultWorker == [cores |-> 2, memory |-> 8192]
DefaultRunnerGroup == "default"

Keys == {"runners.max", "worker.cores", "worker.memory", "worker.maxLifetime"}

Larger(a, b) == IF a < b THEN b ELSE a

\* An int's arithmetic wraps around.
Wrap(n) == ((n + MaxInt + 1) % (2 * (MaxInt + 1))) - (MaxInt + 1)

-----------------------------------------------------------------------------
(* Values as they are written. *)

PerUnit == [GiB |-> 1024, MiB |-> 1]

Number(n)         == [kind |-> "number", n |-> n]
Size(n, unit)     == [kind |-> "size", n |-> n, unit |-> unit]
Lifetime(d, m, x) == [kind |-> "lifetime", days |-> d, minutes |-> m, seconds |-> x]

\* What a value says, whatever parcon makes of it.
Meaning(v) ==
    CASE v.kind = "number"   -> v.n
      [] v.kind = "size"     -> v.n * PerUnit[v.unit]
      [] v.kind = "lifetime" -> v.days * 1440 + v.minutes

Atoi(v) == {n \in {v.n} : n >= -MaxInt - 1 /\ n <= MaxInt}

ParseNumber(v) == IF v.kind = "number" THEN Atoi(v) ELSE {}

ParseSize_Unbounded(v) ==
    IF v.kind = "size" /\ v.unit \in DOMAIN PerUnit
    THEN {Wrap(n * PerUnit[v.unit]) : n \in Atoi(v)}
    ELSE {}

\* Decimal units and bare numbers are refused.
ParseSize(v) ==
    IF v.kind = "size" /\ v.unit \in DOMAIN PerUnit
    THEN {Wrap(n * PerUnit[v.unit]) : n \in {i \in Atoi(v) : i <= MaxSize \div PerUnit[v.unit]}}
    ELSE {}

\* A day count has its own bound. time.ParseDuration refuses what doesn't fit an int64 of nanoseconds; a sum that
\* wraps around isn't whole minutes.
MaxDuration == 153722867

ParseLifetime(v) ==
    IF /\ v.kind = "lifetime" /\ v.days <= 1000 /\ v.minutes >= 0 /\ v.seconds = 0
       /\ v.days * 1440 + v.minutes <= MaxDuration
    THEN {v.days * 1440 + v.minutes}
    ELSE {}

FormatMiB(n) == IF n # 0 /\ n % 1024 = 0 THEN Size(n \div 1024, "GiB") ELSE Size(n, "MiB")

FormatLifetime(n) == IF n > 0 /\ n % 1440 = 0 THEN Lifetime(n \div 1440, 0, 0) ELSE Lifetime(0, n, 0)

-----------------------------------------------------------------------------
(* The settings. *)

IDs(r) == IF r.end < r.start THEN 0 ELSE r.end - r.start + 1

Validate_NoReserve(t) ==
    /\ t.range.start >= MinVMID /\ t.range.end <= MaxVMID
    /\ t.range.start <= t.range.end
    /\ IDs(t.range) >= t.max
    /\ t.target = "repository" => t.group = DefaultRunnerGroup
    /\ t.lifetime # 0 => t.lifetime \in MinMaxLifetime..MaxMaxLifetime
    /\ t.min >= 0 /\ t.max >= 1 /\ t.min <= t.max
    /\ t.worker.cores # 0 => t.worker.cores >= MinCores
    /\ t.worker.memory # 0 => t.worker.memory >= MinMemoryMiB

Validate(t) ==
    /\ t.range.start >= MinVMID /\ t.range.end <= MaxVMID
    /\ t.range.start <= t.range.end
    /\ IDs(t.range) >= t.max + ReservedVMIDs
    /\ t.target = "repository" => t.group = DefaultRunnerGroup
    /\ t.lifetime # 0 => t.lifetime \in MinMaxLifetime..MaxMaxLifetime
    /\ t.min >= 0 /\ t.max >= 1 /\ t.min <= t.max
    /\ t.worker.cores # 0 => t.worker.cores >= MinCores
    /\ t.worker.memory # 0 => t.worker.memory >= MinMemoryMiB

EffectiveMaxLifetime(t) == IF t.lifetime = 0 THEN DefaultMaxLifetime ELSE t.lifetime

EffectiveWorker_AsSet(t) == t.worker

EffectiveWorker(t) == [f \in DOMAIN t.worker |-> IF t.worker[f] = 0 THEN DefaultWorker[f] ELSE t.worker[f]]

WorkerIDs_Inclusive(t) == Larger(IDs(t.range) - ReservedVMIDs + 1, 0)

WorkerIDs(t) == Larger(IDs(t.range) - ReservedVMIDs, 0)

\* Get: a key's value, as config set takes it.
Get(t, key) ==
    CASE key = "runners.max"        -> Number(t.max)
      [] key = "worker.cores"       -> Number(EffectiveWorker(t).cores)
      [] key = "worker.memory"      -> FormatMiB(EffectiveWorker(t).memory)
      [] key = "worker.maxLifetime" -> FormatLifetime(EffectiveMaxLifetime(t))

\* Set: parses a value and stores it.
Set(t, key, v, l) ==
    CASE key = "runners.max" ->
            {[t EXCEPT !.max = n] : n \in {i \in ParseNumber(v) : i >= Larger(1, t.min) /\ i <= WorkerIDs(t)}}
      [] key = "worker.cores" ->
            {[t EXCEPT !.worker.cores = n] :
                n \in {i \in ParseNumber(v) : i >= MinCores /\ (l.cpus > 0 => i <= l.cpus)}}
      [] key = "worker.memory" ->
            {[t EXCEPT !.worker.memory = n] :
                n \in {i \in ParseSize(v) : i >= MinMemoryMiB /\ (l.memory > 0 => i <= l.memory)}}
      [] key = "worker.maxLifetime" ->
            {[t EXCEPT !.lifetime = n] :
                n \in {i \in ParseLifetime(v) : i >= MinMaxLifetime /\ i <= MaxMaxLifetime}}
      [] OTHER -> {}

\* Allowed: the smallest and the largest value that config describe offers.
Allowed(t, key, l) ==
    CASE key = "runners.max"        -> [lo |-> Larger(1, t.min), hi |-> WorkerIDs(t)]
      [] key = "worker.cores"       -> [lo |-> MinCores, hi |-> IF l.cpus > 0 THEN l.cpus ELSE MaxInt]
      [] key = "worker.memory"      -> [lo |-> MinMemoryMiB, hi |-> IF l.memory > 0 THEN l.memory ELSE MaxSize]
      [] key = "worker.maxLifetime" -> [lo |-> MinMaxLifetime, hi |-> MaxMaxLifetime]

\* SetKey: the whole settings are checked afterwards, and only then replaced.
SetKey(t, key, v, l) == {u \in Set(t, key, v, l) : Validate(u)}

-----------------------------------------------------------------------------
(* The controller's config. *)

WithDefaults(w, base) == [f \in DOMAIN w |-> IF w[f] = 0 THEN base[f] ELSE w[f]]

\* ControllerConfig renders the config that the controller's defaults are then applied to.
Rendered(t) ==
    LET worker == WithDefaults(t.worker, DefaultWorker)
    IN  [range |-> t.range, target |-> t.target, worker |-> worker,
         set |-> [labels   |-> IF t.labels = <<>> THEN <<t.name>> ELSE t.labels,
                  group    |-> t.group,
                  min      |-> t.min,
                  max      |-> t.max,
                  lifetime |-> IF t.lifetime = 0 THEN DefaultMaxLifetime ELSE t.lifetime,
                  worker   |-> WithDefaults([cores |-> 0, memory |-> 0], worker)]]

\* GitHub doesn't tell labels apart by case.
Repeated(labels) == \E i, j \in DOMAIN labels : i # j /\ LowerCase[labels[i]] = LowerCase[labels[j]]

\* validate: of the scale set, of the workers, and of the range that both need.
ValidConfig(c) ==
    /\ c.range.start >= MinVMID /\ c.range.start <= c.range.end
    /\ IDs(c.range) >= c.set.max + ReservedVMIDs
    /\ ~Repeated(c.set.labels)
    /\ c.target = "repository" => c.set.group = DefaultRunnerGroup
    /\ c.set.min >= 0 /\ c.set.max >= 1 /\ c.set.min <= c.set.max
    /\ c.set.lifetime \in MinMaxLifetime..MaxMaxLifetime
    /\ \A w \in {c.worker, c.set.worker} : w.cores >= MinCores /\ w.memory >= MinMemoryMiB

\* Parse: the rendered config, if the controller accepts it.
ControllerConfig(t) == {c \in {Rendered(t)} : ValidConfig(c)}

-----------------------------------------------------------------------------
SettingsInit ==
    /\ s \in Flags
    /\ limits \in Hosts
    /\ at = "flags"

\* parcon install --set KEY=VALUE, once for each that is given.
SetFlag(key, v) ==
    /\ at = "flags"
    /\ IF SetKey(s, key, v, limits) = {}
       THEN at' = "refused" /\ UNCHANGED s
       ELSE s' \in SetKey(s, key, v, limits) /\ UNCHANGED at
    /\ UNCHANGED limits

\* parcon install checks the flags' settings and saves them.
Save ==
    /\ at = "flags"
    /\ at' = IF Validate(s) THEN "saved" ELSE "refused"
    /\ UNCHANGED <<s, limits>>

\* setupApp: the App's installation says which target the runners serve; settings that don't fit aren't saved.
LearnTarget(target) ==
    /\ at = "saved" /\ s.target \in {"", target}
    /\ s' = [s EXCEPT !.target = target]
    /\ Validate(s')
    /\ UNCHANGED <<limits, at>>

\* parcon config set. A value that Get shows alike is not a change. The settings stay as they are if there is a running
\* controller and its config can't be rendered.
SetConfig(key, v, running) ==
    /\ at = "saved"
    /\ \E t \in SetKey(s, key, v, limits) :
          /\ Get(t, key) # Get(s, key)
          /\ running => ControllerConfig(t) # {}
          /\ s' = t
    /\ UNCHANGED <<limits, at>>

SettingsNext ==
    \/ \E key \in Keys \cup {"unknown"}, v \in Written :
          SetFlag(key, v) \/ \E running \in BOOLEAN : SetConfig(key, v, running)
    \/ Save
    \/ \E target \in {"organization", "repository"} : LearnTarget(target)

-----------------------------------------------------------------------------
\* The two validations agree: the controller accepts what is rendered from settings that parcon saved, with one
\* exception that only config.Parse knows, labels that differ in case alone. The capacity of the VMID range, the
\* lifetime's and the sizes' bounds, and the runner group of a repository are each checked in both places.
SavedIsAccepted ==
    at = "saved" => (ControllerConfig(s) # {} <=> ~Repeated(s.labels))

\* The controller runs with what parcon config get shows, although the defaults are filled in by one function for the
\* host and by another for the controller.
ShownIsRun ==
    at = "saved" =>
        \A c \in ControllerConfig(s) :
            /\ c.set.max = Meaning(Get(s, "runners.max"))
            /\ c.set.worker.cores = Meaning(Get(s, "worker.cores"))
            /\ c.set.worker.memory = Meaning(Get(s, "worker.memory"))
            /\ c.set.lifetime = Meaning(Get(s, "worker.maxLifetime"))

\* A value that is accepted is stored with exactly the size, number or duration that was written, however large it
\* was, and no other key changes.
StoredAsMeant ==
    at # "refused" =>
        \A key \in Keys, v \in Written : \A t \in SetKey(s, key, v, limits) :
            /\ Meaning(Get(t, key)) = Meaning(v)
            /\ \A other \in Keys \ {key} : Get(t, other) = Get(s, other)

\* What config describe offers is what config set accepts: every value in the range, as far as it can be written, and
\* none outside. What config get prints is among them, and setting it changes nothing.
AllowedIsAccepted ==
    at = "saved" =>
        \A key \in Keys :
            LET range == Allowed(s, key, limits)
                InRange(v) == Meaning(v) >= range.lo /\ Meaning(v) <= range.hi
                Wellformed(v) == ParseNumber(v) \cup ParseSize(v) \cup ParseLifetime(v) # {}
                               /\ v.kind = Get(s, key).kind
            IN  /\ \A v \in Written : SetKey(s, key, v, limits) # {} <=> Wellformed(v) /\ InRange(v)
                /\ InRange(Get(s, key)) =>
                      \E t \in SetKey(s, key, Get(s, key), limits) : \A k \in Keys : Get(t, k) = Get(s, k)

=============================================================================
