------------------------------ MODULE MCHost --------------------------------
(* What parcon keeps on the host: its settings, its release, and the host's tuning. They don't depend on each other, so
   a behaviour is about one of them. *)
EXTENDS Settings, Releases, HostTuning

VARIABLE part  \* the one that the behaviour is about

Given(start, end, min, labels, group, target) ==
    [range |-> [start |-> start, end |-> end], min |-> min, max |-> 1, labels |-> labels, name |-> "set",
     group |-> group, target |-> target, lifetime |-> 0, worker |-> [cores |-> 0, memory |-> 0]]

\* Ranges with no, one and three IDs for workers, and two that aren't any.
MCFlags ==
    {Given(r[1], r[2], 0, <<>>, "default", "") :
        r \in {<<99, 110>>, <<106, 100>>, <<100, 103>>, <<100, 104>>, <<100, 106>>}}
    \cup {Given(100, 106, min, <<>>, "default", "") : min \in {-1, 2, 3}}
    \cup {Given(100, 106, 0, labels, "default", "") : labels \in {<<"a", "b">>, <<"a", "A">>}}
    \cup {Given(100, 106, 1, <<>>, group, target) :
            group \in {"default", "other"}, target \in {"", "repository"}}

\* Around every bound, with sizes that wrap around to 8GiB, and what isn't a value at all.
MCWritten ==
    {Number(n) : n \in {-1, 0, 1, 2, 3, 4, 5, MaxInt + 1}}
    \cup {Size(n, "MiB") : n \in {1023, 1024, 9216, 16385, MaxSize, MaxSize + 1}}
    \cup {Size(n, "GiB") : n \in {0, 8, 16, 31, 32, 2056, MaxInt + 1}}
    \cup {Size(8, "GB")}
    \cup {Lifetime(0, m, 0) : m \in {9, 10, 90, 360, MaxDuration}}
    \cup {Lifetime(d, 0, 0) : d \in {1, 5, 1000, 1001}}
    \cup {Lifetime(5, 1, 0), Lifetime(1, 0, 1), Lifetime(1, -90, 0), Lifetime(1000, MaxDuration, 0)}

MCHosts == {[cpus |-> 0, memory |-> 0], [cpus |-> 4, memory |-> 16384]}

MCLowerCase == [l \in {"a", "A", "b", "set"} |-> IF l = "A" THEN "a" ELSE l]

\* 2, 10 and rc: as text, 10 comes before 2.
Two == [num |-> 2, text |-> 2]
Ten == [num |-> 10, text |-> 1]
RC  == [num |-> NaN, text |-> 3]

MCVersions ==
    {[core |-> <<0, 9, 0>>, pre |-> <<>>], [core |-> <<0, 9, 1>>, pre |-> <<>>], [core |-> <<0, 10, 0>>, pre |-> <<>>]}
    \cup {[core |-> <<0, 10, 0>>, pre |-> pre] : pre \in {<<Two>>, <<RC>>, <<RC, Two>>, <<RC, Ten>>, <<RC, RC>>}}

Untuned ==
    /\ node = CHOOSE n \in Nodes : TRUE
    /\ cmd = [kind |-> "remove", pc |-> "none", plan |-> <<>>]
    /\ dropIn = FALSE /\ grubCfg = FALSE /\ cmdline = FALSE /\ esp = FALSE /\ running = FALSE
    /\ rule = FALSE /\ off = FALSE /\ warned = FALSE
    /\ faults = 0

NoSettings == s = (CHOOSE f \in MCFlags : TRUE) /\ limits = (CHOOSE l \in MCHosts : TRUE) /\ at = "refused"

NoReleases == have = (CHOOSE v \in MCVersions : TRUE) /\ self = have /\ releases = <<>>

HostInit ==
    \/ part = "settings" /\ SettingsInit /\ NoReleases /\ Untuned
    \/ part = "releases" /\ ReleasesInit /\ NoSettings /\ Untuned
    \/ part = "tuning" /\ Init /\ NoSettings /\ NoReleases

HostNext ==
    /\ UNCHANGED part
    /\ \/ part = "settings" /\ SettingsNext /\ UNCHANGED <<releaseVars, vars>>
       \/ part = "releases" /\ ReleasesNext /\ UNCHANGED <<settingsVars, vars>>
       \/ part = "tuning" /\ Next /\ UNCHANGED <<settingsVars, releaseVars>>

HostSpec == HostInit /\ [][HostNext]_<<part, settingsVars, releaseVars, vars>>
=============================================================================
