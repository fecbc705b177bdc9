------------------------------ MODULE Releases ------------------------------
(***************************************************************************)
(* The order of releases, and the commands that go by it: parcon update,   *)
(* which takes the newest release that GitHub lists, and the install.sh of *)
(* any release that was ever published.                                    *)
(***************************************************************************)
EXTENDS Integers, Sequences, Functions

CONSTANTS
    Versions,    \* versions that may be published
    MaxReleases  \* bound: releases on GitHub

\* A version is [core |-> <<major, minor, patch>>, pre |-> identifiers]. An identifier is [num, text]: its number, or
\* NaN if strconv.Atoi refuses it, and its rank among strings.
NaN == -1

Identifier == [num : Nat \cup {NaN}, text : Nat]

\* Two identifiers of one rank, or with one number, are the same: as semantic versioning asks for, numbers have no
\* leading zeros. Numbers fit an int.
ASSUME ReleasesAssumption ==
    /\ MaxReleases \in Nat \ {0}
    /\ Versions \subseteq [core : [1..3 -> Nat], pre : Seq(Identifier)]
    /\ \A v, w \in Versions : \A i \in DOMAIN v.pre, j \in DOMAIN w.pre :
          v.pre[i].text = w.pre[j].text \/ (v.pre[i].num = w.pre[j].num /\ v.pre[i].num # NaN)
          => v.pre[i] = w.pre[j]

VARIABLES
    releases, \* as GitHub lists them
    self,     \* the release of parcon on the host
    have      \* the release that is installed: the controller VM's tag

releaseVars == <<releases, self, have>>

cmp(a, b) == IF a < b THEN -1 ELSE IF a > b THEN 1 ELSE 0

\* The first index at which two sequences differ, within the shorter one; none if there is no such index.
FirstDifference(a, b) ==
    {i \in DOMAIN a \cap DOMAIN b : a[i] # b[i] /\ \A j \in 1..(i - 1) : a[j] = b[j]}

CompareIdentifiers_Text(x, y) == cmp(x.text, y.text)

CompareIdentifiers(x, y) ==
    CASE x.num # NaN /\ y.num # NaN -> cmp(x.num, y.num)
      [] x.num # NaN /\ y.num = NaN -> -1
      [] x.num = NaN /\ y.num # NaN -> 1
      [] OTHER                      -> cmp(x.text, y.text)

ComparePre(a, b) ==
    IF a = b THEN 0
    ELSE CASE a = <<>> -> 1
           [] b = <<>> -> -1
           [] OTHER    -> IF FirstDifference(a, b) = {}
                          THEN cmp(Len(a), Len(b))
                          ELSE LET i == CHOOSE i \in FirstDifference(a, b) : TRUE IN CompareIdentifiers(a[i], b[i])

Compare(v, w) ==
    IF FirstDifference(v.core, w.core) = {}
    THEN ComparePre(v.pre, w.pre)
    ELSE LET i == CHOOSE i \in FirstDifference(v.core, w.core) : TRUE IN cmp(v.core[i], w.core[i])

IsPre(v) == v.pre # <<>>

\* What Latest has found, after it has seen the release v as well.
Better(best, v, pre) ==
    IF IsPre(v) /\ ~pre THEN best
    ELSE IF best = {} THEN {v}
    ELSE IF \E b \in best : Compare(v, b) > 0 THEN {v} ELSE best

\* Latest: the newest release, or the newest of all with pre; none if nothing is published.
Latest(listed, pre) ==
    LET best[i \in 0..Len(listed)] == IF i = 0 THEN {} ELSE Better(best[i - 1], listed[i], pre)
    IN  best[Len(listed)]

-----------------------------------------------------------------------------
ReleasesInit ==
    /\ have \in Versions
    /\ releases = <<have>>
    /\ self = have

\* The maintainers publish a release, of any branch; GitHub lists the newest publication first.
Publish(v) ==
    /\ v \notin Range(releases) /\ Len(releases) < MaxReleases
    /\ releases' = <<v>> \o releases
    /\ UNCHANGED <<self, have>>

\* parcon update finds a release newer than itself, becomes it, and continues as that release. It may stop there.
UpdateSelf(pre) ==
    /\ \E latest \in Latest(releases, pre) : Compare(latest, self) > 0 /\ self' = latest
    /\ UNCHANGED <<releases, have>>

\* parcon update goes on: the node gets the release of this parcon, unless it has a newer one.
Upgrade ==
    /\ ~(Compare(have, self) > 0)
    /\ have' = self
    /\ UNCHANGED <<releases, self>>

InstallScript_Any(v, finishes) ==
    /\ Compare(have, v) # 0
    /\ self' = v
    /\ have' = IF finishes THEN v ELSE have
    /\ UNCHANGED releases

\* The install.sh of a published release runs that release's parcon, which replaces the host's in the first step of an
\* upgrade. An upgrade may stop before the last one.
InstallScript(v, finishes) ==
    /\ Compare(have, v) < 0
    /\ self' = v
    /\ have' = IF finishes THEN v ELSE have
    /\ UNCHANGED releases

ReleasesNext ==
    \/ \E v \in Versions : Publish(v)
    \/ \E pre \in BOOLEAN : UpdateSelf(pre)
    \/ Upgrade
    \/ \E v \in Range(releases), finishes \in BOOLEAN : InstallScript(v, finishes)

-----------------------------------------------------------------------------
(* Semantic versioning's precedence, as the order of sequences of pairs: each number or identifier with its class.
   A sequence precedes the ones that it begins. *)

Precedence(v) ==
    [i \in DOMAIN v.core |-> <<0, v.core[i]>>] \o
    IF IsPre(v) THEN [i \in DOMAIN v.pre |-> IF v.pre[i].num # NaN THEN <<1, v.pre[i].num>> ELSE <<2, v.pre[i].text>>]
                ELSE << <<3, 0>> >>

Older(v, w) ==
    LET a == Precedence(v)
        b == Precedence(w)
    IN  \E n \in DOMAIN b :
            /\ \A i \in 1..(n - 1) : i \in DOMAIN a /\ a[i] = b[i]
            /\ n \in DOMAIN a => a[n][1] < b[n][1] \/ (a[n][1] = b[n][1] /\ a[n][2] < b[n][2])

\* Compare is semantic versioning's order, so whatever the order in which releases are listed, parcon update finds
\* the newest of them, and a pre-release only when it was asked for one.
FindsTheNewest ==
    /\ \A v, w \in Range(releases) \cup {have} :
          Compare(v, w) = IF Older(v, w) THEN -1 ELSE IF Older(w, v) THEN 1 ELSE 0
    /\ \A pre \in BOOLEAN :
          LET candidates == {v \in Range(releases) : pre \/ ~IsPre(v)}
          IN  Latest(releases, pre) = {v \in candidates : \A w \in candidates : ~Older(v, w)}

\* Whatever is published, listed and run in whichever order, and wherever an update or a script stops, the node never
\* goes back to an older release.
NeverOlder == [][~Older(have', have)]_releaseVars

=============================================================================
