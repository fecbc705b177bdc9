----------------------------- MODULE MCController -----------------------------
EXTENDS ControllerProps
Min0 == [s \in ScaleSets |-> 0]
Max1 == [s \in ScaleSets |-> 1]

\* A configuration names all scale sets, or only the first.
OneOrAll == {ScaleSets, {CHOOSE s \in ScaleSets : TRUE}}

\* Others act only while the pass waits for GitHub, not between two steps of it that make no call.
OnlyWhileWaiting == pc = "workers" /\ asking = {} => passVars' # passVars
=============================================================================
