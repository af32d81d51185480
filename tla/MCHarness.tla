------------------------------ MODULE MCHarness ------------------------------
(***************************************************************************)
(* Instances of AgentHarness for TLC: one scope, or two scopes of one      *)
(* channel, and events that arrive newest first, as a relay replay does.   *)
(***************************************************************************)
EXTENDS AgentHarness

CONSTANTS s1, s2, c1, MaxEvents

OneScope  == {s1}
TwoScopes == {s1, s2}
OneChannel == {c1}
SameChannel == [s \in Scope |-> c1]
Stamps == 1..MaxEvents
ReplayOrder == [e \in Event |-> MaxEvents - e]
=============================================================================
