-------------------------------- MODULE Gate --------------------------------
(***************************************************************************)
(* What a caller of loadWorkflow relies upon, without how it is found out: *)
(* a file is decided once, its graphs are the ones that were in the file,  *)
(* it is let in only if nothing in them waits on itself, and it is turned  *)
(* away for a cycle only if there is one.                                  *)
(***************************************************************************)
EXTENDS Dag

VARIABLES
  graph,     \* [jobs, needs, groups, group_needs]
  decision   \* "open", "in", "cycle", "group_cycle", or "away" for another reason

gateVars == <<graph, decision>>

JobsGrounded   == Acyclic(graph.jobs, graph.needs)
GroupsGrounded == Acyclic(graph.groups, graph.group_needs)

Decide(d) == decision = "open" /\ decision' = d /\ UNCHANGED graph

LetIn         == JobsGrounded /\ GroupsGrounded /\ Decide("in")
CycleOfJobs   == ~ JobsGrounded /\ Decide("cycle")
CycleOfGroups == ~ GroupsGrounded /\ Decide("group_cycle")
TurnAway      == Decide("away")

GateInit == decision = "open"

GateNext == LetIn \/ CycleOfJobs \/ CycleOfGroups \/ TurnAway

GateSpec == GateInit /\ [][GateNext]_gateVars

=============================================================================
