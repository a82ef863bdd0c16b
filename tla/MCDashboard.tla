---------------------------- MODULE MCDashboard ----------------------------
(***************************************************************************)
(* Small registries to check Dashboard on.                                 *)
(***************************************************************************)
EXTENDS DashboardProofs

Entry(id, model, nodes, port, containers, conflicts) ==
  [ id |-> id, served_model |-> model, nodes |-> nodes, head_node |-> "",
    port |-> port, compose_project |-> id, containers |-> containers,
    conflicts |-> conflicts ]

NodeAddresses == [ n \in {"node-a", "node-b"} |->
                     IF n = "node-a" THEN "192.0.2.10" ELSE "192.0.2.11" ]

\* A lane of two recipes, the second detected by its label, and a recipe on a
\* port of its own that declares a conflict with the first (a shared GPU).
DeclaredRegistry ==
  << Entry("A", "model-a", << "node-a", "node-b" >>, 8888, {"head-a"}, {}),
     Entry("B", "model-b", << "node-a" >>, 8888, {}, {}),
     Entry("D", "model-d", << "node-b" >>, 9000, {"head-d"}, {"A"}) >>

\* One model, served alone on either node.
TwinRegistry ==
  << Entry("left", "model", << "node-a" >>, 8888, {"head-l"}, {}),
     Entry("right", "model", << "node-b" >>, 8888, {"head-r"}, {}) >>

\* What the theorem about the locks asks of a registry the first one has.
ASSUME LocksAreFit ==
  Registry = DeclaredRegistry => OwnMarks /\ OwnEndpoints /\ OneModelEach

=============================================================================
