-------------------------- MODULE MCServerControl --------------------------
(***************************************************************************)
(* Small registries to check ServerControl on.                             *)
(***************************************************************************)
EXTENDS LaneRefinement, LaneLemmas, SequencesExt, TLC

Entry(id, nodes, port, project, containers) ==
  [ id |-> id, served_model |-> id, nodes |-> nodes, head_node |-> "", port |-> port,
    compose_project |-> project, containers |-> containers, conflicts |-> {} ]

NodeAddresses == [ n \in {"node-a", "node-b"} |->
                     IF n = "node-a" THEN "192.0.2.10" ELSE "192.0.2.11" ]

\* config/recipes.example.toml: one lane, two recipes.
LaneRegistry ==
  << Entry("A", << "node-a", "node-b" >>, 8888, "proj-a", {"head-a"}),
     Entry("B", << "node-a" >>, 8888, "proj-b", {"head-b"}) >>

\* One lane, three recipes; the last is detected by its compose label, and
\* shares the port with the others only through node-a.
ThreeRegistry ==
  LaneRegistry \o
  << [ Entry("C", << "node-b", "node-a" >>, 8888, "proj-c", {})
         EXCEPT !.head_node = "node-a" ] >>

\* That lane, and after it a recipe on a port of its own that fights nobody.
LaneAndSide ==
  ThreeRegistry \o << Entry("S", << "node-b" >>, 9000, "proj-s", {"side"}) >>

\* A lane of two, the second found by its label and with a head of its own
\* choice.
LabelledRegistry == << ThreeRegistry[1], ThreeRegistry[3] >>

\* A recipe on a port of its own is listed before the two of the lane.
MixedRegistry == << LaneAndSide[4] >> \o LaneRegistry

\* Text and vision variants of one model share project and container.
SharedRegistry ==
  << Entry("text", << "node-a" >>, 8888, "ds", {"ds-head"}),
     Entry("vision", << "node-a" >>, 8888, "ds", {"ds-head"}) >>

\* Files of up to three entries, some of which repeat an id.
Files ==
  BoundedSeq(Range(ThreeRegistry) \cup {[ LaneRegistry[1] EXCEPT !.port = 9000 ]}, 3)

\* from_config: what the file lists is there once, in the order of first
\* mention and with its latest contents, so that the scan, the conflicts and
\* the default recipe all speak of the same entry.
RegistryIsDict == \A raw \in Files : IsDict(FromConfig(raw), raw, Len(raw))

ASSUME FromConfigIsDict == RegistryIsDict

\* What the theorems about the lane ask of a registry is true of all of these but
\* the two whose order or marks mislead the scan.
ASSUME LanesAreFit ==
  Registry \notin {MixedRegistry, SharedRegistry} => OwnMarks /\ OwnEndpoints /\ LaneFirst

Both == {TRUE, FALSE}

\* Clients are alike; used where only safety is checked.
ClientSymmetry == Permutations(Clients)

=============================================================================
