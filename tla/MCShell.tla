------------------------------ MODULE MCShell ------------------------------
(***************************************************************************)
(* A dashboard of two recipes to check Shell on.                           *)
(***************************************************************************)
EXTENDS Shell

Entry(id) ==
  [ id |-> id, served_model |-> id, nodes |-> << "node-a" >>, head_node |-> "",
    port |-> 8888, compose_project |-> id, containers |-> {id}, conflicts |-> {} ]

TwoRecipes == << Entry("A"), Entry("B") >>
OneNode == [ n \in {"node-a"} |-> "192.0.2.10" ]

Running(id) == [ state |-> "running", active |-> id ]
Stopped == [ state |-> "stopped", active |-> NoRecipe ]
Unreachable == [ state |-> "unreachable", active |-> NoRecipe ]

RunningOrNot == { Running("A"), Stopped }
AllStatuses == { Running("A"), Running("B"), Stopped, Unreachable }

=============================================================================
