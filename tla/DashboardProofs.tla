-------------------------- MODULE DashboardProofs --------------------------
(***************************************************************************)
(* Proofs about Dashboard: what a view may be trusted in, whatever happens *)
(* between its probes.                                                     *)
(***************************************************************************)
EXTENDS Dashboard, LaneLemmas, FiniteSetTheorems

-----------------------------------------------------------------------------
(* Types *)

Probes == 0..Cardinality(NodeKeys)
Places == 0..Len(Registry)

ReadType ==
  [ at : {"idle", "nodes", "scan", "health", "model", "job"}, follow : Nat,
    probed : Probes, reachable : BOOLEAN,
    scan : Places, failed : BOOLEAN,
    active : RecipeIds \cup {NoRecipe}, healthy : BOOLEAN,
    model : STRING \cup {""} ]

LaneTypes ==
  /\ last \in OpType
  /\ up \subseteq RecipeIds /\ ready \subseteq up /\ paused \subseteq up

ReadTypes ==
  /\ read \in ReadType /\ read.follow \in 0..last.id
  /\ read.at = "scan" => read.scan \in DOMAIN Registry
  /\ read.at \in {"health", "model"} => read.active \in RecipeIds
  /\ view.active \in RecipeIds \cup {NoRecipe} /\ view.locked \subseteq RecipeIds
  /\ seen \subseteq RecipeIds /\ steady \subseteq RecipeIds /\ still \in BOOLEAN

Typed == LaneTypes /\ ReadTypes

LEMMA NodesCounted == Cardinality(NodeKeys) \in Nat
  <1>1. ASSUME NEW i \in DOMAIN Registry PROVE IsFiniteSet(NodeSet(Registry[i]))
    <2>. DEFINE nodes == Registry[i].nodes
    <2>1. nodes \in Seq(STRING)
      <3>1. Registry[i] \in RecipeType
        BY RegistryAssumption
      <3>. QED
        BY <3>1 DEF RecipeType
    <2>2. DOMAIN nodes = 1..Len(nodes) /\ Len(nodes) \in Nat
      BY <2>1
    <2>3. nodes \in Surjection(1..Len(nodes), NodeSet(Registry[i]))
      BY <2>1, <2>2 DEF NodeSet, Surjection
    <2>4. IsFiniteSet(1..Len(nodes))
      BY <2>2, FS_Interval
    <2>. QED
      BY <2>3, <2>4, FS_Surjection
  <1>. DEFINE sets == { NodeSet(Registry[i]) : i \in DOMAIN Registry }
              keys == [ i \in 1..Len(Registry) |-> NodeSet(Registry[i]) ]
  <1>2. DOMAIN Registry = 1..Len(Registry) /\ Len(Registry) \in Nat
    BY RegistryAssumption
  <1>3. keys \in Surjection(1..Len(Registry), sets)
    BY <1>2 DEF Surjection
  <1>4. IsFiniteSet(sets)
    <2>1. IsFiniteSet(1..Len(Registry))
      BY <1>2, FS_Interval
    <2>. QED
      BY <1>3, <2>1, FS_Surjection
  <1>5. IsFiniteSet(NodeKeys)
    BY <1>1, <1>4, FS_UNION DEF NodeKeys
  <1>. QED
    BY <1>5, FS_CardinalityType

LEMMA Bounds ==
  /\ Len(Registry) \in Nat /\ DOMAIN Registry = 1..Len(Registry)
  /\ 0 \in Probes /\ 0 \in Places /\ DOMAIN Registry \subseteq Places
  /\ \A n \in Probes : n < Cardinality(NodeKeys) => n + 1 \in Probes
  BY NodesCounted, RegistryAssumption DEF Probes, Places

\* The entry of an id.
LEMMA EntryOf ==
  ASSUME NEW id \in RecipeIds
  PROVE  \E i \in DOMAIN Registry : RecipeOf(id) = Registry[i] /\ Registry[i].id = id
  <1>1. \E i \in DOMAIN Registry : Registry[i].id = id
    BY DEF RecipeIds
  <1>. QED
    BY <1>1 DEF RecipeOf

LEMMA MatchTyped ==
  ASSUME NEW id \in RecipeIds, NEW model
  PROVE  MatchServedModel(id, model) \in RecipeIds
  <1>. DEFINE serving == { i \in DOMAIN Registry : Registry[i].served_model = model }
  <1>1. CASE serving = {}
    BY <1>1 DEF MatchServedModel
  <1>2. CASE serving # {}
    <2>1. \E i \in serving : \A k \in serving : i <= k
      <3>1. serving \subseteq Nat
        BY RegistryAssumption
      <3>. QED
        BY <1>2, <3>1, Least
    <2>. QED
      BY <1>2, <2>1 DEF MatchServedModel, RecipeIds
  <1>. QED
    BY <1>1, <1>2

LEMMA LaneStepTyped == LaneTypes /\ Next => LaneTypes' /\ last'.id >= last.id
  <1>. SUFFICES ASSUME LaneTypes, Next PROVE LaneTypes' /\ last'.id >= last.id
    OBVIOUS
  <1>0. last.id \in 0..MaxOps
    BY DashboardAssumption DEF LaneTypes, OpType, NoOp
  <1>1. ASSUME NEW op \in {"start", "stop"}, NEW id \in RecipeIds, Accept(op, id)
        PROVE  LaneTypes' /\ last'.id >= last.id
    <2>1. last.id + 1 \in 1..MaxOps
      BY <1>0, <1>1, DashboardAssumption DEF Accept
    <2>. QED
      BY <1>0, <1>1, <2>1 DEF Accept, LaneTypes, OpType, clusterVars
  <1>2. ASSUME UNCHANGED last, up' \subseteq RecipeIds, ready' \subseteq up', paused' \subseteq up'
        PROVE  LaneTypes' /\ last'.id >= last.id
    BY <1>0, <1>2 DEF LaneTypes
  <1>3. ASSUME Busy PROVE last.recipe \in RecipeIds /\ last \in OpType \ {NoOp}
    BY <1>3 DEF LaneTypes, OpType, NoOp, Busy
  <1>4. CASE Acts
    BY <1>2, <1>3, <1>4 DEF Acts, BringUp, TakeDown, Sharing, LaneTypes
  <1>5. ASSUME NEW verdict \in {"done", "failed"}, Finishes(verdict)
        PROVE  LaneTypes' /\ last'.id >= last.id
    BY <1>0, <1>3, <1>5 DEF Finishes, LaneTypes, OpType, clusterVars
  <1>6. CASE Drifts
    BY <1>2, <1>6 DEF Drifts, NodesMove, Loads, Dies, Falters, Recovers, LaneTypes
  <1>. QED
    BY <1>1, <1>4, <1>5, <1>6 DEF Next

\* A step of the lane leaves the read alone; the ghosts watch.
LEMMA LaneStepKeepsTypes == Typed /\ LaneStep => Typed'
  <1>. SUFFICES ASSUME Typed, LaneStep PROVE Typed'
    OBVIOUS
  <1>1. LaneTypes' /\ last'.id >= last.id /\ UNCHANGED << read, view >>
    BY LaneStepTyped DEF LaneStep, Typed
  <1>2. last.id \in Nat /\ last'.id \in Nat
    BY <1>1, DashboardAssumption DEF Typed, LaneTypes, OpType, NoOp
  <1>3. read'.follow \in 0..last'.id
    BY <1>1, <1>2 DEF Typed, ReadTypes
  <1>4. seen' \subseteq RecipeIds /\ steady' \subseteq RecipeIds /\ still' \in BOOLEAN
    <2>1. ready' \subseteq RecipeIds
      BY <1>1 DEF LaneTypes
    <2>2. CASE read.at = "idle"
      BY <2>2 DEF LaneStep, Typed, ReadTypes
    <2>3. CASE read.at # "idle"
      BY <2>1, <2>3 DEF LaneStep, Typed, ReadTypes
    <2>. QED
      BY <2>2, <2>3
  <1>. QED
    BY <1>1, <1>3, <1>4 DEF Typed, ReadTypes

LEMMA NoReadTyped == ASSUME NEW at \in {"idle", "nodes"}, NEW follow \in Nat
  PROVE  /\ NoRead \in ReadType
         /\ [ NoRead EXCEPT !.at = at, !.follow = follow ] \in ReadType
  <1>1. NoRead \in ReadType
    <2>1. 0 \in Probes /\ 0 \in Places /\ 0 \in Nat
      BY Bounds
    <2>2. NoRecipe \in RecipeIds \cup {NoRecipe} /\ "" \in STRING \cup {""}
      OBVIOUS
    <2>. QED
      BY <2>1, <2>2 DEF NoRead, ReadType
  <1>. QED
    BY <1>1 DEF ReadType

LEMMA BeginTyped == \A follow \in 0..last.id : Typed /\ Begin(follow) => Typed'
  <1>. SUFFICES ASSUME NEW follow \in 0..last.id, Typed, Begin(follow) PROVE Typed'
    OBVIOUS
  <1>1. last' = last /\ LaneTypes'
    BY DEF Begin, laneVars, clusterVars, Typed, LaneTypes
  <1>2. read' = [ NoRead EXCEPT !.at = "nodes", !.follow = follow ] /\ view' = NoView
        /\ seen' = ready /\ steady' = up \ paused /\ still' = TRUE
    BY DEF Begin
  <1>3. follow \in Nat
    BY DashboardAssumption DEF Typed, LaneTypes, OpType, NoOp
  <1>4. read' \in ReadType
    BY <1>2, <1>3, NoReadTyped
  <1>5. read'.at = "nodes" /\ read'.follow = follow
    BY <1>2 DEF NoRead
  <1>6. view'.active = NoRecipe /\ view'.locked = {}
    BY <1>2 DEF NoView
  <1>. QED
    BY <1>1, <1>2, <1>4, <1>5, <1>6 DEF Typed, LaneTypes, ReadTypes

\* What every step of a read but the last leaves alone.
LEMMA ReadsTyped ==
  ASSUME Typed, Reads, read' \in ReadType, read'.follow \in 0..last.id,
         read'.at = "scan" => read'.scan \in DOMAIN Registry,
         read'.at \in {"health", "model"} => read'.active \in RecipeIds
  PROVE  Typed'
  BY DEF Typed, LaneTypes, ReadTypes, Reads, laneVars, clusterVars

LEMMA ReaderTyped == Typed /\ ReaderStep => Typed'
  <1>. SUFFICES ASSUME Typed, ReaderStep PROVE Typed'
    OBVIOUS
  <1>0. /\ read \in ReadType /\ read.follow \in 0..last.id
        /\ Len(Registry) \in Nat /\ DOMAIN Registry = 1..Len(Registry)
        /\ 0 \in Probes /\ 0 \in Places /\ DOMAIN Registry \subseteq Places
    BY Bounds DEF Typed, ReadTypes
  <1>1. CASE ProbeNode
    <2>1. PICK reachable \in BOOLEAN :
            read' = [ read EXCEPT !.probed = @ + 1, !.reachable = @ \/ reachable ]
      BY <1>1 DEF ProbeNode
    <2>2. read.probed + 1 \in Probes
      BY <1>0, <1>1, Bounds DEF ProbeNode, ReadType
    <2>3. read' \in ReadType /\ read'.at = "nodes" /\ read'.follow = read.follow
      BY <1>0, <1>1, <2>1, <2>2 DEF ReadType, ProbeNode
    <2>. QED
      BY <1>0, <1>1, <2>3, ReadsTyped DEF ProbeNode
  <1>2. CASE NodesDone
    <2>1. CASE Registry = << >>
      <3>1. read' = [ read EXCEPT !.at = "job", !.probed = 0 ]
        BY <1>2, <2>1 DEF NodesDone
      <3>2. read' \in ReadType /\ read'.at = "job" /\ read'.follow = read.follow
        BY <1>0, <3>1 DEF ReadType
      <3>. QED
        BY <1>0, <1>2, <3>2, ReadsTyped DEF NodesDone
    <2>2. CASE Registry # << >>
      <3>1. read' = [ read EXCEPT !.at = "scan", !.probed = 0, !.scan = 1 ]
        BY <1>2, <2>2 DEF NodesDone
      <3>2. 1 \in DOMAIN Registry
        BY <2>2, RegistryAssumption
      <3>3. read' \in ReadType /\ read'.at = "scan" /\ read'.scan = 1
            /\ read'.follow = read.follow
        BY <1>0, <3>1, <3>2 DEF ReadType
      <3>. QED
        BY <1>0, <1>2, <3>2, <3>3, ReadsTyped DEF NodesDone
    <2>. QED
      BY <2>1, <2>2
  <1>3. CASE ReadFails
    <2>1. read' = NoRead /\ NoRead \in ReadType
      BY <1>3, NoReadTyped DEF ReadFails
    <2>2. read'.at = "idle" /\ read'.follow = 0
      BY <2>1 DEF NoRead
    <2>3. 0 \in 0..last.id
      BY DashboardAssumption DEF Typed, LaneTypes, OpType, NoOp
    <2>. QED
      BY <1>3, <2>1, <2>2, <2>3, ReadsTyped DEF ReadFails
  <1>4. CASE ScanRecipe
    <2>. DEFINE id == Registry[read.scan].id
    <2>1. read.scan \in DOMAIN Registry /\ id \in RecipeIds
      BY <1>4 DEF ScanRecipe, Typed, ReadTypes, RecipeIds
    <2>2. CASE read' = [ read EXCEPT !.at = "health", !.scan = 0, !.active = id ]
      <3>1. read' \in ReadType /\ read'.at = "health" /\ read'.active \in RecipeIds
            /\ read'.follow = read.follow
        BY <1>0, <2>1, <2>2 DEF ReadType
      <3>. QED
        BY <1>0, <1>4, <3>1, ReadsTyped DEF ScanRecipe
    <2>3. CASE read.scan < Len(Registry) /\ read' = [ read EXCEPT !.scan = @ + 1 ]
      <3>1. read.scan + 1 \in DOMAIN Registry
        BY <1>0, <2>1, <2>3
      <3>2. read' \in ReadType /\ read'.at = "scan" /\ read'.scan = read.scan + 1
            /\ read'.follow = read.follow
        BY <1>0, <1>4, <2>3, <3>1 DEF ReadType, ScanRecipe
      <3>. QED
        BY <1>0, <1>4, <3>1, <3>2, ReadsTyped DEF ScanRecipe
    <2>4. CASE read' = [ read EXCEPT !.at = "job", !.scan = 0 ]
      <3>1. read' \in ReadType /\ read'.at = "job" /\ read'.follow = read.follow
        BY <1>0, <2>4 DEF ReadType
      <3>. QED
        BY <1>0, <1>4, <3>1, ReadsTyped DEF ScanRecipe
    <2>5. CASE read' = [ read EXCEPT !.at = "job", !.scan = 0, !.failed = TRUE ]
      <3>1. read' \in ReadType /\ read'.at = "job" /\ read'.follow = read.follow
        BY <1>0, <2>5 DEF ReadType
      <3>. QED
        BY <1>0, <1>4, <3>1, ReadsTyped DEF ScanRecipe
    <2>. QED
      BY <1>4, <2>2, <2>3, <2>4, <2>5 DEF ScanRecipe
  <1>5. CASE ReadHealth
    <2>1. read.active \in RecipeIds
      BY <1>5 DEF ReadHealth, Typed, ReadTypes
    <2>2. read' \in ReadType /\ read'.follow = read.follow /\ read'.active = read.active
          /\ read'.at \in {"model", "job"}
      BY <1>0, <1>5 DEF ReadHealth, ReadType
    <2>. QED
      BY <1>0, <1>5, <2>1, <2>2, ReadsTyped DEF ReadHealth
  <1>6. CASE ReadModel
    <2>1. read.active \in RecipeIds
      BY <1>6 DEF ReadModel, Typed, ReadTypes
    <2>2. ASSUME NEW d \in ready,
                 read' = [ read EXCEPT !.at = "job", !.model = RecipeOf(d).served_model,
                             !.active = MatchServedModel(@, RecipeOf(d).served_model) ]
          PROVE  read' \in ReadType /\ read'.at = "job" /\ read'.follow = read.follow
      <3>1. d \in RecipeIds
        BY DEF Typed, LaneTypes
      <3>2. RecipeOf(d).served_model \in STRING
        <4>1. PICK i \in DOMAIN Registry : RecipeOf(d) = Registry[i]
          BY <3>1, EntryOf
        <4>2. Registry[i] \in RecipeType
          BY RegistryAssumption
        <4>. QED
          BY <4>1, <4>2 DEF RecipeType
      <3>3. MatchServedModel(read.active, RecipeOf(d).served_model) \in RecipeIds
        BY <2>1, MatchTyped
      <3>. QED
        BY <1>0, <2>2, <3>2, <3>3 DEF ReadType
    <2>3. CASE read' = [ read EXCEPT !.at = "job" ]
      <3>1. read' \in ReadType /\ read'.at = "job" /\ read'.follow = read.follow
        BY <1>0, <2>3 DEF ReadType
      <3>. QED
        BY <1>0, <1>6, <3>1, ReadsTyped DEF ReadModel
    <2>. QED
      BY <1>0, <1>6, <2>2, <2>3, ReadsTyped DEF ReadModel
  <1>7. CASE Answer
    <2>1. read' = NoRead /\ NoRead \in ReadType
      BY <1>7, NoReadTyped DEF Answer
    <2>2. read'.at = "idle" /\ read'.follow = 0
      BY <2>1 DEF NoRead
    <2>3. /\ view'.active = read.active
          /\ view'.locked = { id \in RecipeIds : Locked(id, read.active) }
      BY <1>7 DEF Answer, ViewModel, StatusRead
    <2>4. read.active \in RecipeIds \cup {NoRecipe}
      BY <1>0 DEF ReadType
    <2>5. last' = last /\ LaneTypes' /\ seen' = {} /\ steady' = {} /\ still' = TRUE
      BY <1>7 DEF Answer, laneVars, clusterVars, Typed, LaneTypes
    <2>6. 0 \in 0..last'.id
      BY <2>5, DashboardAssumption DEF Typed, LaneTypes, OpType, NoOp
    <2>. QED
      BY <2>1, <2>2, <2>3, <2>4, <2>5, <2>6 DEF Typed, ReadTypes
  <1>. QED
    BY <1>1, <1>2, <1>3, <1>4, <1>5, <1>6, <1>7 DEF ReaderStep

LEMMA TypedInductive == Typed /\ [DashboardNext]_vars => Typed'
  <1>1. ASSUME Typed, UNCHANGED vars PROVE Typed'
    BY <1>1 DEF vars, laneVars, clusterVars, readVars, Typed, LaneTypes, ReadTypes
  <1>. QED
    BY <1>1, LaneStepKeepsTypes, BeginTyped, ReaderTyped DEF DashboardNext

LEMMA InitTyped == DashboardInit => Typed
  <1>. SUFFICES ASSUME DashboardInit PROVE Typed
    OBVIOUS
  <1>1. LaneTypes
    BY DEF DashboardInit, Init, ClusterInit, LaneTypes, OpType
  <1>2. last.id = 0
    BY DEF DashboardInit, Init, NoOp
  <1>3. read = NoRead /\ read \in ReadType
    BY NoReadTyped DEF DashboardInit
  <1>4. read.at = "idle" /\ read.follow = 0
    BY <1>3 DEF NoRead
  <1>5. view.active = NoRecipe /\ view.locked = {}
    BY DEF DashboardInit, NoView
  <1>. QED
    BY <1>1, <1>2, <1>3, <1>4, <1>5 DEF DashboardInit, Typed, ReadTypes

LEMMA TypesHold == DashboardSpec => []Typed
  BY InitTyped, TypedInductive, PTL DEF DashboardSpec

\* The shape of the state, for any registry: the fields a read has gathered fit
\* the place it has come to.
THEOREM DashboardTyped == DashboardSpec => []TypeOK
  <1>1. Typed => TypeOK
    BY DEF Typed, LaneTypes, ReadTypes, ReadType, Probes, Places, TypeOK
  <1>. QED
    BY <1>1, TypesHold, PTL

-----------------------------------------------------------------------------
(* The answer, and the steps to it *)

LEMMA AnswersIsAnswer == [DashboardNext]_vars /\ Answers => Answer
  <1>. SUFFICES ASSUME DashboardNext \/ UNCHANGED vars, read.at = "job", read'.at = "idle"
                PROVE  Answer
    BY DEF Answers
  <1>1. ASSUME UNCHANGED vars \/ LaneStep PROVE FALSE
    <2>1. read' = read
      BY <1>1 DEF vars, readVars, LaneStep
    <2>. QED
      BY <2>1
  <1>2. ASSUME NEW follow \in 0..last.id, Begin(follow) PROVE FALSE
    BY <1>2 DEF Begin
  <1>. QED
    BY <1>1, <1>2 DEF DashboardNext, ReaderStep, ProbeNode, NodesDone, ReadFails,
                      ScanRecipe, ReadHealth, ReadModel

\* A view read without a job id offers its button only while nothing is busy,
\* whatever the registry and however old the status it rests on.
THEOREM IdleOffered == DashboardSpec => IdleWhenOffered
  <1>1. ASSUME Typed, [DashboardNext]_vars, Answers, view'.follow = 0, Busy
        PROVE  Button(view'.state) = "none"
    <2>1. Answer
      BY <1>1, AnswersIsAnswer
    <2>2. read.follow = 0 /\ view'.state = ShownState(StatusRead.state, JobShown(read.follow))
      BY <1>1, <2>1 DEF Answer, ViewModel
    <2>3. JobShown(0) = Snapshot(last)
      BY <1>1 DEF JobShown
    <2>4. last.op \in {"start", "stop"}
      BY <1>1 DEF Typed, LaneTypes, OpType, NoOp, Busy
    <2>5. Snapshot(last).busy /\ Snapshot(last).op = last.op
      BY <1>1 DEF Snapshot, Busy
    <2>6. ShownState(StatusRead.state, Snapshot(last)) \in {"starting", "stopping"}
      BY <2>4, <2>5 DEF ShownState
    <2>. QED
      BY <2>2, <2>3, <2>6 DEF Button
  <1>2. Typed /\ [DashboardNext]_vars =>
          [ Answers /\ view'.follow = 0 /\ Button(view'.state) # "none" => ~Busy ]_vars
    BY <1>1
  <1>. QED
    BY <1>2, TypesHold, PTL DEF DashboardSpec, IdleWhenOffered

\* What one step of a read adds to what it has found.
SameFinding ==
  read'.active = read.active /\ read'.model = read.model /\ read'.failed = read.failed
StartsScan ==
  read.at = "nodes" /\ read'.at = "scan" /\ read'.scan = 1 /\ SameFinding
NothingToScan ==
  read.at = "nodes" /\ Registry = << >> /\ read'.at = "job" /\ SameFinding
Misses ==
  /\ read.at = "scan" /\ ~Detected(Registry[read.scan].id) /\ SameFinding
  /\ \/ read'.at = "scan" /\ read'.scan = read.scan + 1
     \/ read'.at = "job" /\ read.scan = Len(Registry)
GivesUp ==
  /\ read.at = "scan" /\ read'.at = "job" /\ read'.failed
  /\ read'.active = read.active /\ read'.model = read.model
Finds ==
  /\ read.at = "scan" /\ read'.at = "health"
  /\ read'.active = Registry[read.scan].id /\ Detected(read'.active)
  /\ read'.model = read.model
AsksOn ==
  read.at \in {"health", "model"} /\ read'.at \in {"model", "job"} /\ SameFinding
Matches ==
  /\ read.at = "model" /\ read'.at = "job"
  /\ \E d \in ready :
       /\ Endpoint(d) = Endpoint(read.active)
       /\ read'.model = RecipeOf(d).served_model
       /\ read'.active = MatchServedModel(read.active, read'.model)

Moves ==
  \/ read.at = "nodes" /\ read'.at = "nodes" /\ SameFinding
  \/ StartsScan \/ NothingToScan \/ Misses \/ GivesUp \/ Finds \/ AsksOn \/ Matches

LEMMA ReaderMoves ==
  ASSUME Typed, ReaderStep
  PROVE  read'.at = "idle" \/ (Reads /\ Moves)
  <1>0. read \in ReadType
    BY DEF Typed, ReadTypes
  <1>1. CASE ProbeNode
    <2>1. Reads /\ read.at = "nodes" /\ read'.at = "nodes" /\ SameFinding
      BY <1>0, <1>1 DEF ProbeNode, ReadType, SameFinding
    <2>. QED
      BY <2>1 DEF Moves
  <1>2. CASE NodesDone
    <2>1. Reads /\ (NothingToScan \/ StartsScan)
      BY <1>0, <1>2 DEF NodesDone, ReadType, NothingToScan, StartsScan, SameFinding
    <2>. QED
      BY <2>1 DEF Moves
  <1>3. CASE ReadFails
    BY <1>3 DEF ReadFails, NoRead
  <1>4. CASE ScanRecipe
    <2>1. Reads /\ (Finds \/ Misses \/ GivesUp)
      BY <1>0, <1>4 DEF ScanRecipe, ReadType, Finds, Misses, GivesUp, SameFinding
    <2>. QED
      BY <2>1 DEF Moves
  <1>5. CASE ReadHealth
    <2>1. Reads /\ AsksOn
      BY <1>0, <1>5 DEF ReadHealth, ReadType, AsksOn, SameFinding
    <2>. QED
      BY <2>1 DEF Moves
  <1>6. CASE ReadModel
    <2>1. Reads /\ (AsksOn \/ Matches)
      BY <1>0, <1>6 DEF ReadModel, ReadType, AsksOn, Matches, SameFinding
    <2>. QED
      BY <2>1 DEF Moves
  <1>7. CASE Answer
    BY <1>7 DEF Answer, NoRead
  <1>. QED
    BY <1>1, <1>2, <1>3, <1>4, <1>5, <1>6, <1>7 DEF ReaderStep

-----------------------------------------------------------------------------
(* A lane that runs is not shown stopped *)

SteadyInv ==
  /\ read.at # "idle" => steady \subseteq up \ paused
  /\ read.at = "scan" => \A i \in 1..(read.scan - 1) : Registry[i].id \notin steady
  /\ read.at = "job" /\ ~read.failed /\ read.active = NoRecipe => steady = {}

LEMMA UpIsDetected ==
  ASSUME NEW id \in up, id \notin paused PROVE Detected(id)
  <1>1. DetectionKeys(id) # {} /\ DetectionKeys(id) \subseteq Marks(id)
    BY DEF DetectionKeys, Marks, Named, Labelled
  <1>2. id \in Listed(id)
    BY <1>1 DEF Listed
  <1>. QED
    BY <1>2 DEF Detected, ContainerState

LEMMA SteadyReader ==
  ASSUME Typed, SteadyInv, Reads, Moves PROVE SteadyInv'
  <1>0. UNCHANGED << up, paused, steady >> /\ read.at # "idle" /\ read \in ReadType
        /\ steady \subseteq up \ paused /\ steady \subseteq RecipeIds
    BY DEF Reads, Moves, StartsScan, NothingToScan, Misses, GivesUp, Finds, AsksOn,
           Matches, laneVars, clusterVars, Typed, ReadTypes, SteadyInv
  <1>1. CASE read.at = "nodes" /\ read'.at = "nodes" /\ SameFinding
    BY <1>0, <1>1 DEF SteadyInv
  <1>2. CASE StartsScan
    BY <1>0, <1>2 DEF SteadyInv, StartsScan
  <1>3. CASE NothingToScan
    <2>1. RecipeIds = {}
      BY <1>3 DEF NothingToScan, RecipeIds
    <2>. QED
      BY <1>0, <1>3, <2>1 DEF SteadyInv, NothingToScan
  <1>4. CASE Misses
    <2>1. read.scan \in 1..Len(Registry) /\ DOMAIN Registry = 1..Len(Registry)
          /\ Len(Registry) \in Nat
      BY <1>4, Bounds DEF Misses, Typed, ReadTypes
    <2>2. Registry[read.scan].id \notin steady
      BY <1>0, <1>4, UpIsDetected DEF Misses
    <2>3. \A i \in 1..read.scan : Registry[i].id \notin steady
      <3>1. \A i \in 1..(read.scan - 1) : Registry[i].id \notin steady
        BY <1>4 DEF Misses, SteadyInv
      <3>2. \A i \in 1..read.scan : i = read.scan \/ i \in 1..(read.scan - 1)
        BY <2>1
      <3>. QED
        BY <2>2, <3>1, <3>2
    <2>4. CASE read'.at = "scan" /\ read'.scan = read.scan + 1
      <3>1. read'.scan - 1 = read.scan
        BY <2>1, <2>4
      <3>. QED
        BY <1>0, <2>3, <2>4, <3>1 DEF SteadyInv
    <2>5. CASE read'.at = "job" /\ read.scan = Len(Registry)
      <3>1. steady = {}
        BY <1>0, <2>1, <2>3, <2>5 DEF RecipeIds
      <3>. QED
        BY <1>0, <2>5, <3>1 DEF SteadyInv
    <2>. QED
      BY <1>4, <2>4, <2>5 DEF Misses
  <1>5. CASE GivesUp
    BY <1>0, <1>5 DEF SteadyInv, GivesUp
  <1>6. CASE Finds
    BY <1>0, <1>6 DEF SteadyInv, Finds
  <1>7. CASE AsksOn
    BY <1>0, <1>7, DashboardAssumption DEF SteadyInv, AsksOn, SameFinding, Typed, ReadTypes
  <1>8. CASE Matches
    <2>1. read'.active \in RecipeIds
      BY <1>8, MatchTyped DEF Matches, Typed, ReadTypes
    <2>. QED
      BY <1>0, <1>8, <2>1, DashboardAssumption DEF SteadyInv, Matches
  <1>. QED
    BY <1>1, <1>2, <1>3, <1>4, <1>5, <1>6, <1>7, <1>8 DEF Moves

LEMMA SteadyInductive == Typed /\ SteadyInv /\ [DashboardNext]_vars => SteadyInv'
  <1>. SUFFICES ASSUME Typed, SteadyInv, DashboardNext \/ UNCHANGED vars PROVE SteadyInv'
    OBVIOUS
  <1>1. CASE UNCHANGED vars
    BY <1>1 DEF vars, laneVars, clusterVars, readVars, SteadyInv
  <1>2. ASSUME NEW follow \in 0..last.id, Begin(follow) PROVE SteadyInv'
    <2>1. read'.at = "nodes" /\ steady' = up \ paused /\ UNCHANGED << up, paused >>
      BY <1>2 DEF Begin, NoRead, laneVars, clusterVars
    <2>. QED
      BY <2>1 DEF SteadyInv
  <1>3. CASE ReaderStep
    <2>1. CASE read'.at = "idle"
      BY <2>1 DEF SteadyInv
    <2>. QED
      BY <1>3, <2>1, ReaderMoves, SteadyReader
  <1>4. CASE LaneStep
    <2>1. read' = read
      BY <1>4 DEF LaneStep
    <2>2. CASE read.at = "idle"
      BY <2>1, <2>2 DEF SteadyInv
    <2>3. CASE read.at # "idle"
      <3>1. steady' = (steady \cap up') \ paused'
        BY <1>4, <2>3 DEF LaneStep
      <3>. QED
        BY <2>1, <3>1 DEF SteadyInv
    <2>. QED
      BY <2>2, <2>3
  <1>. QED
    BY <1>1, <1>2, <1>3, <1>4 DEF DashboardNext

\* A lane whose containers ran all through a read is not shown stopped,
\* whatever the registry and whatever happens elsewhere meanwhile.
THEOREM SteadyShown == DashboardSpec => SteadyNotStopped
  <1>1. DashboardInit => SteadyInv
    BY DEF DashboardInit, NoRead, SteadyInv
  <1>2. ASSUME Typed, SteadyInv, [DashboardNext]_vars, Answers, view'.state = "stopped"
        PROVE  steady = {}
    <2>1. Answer /\ read.at = "job"
      BY <1>2, AnswersIsAnswer DEF Answers
    <2>. DEFINE job == JobShown(read.follow)
    <2>2. ShownState(StatusRead.state, job) = "stopped"
      BY <1>2, <2>1 DEF Answer, ViewModel
    <2>3. job.busy \in BOOLEAN
      BY DEF JobShown, Snapshot, NoJob
    <2>4. CASE job.busy
      <3>1. job = Snapshot(last) /\ Busy
        BY <2>4 DEF JobShown, Snapshot, NoJob, Busy
      <3>2. job.op \in {"start", "stop"}
        BY <1>2, <3>1 DEF Snapshot, Typed, LaneTypes, OpType, NoOp, Busy
      <3>. QED
        BY <2>2, <2>4, <3>2 DEF ShownState
    <2>5. CASE ~job.busy
      <3>1. StatusState(read.failed \/ ~read.reachable, read.active, read.healthy) = "stopped"
        BY <2>2, <2>5 DEF ShownState, StatusRead
      <3>2. read.failed \in BOOLEAN /\ read.reachable \in BOOLEAN /\ read.healthy \in BOOLEAN
        BY <1>2 DEF Typed, ReadTypes, ReadType
      <3>3. ~read.failed /\ read.active = NoRecipe
        BY <3>1, <3>2 DEF StatusState
      <3>. QED
        BY <1>2, <2>1, <3>3 DEF SteadyInv
    <2>. QED
      BY <2>3, <2>4, <2>5
  <1>3. Typed /\ SteadyInv /\ [DashboardNext]_vars =>
          [ Answers /\ view'.state = "stopped" => steady = {} ]_vars
    BY <1>2
  <1>. QED
    BY <1>1, <1>3, TypesHold, SteadyInductive, PTL DEF DashboardSpec, SteadyNotStopped

-----------------------------------------------------------------------------
(* A model that is named was served *)

LEMMA EntryIs == \A i \in DOMAIN Registry : RecipeOf(Registry[i].id) = Registry[i]
  BY RegistryAssumption DEF RecipeOf

\* The recipe that is named for a model serves it, if any does.
LEMMA MatchServes ==
  ASSUME NEW id \in RecipeIds, NEW d \in RecipeIds
  PROVE  RecipeOf(MatchServedModel(id, RecipeOf(d).served_model)).served_model
           = RecipeOf(d).served_model
  <1>. DEFINE model == RecipeOf(d).served_model
              serving == { i \in DOMAIN Registry : Registry[i].served_model = model }
  <1>1. serving # {} /\ serving \subseteq Nat
    BY EntryOf, RegistryAssumption
  <1>2. \E i \in serving : \A k \in serving : i <= k
    BY <1>1, Least
  <1>3. PICK n \in serving : MatchServedModel(id, model) = Registry[n].id
    BY <1>1, <1>2 DEF MatchServedModel
  <1>. QED
    BY <1>3, EntryIs

\* The recipe serves under that name, and so did one that was seen.
Served(id, model) ==
  /\ RecipeOf(id).served_model = model
  /\ \E d \in seen : RecipeOf(d).served_model = model

SeenInv ==
  /\ read.at # "idle" => ready \subseteq seen
  /\ read.at # "job" => read.model = ""
  /\ read.at = "job" /\ read.model # "" =>
       read.active \in RecipeIds /\ Served(read.active, read.model)

LEMMA SeenReader ==
  ASSUME Typed, SeenInv, Reads, Moves PROVE SeenInv'
  <1>1. UNCHANGED << ready, seen >> /\ read.at # "idle" /\ ready \subseteq seen
    BY DEF Reads, Moves, StartsScan, NothingToScan, Misses, GivesUp, Finds, AsksOn,
           Matches, laneVars, clusterVars, SeenInv
  <1>2. CASE read.at # "job" /\ read'.model = read.model
    BY <1>1, <1>2 DEF SeenInv
  <1>3. CASE Matches
    <2>1. PICK d \in ready :
            /\ read'.model = RecipeOf(d).served_model
            /\ read'.active = MatchServedModel(read.active, RecipeOf(d).served_model)
      BY <1>3 DEF Matches
    <2>2. read.active \in RecipeIds /\ d \in RecipeIds
      BY <1>3 DEF Matches, Typed, ReadTypes, LaneTypes
    <2>3. read'.active \in RecipeIds /\ RecipeOf(read'.active).served_model = read'.model
      BY <2>1, <2>2, MatchTyped, MatchServes
    <2>4. d \in seen'
      BY <1>1
    <2>5. Served(read.active, read.model)'
      BY <2>1, <2>3, <2>4 DEF Served
    <2>. QED
      BY <1>1, <1>3, <2>3, <2>5 DEF SeenInv, Matches
  <1>. QED
    BY <1>2, <1>3 DEF Moves, StartsScan, NothingToScan, Misses, GivesUp, Finds, AsksOn,
                      SameFinding

LEMMA SeenInductive == Typed /\ SeenInv /\ [DashboardNext]_vars => SeenInv'
  <1>. SUFFICES ASSUME Typed, SeenInv, DashboardNext \/ UNCHANGED vars PROVE SeenInv'
    OBVIOUS
  <1>1. CASE UNCHANGED vars
    BY <1>1 DEF vars, laneVars, clusterVars, readVars, SeenInv, Served
  <1>2. ASSUME NEW follow \in 0..last.id, Begin(follow) PROVE SeenInv'
    <2>1. /\ read'.at = "nodes" /\ read'.model = ""
          /\ seen' = ready /\ UNCHANGED ready
      BY <1>2 DEF Begin, NoRead, laneVars, clusterVars
    <2>. QED
      BY <2>1 DEF SeenInv
  <1>3. CASE ReaderStep
    <2>1. CASE read'.at = "idle"
      <3>1. read' = NoRead
        BY <1>3, <2>1 DEF ReaderStep, ProbeNode, NodesDone, ReadFails, ScanRecipe,
           ReadHealth, ReadModel, Answer, Typed, ReadTypes, ReadType
      <3>. QED
        BY <2>1, <3>1 DEF SeenInv, NoRead
    <2>. QED
      BY <1>3, <2>1, ReaderMoves, SeenReader
  <1>4. CASE LaneStep
    <2>1. read' = read
      BY <1>4 DEF LaneStep
    <2>2. CASE read.at = "idle"
      BY <2>1, <2>2 DEF SeenInv
    <2>3. CASE read.at # "idle"
      <3>1. seen' = seen \cup ready'
        BY <1>4, <2>3 DEF LaneStep
      <3>. QED
        BY <2>1, <3>1 DEF SeenInv, Served
    <2>. QED
      BY <2>2, <2>3
  <1>. QED
    BY <1>1, <1>2, <1>3, <1>4 DEF DashboardNext

LEMMA SeenHolds == DashboardSpec => []SeenInv
  <1>1. ASSUME DashboardInit PROVE SeenInv
    <2>1. read.at = "idle" /\ read.model = ""
      BY <1>1 DEF DashboardInit, NoRead
    <2>. QED
      BY <2>1 DEF SeenInv
  <1>. QED
    BY <1>1, SeenInductive, TypesHold, PTL DEF DashboardSpec

LEMMA AnswerServed ==
  ASSUME Typed, SeenInv, [DashboardNext]_vars, Answers, view'.model # ""
  PROVE  view'.active \in RecipeIds /\ Served(view'.active, view'.model)
  <1>1. Answer /\ read.at = "job"
    BY AnswersIsAnswer DEF Answers
  <1>2. view'.model = read.model /\ view'.active = read.active
    BY <1>1 DEF Answer, ViewModel, StatusRead
  <1>. QED
    BY <1>1, <1>2 DEF SeenInv

\* A view that names a model names a recipe that serves under that name, and a
\* recipe that serves under it was serving at some time of the read: for any
\* registry, also where one model is configured on several nodes.
THEOREM ModelIsTruthful ==
  DashboardSpec =>
    [][ Answers /\ view'.model # "" => Served(view'.active, view'.model) ]_vars
  <1>1. Typed /\ SeenInv /\ [DashboardNext]_vars =>
          [ Answers /\ view'.model # "" => Served(view'.active, view'.model) ]_vars
    BY AnswerServed
  <1>. QED
    BY <1>1, SeenHolds, TypesHold, PTL DEF DashboardSpec

\* No two recipes serve under one name.
OneModelEach ==
  \A i, k \in DOMAIN Registry :
    Registry[i].served_model = Registry[k].served_model => i = k

LEMMA MatchIsServing ==
  ASSUME OneModelEach, NEW id \in RecipeIds, NEW d \in RecipeIds
  PROVE  MatchServedModel(id, RecipeOf(d).served_model) = d
  <1>. DEFINE model == RecipeOf(d).served_model
              serving == { i \in DOMAIN Registry : Registry[i].served_model = model }
  <1>1. PICK n \in DOMAIN Registry : RecipeOf(d) = Registry[n] /\ Registry[n].id = d
    BY EntryOf
  <1>2. serving = {n}
    BY <1>1 DEF OneModelEach
  <1>3. n \in Nat
    BY Bounds
  <1>4. (CHOOSE i \in serving : \A k \in serving : i <= k) = n
    BY <1>2, <1>3
  <1>. QED
    BY <1>1, <1>2, <1>4 DEF MatchServedModel

\* Where no two recipes serve under one name, the recipe that is named is the one
\* that was serving.
THEOREM RunningIsTruthful ==
  ASSUME OneModelEach PROVE DashboardSpec => RunningTruthful
  <1>1. ASSUME Typed, NEW id \in RecipeIds, NEW model, Served(id, model)
        PROVE  id \in seen
    <2>1. PICK d \in seen : RecipeOf(d).served_model = RecipeOf(id).served_model
      BY <1>1 DEF Served
    <2>2. d \in RecipeIds
      BY <1>1 DEF Typed, ReadTypes
    <2>3. d = id
      BY <2>1, <2>2, EntryOf DEF OneModelEach
    <2>. QED
      BY <2>3
  <1>2. Typed /\ SeenInv /\ [DashboardNext]_vars =>
          [ Answers /\ view'.state = "running" /\ view'.model # ""
              => view'.active \in seen ]_vars
    BY <1>1, AnswerServed
  <1>. QED
    BY <1>2, SeenHolds, TypesHold, PTL DEF DashboardSpec, RunningTruthful

-----------------------------------------------------------------------------
(* The peace of the lane *)

\* What is up is at peace, with the start in flight too.
AtPeace == Peace /\ (Busy /\ last.op = "start" => up \cap Conflicting(last.recipe) = {})

LEMMA PeaceInductive ==
  ASSUME OwnMarks, LaneTypes, AtPeace, Next PROVE AtPeace'
  <1>0. up \subseteq RecipeIds
    BY DEF LaneTypes
  <1>1. ASSUME NEW op \in {"start", "stop"}, NEW id \in RecipeIds, Accept(op, id)
        PROVE  AtPeace'
    BY <1>1 DEF Accept, AtPeace, Peace, clusterVars
  <1>2. ASSUME UNCHANGED last, up' \subseteq up PROVE AtPeace'
    BY <1>2 DEF AtPeace, Peace, Busy
  <1>3. CASE Acts
    <2>1. last.recipe \in RecipeIds
      BY <1>3 DEF Acts, LaneTypes, OpType, NoOp, Busy
    <2>2. CASE last.op = "start" /\ BringUp(last.recipe)
      <3>1. Peace' /\ up' \cap Conflicting(last.recipe) = {}
        BY <1>0, <1>3, <2>1, <2>2, BringUpKeepsPeace DEF Acts, AtPeace
      <3>. QED
        BY <1>3, <3>1 DEF Acts, AtPeace, Busy
    <2>3. CASE last.op = "stop" /\ TakeDown(last.recipe)
      BY <1>2, <1>3, <2>3 DEF Acts, TakeDown
    <2>. QED
      BY <1>3, <2>2, <2>3 DEF Acts
  <1>4. ASSUME NEW verdict \in {"done", "failed"}, Finishes(verdict) PROVE AtPeace'
    <2>1. last' = [ last EXCEPT !.state = verdict ] /\ up' = up
      BY <1>4 DEF Finishes, clusterVars
    <2>2. last \in OpType \ {NoOp}
      BY <1>4 DEF Finishes, LaneTypes, OpType, NoOp, Busy
    <2>3. last'.state = verdict
      BY <2>1, <2>2 DEF OpType
    <2>. QED
      BY <2>1, <2>3 DEF AtPeace, Peace, Busy
  <1>5. CASE Drifts
    <2>1. PICK id \in RecipeIds : Loads(id) \/ Dies(id) \/ Falters(id) \/ Recovers(id)
      BY <1>5 DEF Drifts, NodesMove
    <2>. QED
      BY <1>2, <1>5, <2>1 DEF Drifts, Loads, Dies, Falters, Recovers
  <1>. QED
    BY <1>1, <1>3, <1>4, <1>5 DEF Next

\* What Lane promises is enough: operations one at a time, and starts only onto
\* what fights nobody up, keep every two that fight for a lane apart, for any
\* number of recipes and lanes, whatever dies, falters or fails.
THEOREM LaneKeepsPeace ==
  ASSUME OwnMarks PROVE Spec => []Peace
  <1>1. Init => LaneTypes /\ AtPeace
    <2>. SUFFICES ASSUME Init PROVE LaneTypes /\ AtPeace
      OBVIOUS
    <2>1. LaneTypes
      BY DEF Init, ClusterInit, LaneTypes, OpType
    <2>2. Peace /\ last.op = "none"
      BY PeaceAtFirst DEF Init, NoOp
    <2>. QED
      BY <2>1, <2>2 DEF AtPeace
  <1>2. LaneTypes /\ AtPeace /\ [Next]_laneVars => (LaneTypes /\ AtPeace)'
    <2>1. ASSUME LaneTypes, AtPeace, UNCHANGED laneVars PROVE (LaneTypes /\ AtPeace)'
      BY <2>1 DEF laneVars, clusterVars, LaneTypes, AtPeace, Peace, Busy
    <2>. QED
      BY <2>1, LaneStepTyped, PeaceInductive
  <1>3. AtPeace => Peace
    BY DEF AtPeace
  <1>. QED
    BY <1>1, <1>2, <1>3, PTL DEF Spec

-----------------------------------------------------------------------------
(* The locks of a quiet read *)

\* The first recipe that is detected is the holder; nobody is if none is.
LEMMA HolderIs ==
  /\ (\A i \in DOMAIN Registry : ~Detected(Registry[i].id)) => HolderNow = NoRecipe
  /\ \A n \in DOMAIN Registry :
       Detected(Registry[n].id) /\ (\A k \in 1..(n - 1) : ~Detected(Registry[k].id))
         => HolderNow = Registry[n].id
  <1>1. ASSUME \A i \in DOMAIN Registry : ~Detected(Registry[i].id)
        PROVE  HolderNow = NoRecipe
    BY <1>1 DEF HolderNow
  <1>2. ASSUME NEW n \in DOMAIN Registry, Detected(Registry[n].id),
               \A k \in 1..(n - 1) : ~Detected(Registry[k].id)
        PROVE  HolderNow = Registry[n].id
    <2>. DEFINE First(i) == /\ Detected(Registry[i].id)
                            /\ \A k \in 1..(i - 1) : ~Detected(Registry[k].id)
    <2>1. \A i \in DOMAIN Registry : First(i) => i = n
      <3>. SUFFICES ASSUME NEW i \in DOMAIN Registry, First(i), i # n PROVE FALSE
        OBVIOUS
      <3>1. i < n \/ n < i
        BY Bounds
      <3>2. i < n => i \in 1..(n - 1)
        BY Bounds
      <3>3. n < i => n \in 1..(i - 1)
        BY Bounds
      <3>. QED
        BY <1>2, <3>1, <3>2, <3>3
    <2>2. First(n)
      BY <1>2
    <2>3. n = CHOOSE i \in DOMAIN Registry : First(i)
      BY <2>1, <2>2
    <2>. QED
      BY <1>2, <2>3 DEF HolderNow
  <1>. QED
    BY <1>1, <1>2

\* While nothing changed on the nodes, what the read found is what _start
\* would find.
StillInv ==
  still =>
    /\ read.at \in {"nodes", "scan"} => read.active = NoRecipe
    /\ read.at = "scan" => \A i \in 1..(read.scan - 1) : ~Detected(Registry[i].id)
    /\ read.at \in {"health", "model", "job"} /\ read.active # NoRecipe
         => read.active = HolderNow /\ Detected(read.active)
    /\ read.at = "job" /\ ~read.failed /\ read.active = NoRecipe => HolderNow = NoRecipe

\* The nodes answer as they did while nothing changed on them.
LEMMA SameProbes ==
  ASSUME UNCHANGED clusterVars
  PROVE  HolderNow' = HolderNow /\ \A id : Detected(id)' = Detected(id)
  <1>1. \A id : Listed(id)' = Listed(id)
    BY DEF Listed, clusterVars
  <1>2. \A id : ContainerState(id)' = ContainerState(id)
    BY <1>1 DEF ContainerState, clusterVars
  <1>3. \A id : Detected(id)' = Detected(id)
    BY <1>2 DEF Detected
  <1>4. HolderNow' = HolderNow
    BY SMT DEF HolderNow, Detected, ContainerState, Listed, clusterVars
  <1>. QED
    BY <1>3, <1>4

LEMMA StillReader ==
  ASSUME OwnMarks, OwnEndpoints, OneModelEach, Typed, AtPeace, StillInv, Reads, Moves
  PROVE  StillInv'
  <1>. SUFFICES ASSUME still PROVE StillInv'
    BY DEF Reads, StillInv
  <1>0. /\ UNCHANGED still /\ HolderNow' = HolderNow
        /\ \A id : Detected(id)' = Detected(id)
        /\ up \subseteq RecipeIds /\ ready \subseteq up
    BY SameProbes DEF Reads, laneVars, Typed, LaneTypes
  <1>. HIDE DEF Detected, HolderNow
  <1>1. CASE read.at = "nodes" /\ read'.at = "nodes" /\ SameFinding
    BY <1>0, <1>1 DEF StillInv, SameFinding
  <1>2. CASE StartsScan
    BY <1>0, <1>2 DEF StillInv, StartsScan, SameFinding
  <1>3. CASE NothingToScan
    <2>1. HolderNow = NoRecipe
      BY <1>3, HolderIs DEF NothingToScan
    <2>. QED
      BY <1>0, <1>3, <2>1 DEF StillInv, NothingToScan, SameFinding
  <1>4. CASE Misses
    <2>1. read.scan \in 1..Len(Registry) /\ DOMAIN Registry = 1..Len(Registry)
          /\ Len(Registry) \in Nat
      BY <1>4, Bounds DEF Misses, Typed, ReadTypes
    <2>2. \A i \in 1..read.scan : ~Detected(Registry[i].id)
      <3>1. \A i \in 1..(read.scan - 1) : ~Detected(Registry[i].id)
        BY <1>4 DEF Misses, StillInv
      <3>2. \A i \in 1..read.scan : i = read.scan \/ i \in 1..(read.scan - 1)
        BY <2>1
      <3>. QED
        BY <1>4, <3>1, <3>2 DEF Misses
    <2>3. read'.active = NoRecipe
      BY <1>4 DEF Misses, StillInv, SameFinding
    <2>4. CASE read'.at = "scan" /\ read'.scan = read.scan + 1
      <3>1. read'.scan - 1 = read.scan
        BY <2>1, <2>4
      <3>. QED
        BY <1>0, <2>2, <2>3, <2>4, <3>1 DEF StillInv
    <2>5. CASE read'.at = "job" /\ read.scan = Len(Registry)
      <3>1. HolderNow = NoRecipe
        BY <2>1, <2>2, <2>5, HolderIs
      <3>. QED
        BY <1>0, <2>3, <2>5, <3>1 DEF StillInv
    <2>. QED
      BY <1>4, <2>4, <2>5 DEF Misses
  <1>5. CASE GivesUp
    BY <1>0, <1>5 DEF StillInv, GivesUp
  <1>6. CASE Finds
    <2>1. read.scan \in DOMAIN Registry
      BY <1>6 DEF Finds, Typed, ReadTypes
    <2>2. \A k \in 1..(read.scan - 1) : ~Detected(Registry[k].id)
      BY <1>6 DEF Finds, StillInv
    <2>3. read'.active = HolderNow /\ Detected(read'.active)
      BY <1>6, <2>1, <2>2, HolderIs DEF Finds
    <2>. QED
      BY <1>0, <1>6, <2>3 DEF StillInv, Finds
  <1>7. CASE AsksOn
    <2>1. read.active \in RecipeIds /\ read.active # NoRecipe
      BY <1>7, DashboardAssumption DEF AsksOn, Typed, ReadTypes
    <2>. QED
      BY <1>0, <1>7, <2>1 DEF StillInv, AsksOn, SameFinding
  <1>8. CASE Matches
    <2>. SUFFICES ASSUME NEW d \in ready, Endpoint(d) = Endpoint(read.active),
                         read'.active = MatchServedModel(read.active, RecipeOf(d).served_model)
                  PROVE  StillInv'
      BY <1>8 DEF Matches
    <2>1. read.active \in RecipeIds /\ d \in RecipeIds /\ d \in up /\ read.active # NoRecipe
      BY <1>0, <1>8, DashboardAssumption DEF Matches, Typed, ReadTypes
    <2>2. read.active = HolderNow /\ Detected(read.active)
      BY <1>8, <2>1 DEF Matches, StillInv
    <2>3. up \cap Conflicting(read.active) = {}
      BY <1>0, <2>1, <2>2, OwnProbes DEF AtPeace, Peace
    <2>4. d = read.active
      BY <1>0, <2>1, <2>3, OwnAnswer
    <2>5. read'.active = read.active
      BY <2>1, <2>4, MatchIsServing
    <2>. QED
      BY <1>0, <1>8, <2>1, <2>2, <2>5 DEF StillInv, Matches
  <1>. QED
    BY <1>1, <1>2, <1>3, <1>4, <1>5, <1>6, <1>7, <1>8 DEF Moves

LEMMA QuietInductive ==
  ASSUME OwnMarks, OwnEndpoints, OneModelEach
  PROVE  Typed /\ AtPeace /\ StillInv /\ [DashboardNext]_vars => (AtPeace /\ StillInv)'
  <1>. SUFFICES ASSUME Typed, AtPeace, StillInv, DashboardNext \/ UNCHANGED vars
                PROVE  AtPeace' /\ StillInv'
    OBVIOUS
  <1>0. ASSUME UNCHANGED laneVars PROVE AtPeace'
    BY <1>0 DEF laneVars, clusterVars, AtPeace, Peace, Busy
  <1>. HIDE DEF AtPeace
  <1>1. ASSUME UNCHANGED << read, clusterVars >>, still' => still PROVE StillInv'
    BY <1>1, SameProbes DEF StillInv
  <1>2. CASE UNCHANGED vars
    BY <1>0, <1>1, <1>2 DEF vars, laneVars, readVars
  <1>3. ASSUME NEW follow \in 0..last.id, Begin(follow) PROVE AtPeace' /\ StillInv'
    <2>1. read'.at = "nodes" /\ read'.active = NoRecipe
      BY <1>3 DEF Begin, NoRead
    <2>. QED
      BY <1>0, <1>3, <2>1 DEF StillInv, Begin
  <1>4. CASE ReaderStep
    <2>1. UNCHANGED laneVars
      BY <1>4 DEF ReaderStep, ProbeNode, NodesDone, ReadFails, ScanRecipe, ReadHealth,
         ReadModel, Answer, Reads
    <2>2. CASE read'.at = "idle"
      BY <1>0, <2>1, <2>2 DEF StillInv
    <2>. QED
      BY <1>0, <1>4, <2>1, <2>2, ReaderMoves, StillReader
  <1>5. CASE LaneStep
    <2>1. AtPeace' /\ read' = read
      BY <1>5, PeaceInductive DEF LaneStep, Typed
    <2>2. CASE read.at = "idle"
      BY <2>1, <2>2 DEF StillInv
    <2>3. CASE read.at # "idle"
      <3>1. still' => still /\ UNCHANGED clusterVars
        BY <1>5, <2>3 DEF LaneStep
      <3>2. CASE still'
        BY <1>1, <2>1, <3>1, <3>2
      <3>. QED
        BY <2>1, <3>2 DEF StillInv
    <2>. QED
      BY <2>1, <2>2, <2>3
  <1>. QED
    BY <1>2, <1>3, <1>4, <1>5 DEF DashboardNext

\* Wherever recipes share neither marks nor a free endpoint nor a model name,
\* a view read while nothing changed and no probe failed locks exactly the
\* recipes whose start would ask for confirmation: whatever fights for which
\* lane, and whatever is paused.
THEOREM LocksAreTruthful ==
  ASSUME OwnMarks, OwnEndpoints, OneModelEach PROVE DashboardSpec => LockedTruthful
  <1>1. ASSUME DashboardInit PROVE AtPeace /\ StillInv
    <2>1. read.at = "idle"
      BY <1>1 DEF DashboardInit, NoRead
    <2>2. last.op = "none"
      BY <1>1 DEF DashboardInit, Init, NoOp
    <2>3. Peace
      BY <1>1, PeaceAtFirst DEF DashboardInit, Init
    <2>. QED
      BY <2>1, <2>2, <2>3 DEF AtPeace, StillInv
  <1>2. ASSUME Typed, AtPeace, StillInv, [DashboardNext]_vars, Answers, still, ~read.failed,
               NEW id \in RecipeIds \ {view'.active}
        PROVE  id \in view'.locked <=> WouldAsk(id)
    <2>1. Answer /\ read.at = "job"
      BY <1>2, AnswersIsAnswer DEF Answers
    <2>2. /\ view'.active = read.active
          /\ view'.locked = { r \in RecipeIds : Locked(r, read.active) }
      BY <2>1 DEF Answer, ViewModel, StatusRead
    <2>3. up \subseteq RecipeIds
      BY <1>2 DEF Typed, LaneTypes
    <2>4. CASE read.active = NoRecipe
      <3>1. HolderNow = NoRecipe
        BY <1>2, <2>1, <2>4 DEF StillInv
      <3>2. NoRecipe \notin Conflicting(id)
        BY DashboardAssumption DEF Conflicting
      <3>. QED
        BY <2>2, <2>4, <3>1, <3>2 DEF Locked, WouldAsk
    <2>5. CASE read.active # NoRecipe
      <3>1. HolderNow = read.active /\ Detected(read.active)
        BY <1>2, <2>1, <2>5 DEF StillInv
      <3>2. read.active \in RecipeIds
        BY <1>2, <2>5 DEF Typed, ReadTypes, ReadType
      <3>3. id \in view'.locked <=> read.active \in Conflicting(id)
        BY <2>2, <2>5, <3>2, ConflictsAreMutual DEF Locked
      <3>4. read.active \in Conflicting(id) => ~Detected(id)
        BY <1>2, <2>3, <3>1, <3>2, OwnProbes DEF AtPeace, Peace
      <3>. QED
        BY <3>1, <3>3, <3>4 DEF WouldAsk
    <2>. QED
      BY <2>4, <2>5
  <1>3. Typed /\ AtPeace /\ StillInv /\ [DashboardNext]_vars =>
          [ Answers /\ still /\ ~read.failed
              => \A id \in RecipeIds \ {view'.active} :
                   id \in view'.locked <=> WouldAsk(id) ]_vars
    BY <1>2
  <1>4. Typed /\ (AtPeace /\ StillInv) /\ [DashboardNext]_vars => (AtPeace /\ StillInv)'
    BY QuietInductive
  <1>. QED
    BY <1>1, <1>3, <1>4, TypesHold, PTL DEF DashboardSpec, LockedTruthful

=============================================================================
