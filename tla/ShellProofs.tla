---------------------------- MODULE ShellProofs ----------------------------
(***************************************************************************)
(* Proofs about Shell, for any number of recipes, of requests in flight,   *)
(* and of operations.                                                      *)
(***************************************************************************)
EXTENDS Shell, FiniteSetTheorems, TLAPS

-----------------------------------------------------------------------------
(* The inductive invariant *)

SnapshotType == [ id : 0..MaxOps, op : {"none", "start", "stop"}, busy : BOOLEAN ]
GetType == [ at : {"free", "sent", "answered"}, job : 0..MaxOps, vm : VmType ]
PostType ==
  [ at : {"free", "sent", "accepted"}, op : {"none", "start", "stop"},
    recipe : RecipeIds \cup {NoRecipe}, confirm : BOOLEAN,
    by : {"none", "main", "list", "hold", "question"}, job : 0..MaxOps ]

FetchTypes ==
  /\ lastVm \in VmType /\ drawn \in BOOLEAN
  /\ pendingAction \in RecipeIds \cup {NoRecipe} /\ jobId \in 0..MaxOps
  /\ gets \in [ Gets -> GetType ]
  /\ posts \in [ Posts -> PostType ]
  /\ \A p \in InFlightPosts : posts[p].recipe \in RecipeIds /\ posts[p].op # "none"

PressTypes ==
  /\ press \in [ FingerIds -> {"up", "off", "start", "stop"} ]
  /\ timers \subseteq FingerIds /\ pressTimer \in 0..Fingers
  /\ longFired \in BOOLEAN

GatewayTypes ==
  /\ status \in Statuses /\ op \in SnapshotType
  /\ op.busy => op.op # "none"

\* Types, the slots, and the pending action, which is of a POST in flight.
Inv ==
  /\ FetchTypes
  /\ PressTypes
  /\ GatewayTypes
  /\ RoomFor(0)
  /\ PendingTruthful

-----------------------------------------------------------------------------
(* Slots *)

LEMMA SlotsCounted ==
  ASSUME NEW S \in SUBSET Gets, NEW P \in SUBSET Posts
  PROVE  /\ IsFiniteSet(S) /\ Cardinality(S) \in Nat
         /\ IsFiniteSet(P) /\ Cardinality(P) \in Nat
         /\ Cardinality(S) >= 1 => S # {}
         /\ P # {} => Cardinality(P) >= 1
  <1>1. IsFiniteSet(S) /\ IsFiniteSet(P)
    BY ShellAssumption, FS_Subset
  <1>. QED
    BY <1>1, FS_CardinalityType, FS_EmptySet

LEMMA FreeSlots ==
  /\ FreeGets \subseteq Gets /\ InFlightPosts \subseteq Posts
  /\ Cardinality(FreeGets) \in Nat /\ Cardinality(InFlightPosts) \in Nat
  /\ \A n \in Nat \ {0} : RoomFor(n) => FirstGet \in FreeGets
  /\ RoomFor(0) /\ InFlightPosts # {} => FirstGet \in FreeGets
  <1>1. FreeGets \subseteq Gets /\ InFlightPosts \subseteq Posts
    BY DEF FreeGets, InFlightPosts
  <1>2. Cardinality(FreeGets) \in Nat /\ Cardinality(InFlightPosts) \in Nat
        /\ (Cardinality(FreeGets) >= 1 => FreeGets # {})
        /\ (InFlightPosts # {} => Cardinality(InFlightPosts) >= 1)
    BY <1>1, SlotsCounted
  <1>3. FreeGets # {} => FirstGet \in FreeGets
    BY DEF FirstGet
  <1>4. ASSUME NEW n \in Nat \ {0}, RoomFor(n) PROVE FreeGets # {}
    BY <1>2, <1>4 DEF RoomFor
  <1>5. RoomFor(0) /\ InFlightPosts # {} => FreeGets # {}
    BY <1>2 DEF RoomFor
  <1>. QED
    BY <1>1, <1>2, <1>3, <1>4, <1>5

\* A refresh takes one slot, and finds it.
LEMMA RefreshTakesSlot ==
  ASSUME FetchTypes, NEW job \in 0..MaxOps, FirstGet \in FreeGets,
         gets' = WithRefresh(job)
  PROVE  /\ gets' \in [ Gets -> GetType ]
         /\ Cardinality(FreeGets') = Cardinality(FreeGets) - 1
  <1>. DEFINE sent == [ NoGet EXCEPT !.at = "sent", !.job = job ]
  <1>1. FirstGet \in Gets /\ gets[FirstGet].at = "free"
    BY DEF FreeGets
  <1>2. NoVm \in VmType
    <2>1. NoJob \in [ id : 0..MaxOps, op : {"none", "start", "stop"}, busy : BOOLEAN ]
      BY ShellAssumption DEF NoJob
    <2>. QED
      BY <2>1 DEF NoVm, VmType
  <1>3. sent \in GetType /\ sent.at = "sent"
    BY <1>2 DEF NoGet, GetType
  <1>. HIDE DEF sent
  <1>4. gets' = [ gets EXCEPT ![FirstGet] = sent ]
    BY DEF WithRefresh, sent
  <1>5. gets' \in [ Gets -> GetType ]
    BY <1>1, <1>3, <1>4 DEF FetchTypes
  <1>6. FreeGets' = FreeGets \ {FirstGet}
    <2>1. gets'[FirstGet].at = "sent" /\ \A g \in Gets \ {FirstGet} : gets'[g] = gets[g]
      BY <1>1, <1>3, <1>4 DEF FetchTypes
    <2>. QED
      BY <2>1 DEF FreeGets
  <1>7. Cardinality(FreeGets \ {FirstGet}) = Cardinality(FreeGets) - 1
    <2>1. IsFiniteSet(FreeGets)
      BY SlotsCounted DEF FreeGets
    <2>. QED
      BY <2>1, FS_RemoveElement
  <1>. QED
    BY <1>5, <1>6, <1>7

\* An answer that is used, or lost, frees its slot.
LEMMA AnswerFreesSlot ==
  ASSUME FetchTypes, NEW g \in Gets, gets' = [ gets EXCEPT ![g] = NoGet ]
  PROVE  /\ gets' \in [ Gets -> GetType ]
         /\ Cardinality(FreeGets') >= Cardinality(FreeGets)
  <1>1. NoVm \in VmType
    <2>1. NoJob \in [ id : 0..MaxOps, op : {"none", "start", "stop"}, busy : BOOLEAN ]
      BY ShellAssumption DEF NoJob
    <2>. QED
      BY <2>1 DEF NoVm, VmType
  <1>2. NoGet \in GetType /\ NoGet.at = "free"
    BY <1>1, ShellAssumption DEF NoGet, GetType
  <1>3. gets' \in [ Gets -> GetType ]
    BY <1>2 DEF FetchTypes
  <1>4. FreeGets' = FreeGets \cup {g}
    <2>1. gets'[g].at = "free" /\ \A h \in Gets \ {g} : gets'[h] = gets[h]
      BY <1>2 DEF FetchTypes
    <2>. QED
      BY <2>1 DEF FreeGets
  <1>5. IsFiniteSet(FreeGets) /\ Cardinality(FreeGets) \in Nat
    BY SlotsCounted DEF FreeGets
  <1>6. Cardinality(FreeGets \cup {g}) >= Cardinality(FreeGets)
    <2>1. Cardinality(FreeGets \cup {g}) =
            IF g \in FreeGets THEN Cardinality(FreeGets) ELSE Cardinality(FreeGets) + 1
      BY <1>5, FS_AddElement
    <2>. QED
      BY <1>5, <2>1
  <1>. QED
    BY <1>3, <1>4, <1>6

\* The POST whose answer is there makes room for its refresh.
LEMMA PostLeaves ==
  ASSUME FetchTypes, NEW p \in InFlightPosts, posts' = [ posts EXCEPT ![p] = NoPost ]
  PROVE  /\ posts' \in [ Posts -> PostType ]
         /\ \A q \in InFlightPosts' : posts'[q].recipe \in RecipeIds /\ posts'[q].op # "none"
         /\ Cardinality(InFlightPosts') = Cardinality(InFlightPosts) - 1
  <1>1. p \in Posts
    BY DEF InFlightPosts
  <1>2. NoPost \in PostType /\ NoPost.at = "free"
    BY ShellAssumption DEF NoPost, PostType
  <1>3. posts' \in [ Posts -> PostType ]
    BY <1>2 DEF FetchTypes
  <1>4. posts'[p].at = "free" /\ \A q \in Posts \ {p} : posts'[q] = posts[q]
    BY <1>1, <1>2 DEF FetchTypes
  <1>5. InFlightPosts' = InFlightPosts \ {p}
    BY <1>1, <1>4 DEF InFlightPosts, FreePosts
  <1>6. \A q \in InFlightPosts' : posts'[q].recipe \in RecipeIds /\ posts'[q].op # "none"
    BY <1>4, <1>5 DEF FetchTypes, InFlightPosts
  <1>7. IsFiniteSet(InFlightPosts)
    BY SlotsCounted DEF InFlightPosts
  <1>8. Cardinality(InFlightPosts \ {p}) = Cardinality(InFlightPosts) - 1
    BY <1>7, FS_RemoveElement
  <1>. QED
    BY <1>3, <1>5, <1>6, <1>8

\* A POST goes on in its slot.
LEMMA PostStays ==
  ASSUME FetchTypes, NEW p \in InFlightPosts, NEW new \in PostType,
         new.at # "free", new.recipe = posts[p].recipe, new.op = posts[p].op,
         posts' = [ posts EXCEPT ![p] = new ]
  PROVE  /\ posts' \in [ Posts -> PostType ]
         /\ InFlightPosts' = InFlightPosts
         /\ \A q \in InFlightPosts :
              posts'[q].recipe = posts[q].recipe /\ posts'[q].op = posts[q].op
  <1>1. p \in Posts
    BY DEF InFlightPosts
  <1>2. posts' \in [ Posts -> PostType ]
    BY DEF FetchTypes
  <1>3. posts'[p] = new /\ \A q \in Posts \ {p} : posts'[q] = posts[q]
    BY <1>1 DEF FetchTypes
  <1>4. InFlightPosts' = InFlightPosts
    BY <1>1, <1>3 DEF InFlightPosts, FreePosts
  <1>5. \A q \in InFlightPosts :
          posts'[q].recipe = posts[q].recipe /\ posts'[q].op = posts[q].op
    BY <1>3 DEF InFlightPosts
  <1>. QED
    BY <1>2, <1>4, <1>5

-----------------------------------------------------------------------------
(* Refreshing *)

\* What a refresh brings has the shape of a view.
LEMMA ViewTyped ==
  ASSUME GatewayTypes, NEW id \in 0..MaxOps
  PROVE  ViewModel(status, Snapshot(id)) \in VmType
  <1>1. Snapshot(id) \in SnapshotType /\ (Snapshot(id).busy => Snapshot(id).op # "none")
    <2>1. NoJob \in SnapshotType /\ ~NoJob.busy
      BY ShellAssumption DEF NoJob, SnapshotType
    <2>2. [ NoJob EXCEPT !.id = id ] \in SnapshotType /\ ~[ NoJob EXCEPT !.id = id ].busy
      BY <2>1 DEF SnapshotType
    <2>3. CASE id = 0
      BY <2>1, <2>3 DEF GatewayTypes, Snapshot
    <2>4. CASE id # 0 /\ id = op.id
      BY <2>4 DEF GatewayTypes, Snapshot
    <2>5. CASE id # 0 /\ id # op.id
      <3>1. Snapshot(id) = [ NoJob EXCEPT !.id = id ]
        BY <2>5 DEF Snapshot
      <3>. QED
        BY <2>2, <3>1
    <2>. QED
      BY <2>3, <2>4, <2>5
  <1>2. /\ status.state \in {"running", "stopped", "starting", "unreachable"}
        /\ status.active \in RecipeIds \cup {NoRecipe}
    BY ShellAssumption DEF GatewayTypes
  <1>3. ASSUME NEW job \in SnapshotType, job.busy => job.op # "none"
        PROVE  ShownState(status.state, job) \in
                 {"running", "stopped", "starting", "stopping", "unreachable"}
    <2>1. CASE ~job.busy
      BY <1>2, <2>1 DEF ShownState
    <2>2. CASE job.busy /\ job.op = "start"
      BY <2>2 DEF ShownState
    <2>3. CASE job.busy /\ job.op = "stop"
      BY <2>3 DEF ShownState
    <2>. QED
      BY <1>3, <2>1, <2>2, <2>3 DEF SnapshotType
  <1>. QED
    BY <1>1, <1>2, <1>3 DEF ViewModel, VmType, SnapshotType

LEMMA IntervalInv == Inv /\ Interval => Inv'
  <1>. SUFFICES ASSUME Inv, Interval PROVE Inv'
    OBVIOUS
  <1>1. FirstGet \in FreeGets
    BY FreeSlots DEF Interval
  <1>2. gets' \in [ Gets -> GetType ] /\ Cardinality(FreeGets') = Cardinality(FreeGets) - 1
    BY <1>1, RefreshTakesSlot DEF Interval, Inv, FetchTypes
  <1>3. posts' = posts /\ InFlightPosts' = InFlightPosts
    BY DEF Interval, InFlightPosts, FreePosts
  <1>4. RoomFor(0)'
    BY <1>2, <1>3, FreeSlots DEF Interval, RoomFor
  <1>. QED
    BY <1>2, <1>3, <1>4
    DEF Interval, Inv, FetchTypes, PressTypes, GatewayTypes, PendingTruthful,
        shownVars, pressVars, gatewayVars

LEMMA GetInv == \A g \in Gets : Inv /\ GetStep(g) => Inv'
  <1>. SUFFICES ASSUME NEW g \in Gets, Inv, GetStep(g) PROVE Inv'
    OBVIOUS
  <1>1. /\ posts' = posts /\ InFlightPosts' = InFlightPosts
        /\ UNCHANGED << pendingAction, pressVars, gatewayVars >>
    BY DEF GetStep, AnswerGet, DeliverGet, GetFails, InFlightPosts, FreePosts
  <1>2. PressTypes' /\ GatewayTypes' /\ PendingTruthful'
    BY <1>1 DEF Inv, PressTypes, GatewayTypes, PendingTruthful, pressVars, gatewayVars
  <1>3. CASE AnswerGet(g)
    <2>. DEFINE new == [ gets[g] EXCEPT !.at = "answered",
                           !.vm = ViewModel(status, Snapshot(gets[g].job)) ]
    <2>1. gets[g] \in GetType /\ gets[g].at = "sent"
      BY <1>3 DEF Inv, FetchTypes, AnswerGet
    <2>2. ViewModel(status, Snapshot(gets[g].job)) \in VmType
      BY <2>1, ViewTyped DEF Inv, GetType
    <2>3. new \in GetType /\ new.at = "answered"
      BY <2>1, <2>2 DEF GetType
    <2>4. gets' = [ gets EXCEPT ![g] = new ]
      BY <1>3, <2>1 DEF AnswerGet, GetType
    <2>. HIDE DEF new
    <2>5. gets' \in [ Gets -> GetType ]
      BY <2>3, <2>4 DEF Inv, FetchTypes
    <2>6. FreeGets' = FreeGets
      BY <2>1, <2>3, <2>4 DEF Inv, FetchTypes, FreeGets
    <2>. QED
      BY <1>1, <1>2, <1>3, <2>5, <2>6
      DEF AnswerGet, Inv, FetchTypes, RoomFor, shownVars
  <1>4. ASSUME gets' = [ gets EXCEPT ![g] = NoGet ]
        PROVE  gets' \in [ Gets -> GetType ] /\ RoomFor(0)'
    <2>1. gets' \in [ Gets -> GetType ] /\ Cardinality(FreeGets') >= Cardinality(FreeGets)
      BY <1>4, AnswerFreesSlot DEF Inv
    <2>2. Cardinality(FreeGets') \in Nat
      BY SlotsCounted DEF FreeGets
    <2>. QED
      BY <1>1, <2>1, <2>2, FreeSlots DEF Inv, RoomFor
  <1>5. CASE DeliverGet(g)
    <2>1. gets[g].vm \in VmType
      BY DEF Inv, FetchTypes, GetType
    <2>. QED
      BY <1>1, <1>2, <1>4, <1>5, <2>1, ShellAssumption DEF DeliverGet, Inv, FetchTypes
  <1>6. CASE GetFails(g)
    BY <1>1, <1>2, <1>4, <1>6 DEF GetFails, Inv, FetchTypes, shownVars
  <1>. QED
    BY <1>3, <1>5, <1>6 DEF GetStep

-----------------------------------------------------------------------------
(* Starting and stopping *)

\* A POST leaves the shell: what comes of it for the fetches.
LEMMA SendInv ==
  ASSUME Inv, NEW what \in {"start", "stop"}, NEW id \in RecipeIds,
         NEW by \in {"main", "list", "hold"}, Send(what, id, by),
         UNCHANGED shownVars
  PROVE  FetchTypes' /\ RoomFor(0)' /\ PendingTruthful'
  <1>. DEFINE p == CHOOSE q \in FreePosts : TRUE
              new == [ NoPost EXCEPT !.at = "sent", !.op = what, !.recipe = id, !.by = by ]
  <1>1. p \in FreePosts /\ p \in Posts
    BY DEF Send, FreePosts
  <1>2. new \in PostType /\ new.at = "sent" /\ new.recipe = id /\ new.op # "none"
    <2>1. NoPost \in PostType
      BY ShellAssumption DEF NoPost, PostType
    <2>. QED
      BY <2>1 DEF PostType
  <1>3. posts' = [ posts EXCEPT ![p] = new ] /\ pendingAction' = id
        /\ UNCHANGED << jobId, gets >>
    BY DEF Send
  <1>. HIDE DEF p, new
  <1>4. posts' \in [ Posts -> PostType ] /\ posts'[p] = new
        /\ \A q \in Posts \ {p} : posts'[q] = posts[q]
    BY <1>1, <1>2, <1>3 DEF Inv, FetchTypes
  <1>5. InFlightPosts' = InFlightPosts \cup {p} /\ p \notin InFlightPosts
    BY <1>1, <1>2, <1>4 DEF InFlightPosts, FreePosts
  <1>6. Cardinality(InFlightPosts \cup {p}) = Cardinality(InFlightPosts) + 1
    <2>1. IsFiniteSet(InFlightPosts)
      BY SlotsCounted DEF InFlightPosts
    <2>. QED
      BY <1>5, <2>1, FS_AddElement
  <1>7. \A q \in InFlightPosts' : posts'[q].recipe \in RecipeIds /\ posts'[q].op # "none"
    BY <1>2, <1>4, <1>5 DEF Inv, FetchTypes, InFlightPosts
  <1>8. FreeGets' = FreeGets
    BY <1>3 DEF FreeGets
  <1>9. RoomFor(0)'
    BY <1>5, <1>6, <1>8, FreeSlots DEF Send, RoomFor
  <1>10. PendingTruthful'
    BY <1>2, <1>3, <1>4, <1>5 DEF PendingTruthful
  <1>. QED
    BY <1>3, <1>4, <1>7, <1>9, <1>10 DEF Inv, FetchTypes, shownVars

\* The fetches as they were.
LEMMA NoSend ==
  ASSUME Inv, UNCHANGED << fetchVars, shownVars >>
  PROVE  FetchTypes' /\ RoomFor(0)' /\ PendingTruthful'
  <1>1. FreeGets' = FreeGets /\ InFlightPosts' = InFlightPosts
    BY DEF fetchVars, FreeGets, InFlightPosts, FreePosts
  <1>. QED
    BY <1>1 DEF Inv, fetchVars, shownVars, FetchTypes, RoomFor, PendingTruthful

LEMMA StartInv ==
  ASSUME Inv, NEW id \in RecipeIds, NEW by \in {"main", "list"}, DoStart(id, by),
         UNCHANGED shownVars
  PROVE  FetchTypes' /\ RoomFor(0)' /\ PendingTruthful'
  BY SendInv, NoSend DEF DoStart

LEMMA StopInv ==
  ASSUME Inv, DoStop, UNCHANGED shownVars
  PROVE  FetchTypes' /\ RoomFor(0)' /\ PendingTruthful'
  <1>1. lastVm.active # NoRecipe => lastVm.active \in RecipeIds
    BY DEF Inv, FetchTypes, VmType
  <1>. QED
    BY <1>1, SendInv, NoSend DEF DoStop

LEMMA CancelInv ==
  ASSUME Inv, Cancel, UNCHANGED shownVars
  PROVE  /\ FetchTypes' /\ RoomFor(0)' /\ PendingTruthful'
         /\ timers' \subseteq FingerIds /\ pressTimer' \in 0..Fingers
         /\ longFired' \in BOOLEAN
  <1>1. FetchTypes' /\ RoomFor(0)' /\ PendingTruthful'
    BY StartInv, NoSend, ShellAssumption DEF Cancel
  <1>2. timers' \subseteq FingerIds /\ pressTimer' \in 0..Fingers /\ longFired' \in BOOLEAN
    BY ShellAssumption DEF Cancel, Inv, PressTypes
  <1>. QED
    BY <1>1, <1>2

LEMMA PressInv ==
  \A f \in FingerIds :
    Inv /\ (PointerDown(f) \/ PointerUp(f) \/ TimerFires(f)) => Inv'
  <1>. SUFFICES ASSUME NEW f \in FingerIds, Inv,
                       PointerDown(f) \/ PointerUp(f) \/ TimerFires(f)
                PROVE  Inv'
    OBVIOUS
  <1>1. UNCHANGED << shownVars, gatewayVars >> /\ GatewayTypes'
    BY DEF PointerDown, PointerUp, TimerFires, pressFrame, Inv, GatewayTypes, gatewayVars
  <1>2. CASE PointerDown(f)
    <2>1. f \in 0..Fingers
      BY DEF FingerIds
    <2>2. ASSUME NEW what \in {"off", "start", "stop"}, press' = [ press EXCEPT ![f] = what ]
          PROVE  press' \in [ FingerIds -> {"up", "off", "start", "stop"} ]
      BY <2>2 DEF Inv, PressTypes
    <2>3. press' \in [ FingerIds -> {"up", "off", "start", "stop"} ]
      BY <1>2, <2>2 DEF PointerDown
    <2>4. timers' \in {timers, timers \cup {f}} /\ pressTimer' \in {pressTimer, f}
          /\ longFired' \in {longFired, FALSE}
      BY <1>2 DEF PointerDown
    <2>5. PressTypes'
      BY <2>1, <2>3, <2>4 DEF Inv, PressTypes
    <2>6. FetchTypes' /\ RoomFor(0)' /\ PendingTruthful'
      BY <1>1, <1>2, NoSend DEF PointerDown
    <2>. QED
      BY <1>1, <2>5, <2>6 DEF Inv
  <1>3. CASE PointerUp(f)
    <2>1. press' \in [ FingerIds -> {"up", "off", "start", "stop"} ]
      BY <1>3 DEF PointerUp, Inv, PressTypes
    <2>. QED
      BY <1>1, <1>3, <2>1, CancelInv DEF PointerUp, Inv, PressTypes
  <1>4. CASE TimerFires(f)
    <2>1. PressTypes'
      BY <1>4 DEF TimerFires, Inv, PressTypes
    <2>. QED
      BY <1>1, <1>4, <2>1, StopInv DEF TimerFires, Inv
  <1>. QED
    BY <1>2, <1>3, <1>4

LEMMA LeaveInv == Inv /\ PointerLeaves => Inv'
  <1>. SUFFICES ASSUME Inv, PointerLeaves PROVE Inv'
    OBVIOUS
  <1>1. UNCHANGED << press, shownVars, gatewayVars >> /\ Cancel
    BY DEF PointerLeaves, pressFrame
  <1>. QED
    BY <1>1, CancelInv DEF Inv, PressTypes, GatewayTypes, gatewayVars

LEMMA TapInv == \A id \in RecipeIds : Inv /\ TapRecipe(id) => Inv'
  <1>. SUFFICES ASSUME NEW id \in RecipeIds, Inv, TapRecipe(id) PROVE Inv'
    OBVIOUS
  <1>1. UNCHANGED << pressVars, shownVars, gatewayVars >> /\ DoStart(id, "list")
    BY DEF TapRecipe, pressFrame
  <1>. QED
    BY <1>1, StartInv DEF Inv, PressTypes, GatewayTypes, gatewayVars, pressVars

-----------------------------------------------------------------------------
(* Answers to a POST, and the gateway *)

\* The finally clause, when the POST has left or goes on as the second call.
LEMMA FinallyInv ==
  ASSUME Inv, NEW follow \in 0..MaxOps, FirstGet \in FreeGets, Finally(follow),
         posts' \in [ Posts -> PostType ],
         \A q \in InFlightPosts' : posts'[q].recipe \in RecipeIds /\ posts'[q].op # "none",
         Cardinality(InFlightPosts') \in Nat,
         Cardinality(InFlightPosts') + 1 <= Cardinality(FreeGets),
         UNCHANGED postFrame
  PROVE  Inv'
  <1>1. gets' \in [ Gets -> GetType ] /\ Cardinality(FreeGets') = Cardinality(FreeGets) - 1
    BY RefreshTakesSlot DEF Finally, Inv
  <1>2. RoomFor(0)'
    BY <1>1, FreeSlots DEF RoomFor
  <1>3. FetchTypes'
    BY <1>1 DEF Finally, Inv, FetchTypes, postFrame, shownVars
  <1>. QED
    BY <1>2, <1>3
    DEF Finally, Inv, PressTypes, GatewayTypes, PendingTruthful,
        postFrame, pressVars, gatewayVars

LEMMA ReturnsInv == \A p \in Posts : Inv /\ PostReturns(p) => Inv'
  <1>. SUFFICES ASSUME NEW p \in Posts, Inv, PostReturns(p) PROVE Inv'
    OBVIOUS
  <1>1. p \in InFlightPosts
    BY DEF PostReturns, Accepted, Refused, Agreed, InFlightPosts, FreePosts
  <1>2. FirstGet \in FreeGets /\ jobId \in 0..MaxOps /\ posts[p] \in PostType
    BY <1>1, FreeSlots DEF Inv, FetchTypes, InFlightPosts
  <1>3. Cardinality(InFlightPosts) <= Cardinality(FreeGets)
        /\ Cardinality(InFlightPosts) \in Nat /\ Cardinality(FreeGets) \in Nat
    BY FreeSlots DEF Inv, RoomFor
  <1>4. Cardinality(InFlightPosts') \in Nat
    BY SlotsCounted DEF InFlightPosts
  <1>5. ASSUME NEW follow \in 0..MaxOps, Finally(follow), UNCHANGED postFrame,
               posts' = [ posts EXCEPT ![p] = NoPost ]
        PROVE  Inv'
    <2>1. /\ posts' \in [ Posts -> PostType ]
          /\ \A q \in InFlightPosts' : posts'[q].recipe \in RecipeIds /\ posts'[q].op # "none"
          /\ Cardinality(InFlightPosts') = Cardinality(InFlightPosts) - 1
      BY <1>1, <1>5, PostLeaves DEF Inv
    <2>2. Cardinality(InFlightPosts') + 1 <= Cardinality(FreeGets)
      BY <1>3, <2>1
    <2>. QED
      BY <1>2, <1>4, <1>5, <2>1, <2>2, FinallyInv
  <1>6. CASE Accepted(p)
    <2>1. posts[p].job \in 0..MaxOps
      BY <1>2 DEF PostType
    <2>. QED
      BY <1>5, <1>6, <2>1 DEF Accepted
  <1>7. CASE Refused(p)
    BY <1>2, <1>5, <1>7 DEF Refused
  <1>8. CASE Agreed(p)
    <2>. DEFINE new == [ posts[p] EXCEPT !.confirm = TRUE, !.by = "question" ]
    <2>1. new \in PostType /\ new.at # "free"
          /\ new.recipe = posts[p].recipe /\ new.op = posts[p].op
      BY <1>2, <1>8 DEF Agreed, PostType
    <2>2. posts' = [ posts EXCEPT ![p] = new ]
      BY <1>8 DEF Agreed
    <2>. HIDE DEF new
    <2>3. /\ posts' \in [ Posts -> PostType ]
          /\ InFlightPosts' = InFlightPosts
          /\ \A q \in InFlightPosts :
               posts'[q].recipe = posts[q].recipe /\ posts'[q].op = posts[q].op
      BY <1>1, <2>1, <2>2, PostStays DEF Inv
    <2>4. \A q \in InFlightPosts' : posts'[q].recipe \in RecipeIds /\ posts'[q].op # "none"
      BY <2>3 DEF Inv, FetchTypes
    <2>5. Cardinality(InFlightPosts') + 1 <= Cardinality(FreeGets)
      BY <1>8, <2>3, FreeSlots DEF Agreed, RoomFor
    <2>. QED
      BY <1>2, <1>4, <1>8, <2>3, <2>4, <2>5, FinallyInv DEF Agreed
  <1>. QED
    BY <1>6, <1>7, <1>8 DEF PostReturns

\* A new operation has the shape of one.
LEMMA NewOpTyped ==
  ASSUME Inv, NEW what \in {"start", "stop"}, NewOp(what)
  PROVE  GatewayTypes' /\ op'.id \in 0..MaxOps
  <1>1. op.id \in 0..MaxOps /\ op.id < MaxOps
    BY DEF Inv, GatewayTypes, SnapshotType, NewOp
  <1>2. op.id + 1 \in 0..MaxOps
    BY <1>1, ShellAssumption
  <1>. QED
    BY <1>2 DEF Inv, GatewayTypes, SnapshotType, NewOp

LEMMA AcceptsInv == \A p \in Posts : Inv /\ Accepts(p) => Inv'
  <1>. SUFFICES ASSUME NEW p \in Posts, Inv, Accepts(p) PROVE Inv'
    OBVIOUS
  <1>. DEFINE new == [ posts[p] EXCEPT !.at = "accepted", !.job = op'.id ]
  <1>1. p \in InFlightPosts /\ posts[p] \in PostType
    BY DEF Accepts, InFlightPosts, FreePosts, Inv, FetchTypes
  <1>2. posts[p].op \in {"start", "stop"} /\ NewOp(posts[p].op)
    BY <1>1 DEF Accepts, Inv, FetchTypes, PostType
  <1>3. GatewayTypes' /\ op'.id \in 0..MaxOps
    BY <1>2, NewOpTyped
  <1>4. new \in PostType /\ new.at # "free"
        /\ new.recipe = posts[p].recipe /\ new.op = posts[p].op
    BY <1>1, <1>3 DEF PostType
  <1>5. posts' = [ posts EXCEPT ![p] = new ]
    BY <1>1 DEF Accepts, PostType
  <1>. HIDE DEF new
  <1>6. /\ posts' \in [ Posts -> PostType ]
        /\ InFlightPosts' = InFlightPosts
        /\ \A q \in InFlightPosts :
             posts'[q].recipe = posts[q].recipe /\ posts'[q].op = posts[q].op
    BY <1>1, <1>4, <1>5, PostStays DEF Inv
  <1>7. UNCHANGED << shownVars, pendingAction, jobId, gets, pressVars >> /\ FreeGets' = FreeGets
    BY DEF Accepts, gatewayFrame, FreeGets
  <1>. QED
    BY <1>3, <1>6, <1>7
    DEF Inv, FetchTypes, PressTypes, RoomFor, PendingTruthful, shownVars, pressVars

LEMMA GatewayInv ==
  Inv /\ (OthersOperate \/ OpEnds \/ StatusChanges) => Inv'
  <1>. SUFFICES ASSUME Inv, OthersOperate \/ OpEnds \/ StatusChanges PROVE Inv'
    OBVIOUS
  <1>1. UNCHANGED << shownVars, fetchVars, pressVars >>
    BY DEF OthersOperate, OpEnds, StatusChanges, gatewayFrame, fetchVars
  <1>2. FetchTypes' /\ RoomFor(0)' /\ PendingTruthful'
    BY <1>1, NoSend
  <1>3. GatewayTypes'
    <2>1. CASE OthersOperate
      BY <2>1, NewOpTyped DEF OthersOperate
    <2>2. CASE OpEnds
      BY <2>2 DEF OpEnds, Inv, GatewayTypes, SnapshotType
    <2>3. CASE StatusChanges
      BY <2>3 DEF StatusChanges, Inv, GatewayTypes
    <2>. QED
      BY <2>1, <2>2, <2>3
  <1>. QED
    BY <1>1, <1>2, <1>3 DEF Inv, PressTypes, pressVars

-----------------------------------------------------------------------------
(* The theorems *)

LEMMA InitInv == Init => Inv
  <1>. SUFFICES ASSUME Init PROVE Inv
    OBVIOUS
  <1>1. NoJob \in SnapshotType /\ ~NoJob.busy
    BY ShellAssumption DEF NoJob, SnapshotType
  <1>2. NoVm \in VmType
    BY <1>1 DEF NoVm, VmType, SnapshotType
  <1>3. NoGet \in GetType
    BY <1>2, ShellAssumption DEF NoGet, GetType
  <1>4. [ NoGet EXCEPT !.at = "sent" ] \in GetType
    BY <1>3 DEF GetType
  <1>5. NoPost \in PostType /\ NoPost.at = "free"
    BY ShellAssumption DEF NoPost, PostType
  <1>6. gets \in [ Gets -> GetType ] /\ posts \in [ Posts -> PostType ]
    BY <1>3, <1>4, <1>5 DEF Init
  <1>7. InFlightPosts = {}
    BY <1>5 DEF Init, InFlightPosts, FreePosts
  <1>8. RoomFor(0)
    BY <1>7, FS_EmptySet, FreeSlots DEF RoomFor
  <1>9. FetchTypes /\ PendingTruthful
    <2>1. lastVm = NoVm /\ drawn = FALSE /\ pendingAction = NoRecipe /\ jobId = 0
      BY DEF Init
    <2>2. 0 \in 0..MaxOps
      BY ShellAssumption
    <2>. QED
      BY <1>2, <1>6, <1>7, <2>1, <2>2 DEF FetchTypes, PendingTruthful
  <1>10. PressTypes
    <2>1. /\ press = [ f \in FingerIds |-> "up" ]
          /\ timers = {} /\ pressTimer = 0 /\ longFired = FALSE
      BY DEF Init
    <2>2. 0 \in 0..Fingers
      BY ShellAssumption
    <2>. QED
      BY <2>1, <2>2 DEF PressTypes
  <1>11. GatewayTypes
    BY <1>1 DEF Init, GatewayTypes
  <1>. QED
    BY <1>8, <1>9, <1>10, <1>11 DEF Inv

LEMMA NextInv == Inv /\ [Next]_vars => Inv'
  <1>. SUFFICES ASSUME Inv, [Next]_vars PROVE Inv'
    OBVIOUS
  <1>1. CASE UNCHANGED vars
    <2>1. FetchTypes' /\ RoomFor(0)' /\ PendingTruthful'
      BY <1>1, NoSend DEF vars
    <2>. QED
      BY <1>1, <2>1 DEF vars, Inv, PressTypes, GatewayTypes, pressVars, gatewayVars
  <1>. QED
    BY <1>1, IntervalInv, GetInv, PressInv, LeaveInv, TapInv, ReturnsInv,
       AcceptsInv, GatewayInv
    DEF Next

LEMMA Invariance == Spec => []Inv
  BY InitInv, NextInv, PTL DEF Spec

\* The shape of the shell's state; every POST in flight has a slot for the
\* refresh of its finally clause, so a bound on slots never suppresses it.
THEOREM ShellTyped == Spec => []TypeOK
  <1>1. Inv => TypeOK
    <2>. SUFFICES ASSUME Inv PROVE TypeOK
      OBVIOUS
    <2>1. \A g \in Gets : gets[g].vm \in VmType /\ gets[g].job \in 0..MaxOps
      BY DEF Inv, FetchTypes, GetType
    <2>. QED
      BY <2>1 DEF Inv, FetchTypes, PressTypes, TypeOK
  <1>. QED
    BY <1>1, Invariance, PTL

\* A pending action never outlives its POST, in whatever order the answers of
\* any number of requests come, and whether they come or not.
THEOREM PendingIsTruthful == Spec => []PendingTruthful
  <1>1. Inv => PendingTruthful
    BY DEF Inv
  <1>. QED
    BY <1>1, Invariance, PTL

\* With one finger an armed timer is the known one, of a press of Stop that
\* has not ended.
TimersHeld == \A f \in timers : press[f] = "stop" /\ pressTimer = f

LEMMA TimersHeldInductive ==
  Fingers <= 1 /\ Inv /\ TimersHeld /\ [Next]_vars => TimersHeld'
  <1>. SUFFICES ASSUME Fingers <= 1, Inv, TimersHeld, [Next]_vars PROVE TimersHeld'
    OBVIOUS
  <1>1. \A f, g \in FingerIds : f = g
    BY ShellAssumption DEF FingerIds
  <1>2. timers \subseteq FingerIds /\ press \in [ FingerIds -> {"up", "off", "start", "stop"} ]
    BY DEF Inv, PressTypes
  <1>3. ASSUME UNCHANGED << press, timers, pressTimer >> PROVE TimersHeld'
    BY <1>3 DEF TimersHeld
  <1>4. ASSUME Cancel PROVE timers' = {}
    BY <1>1, <1>2, <1>4 DEF Cancel, TimersHeld
  <1>5. ASSUME NEW f \in FingerIds, PointerDown(f) PROVE TimersHeld'
    <2>1. timers = {}
      BY <1>1, <1>2, <1>5 DEF PointerDown
    <2>2. \/ timers' = {}
          \/ timers' = {f} /\ pressTimer' = f /\ press' = [ press EXCEPT ![f] = "stop" ]
      BY <1>5, <2>1 DEF PointerDown
    <2>. QED
      BY <1>2, <2>2 DEF TimersHeld
  <1>6. ASSUME NEW f \in FingerIds, TimerFires(f) PROVE TimersHeld'
    <2>1. timers' = {}
      BY <1>1, <1>2, <1>6 DEF TimerFires
    <2>. QED
      BY <2>1 DEF TimersHeld
  <1>7. ASSUME NEW f \in FingerIds, PointerUp(f) PROVE TimersHeld'
    BY <1>4, <1>7 DEF PointerUp, TimersHeld
  <1>8. CASE PointerLeaves
    BY <1>4, <1>8 DEF PointerLeaves, TimersHeld
  <1>9. ASSUME UNCHANGED pressVars PROVE TimersHeld'
    BY <1>3, <1>9 DEF pressVars
  <1>10. CASE Interval \/ \E g \in Gets : GetStep(g)
    BY <1>9, <1>10 DEF Interval, GetStep, AnswerGet, DeliverGet, GetFails
  <1>11. CASE \E id \in RecipeIds : TapRecipe(id)
    BY <1>9, <1>11 DEF TapRecipe
  <1>12. CASE \E p \in Posts : Accepts(p) \/ PostReturns(p)
    BY <1>9, <1>12 DEF Accepts, PostReturns, Accepted, Refused, Agreed, postFrame, gatewayFrame
  <1>13. CASE OthersOperate \/ OpEnds \/ StatusChanges
    BY <1>9, <1>13 DEF OthersOperate, OpEnds, StatusChanges, gatewayFrame
  <1>14. CASE UNCHANGED vars
    BY <1>9, <1>14 DEF vars
  <1>. QED
    BY <1>5, <1>6, <1>7, <1>8, <1>10, <1>11, <1>12, <1>13, <1>14 DEF Next

\* With one finger on the button, however refreshes change its meaning under
\* it: only a press of Stop that is still held posts a stop.
THEOREM StopsAreHeld == ASSUME Fingers <= 1 PROVE Spec => StopHeld
  <1>1. Init => TimersHeld
    BY DEF Init, TimersHeld
  <1>2. Inv /\ TimersHeld /\ [Next]_vars => TimersHeld'
    BY TimersHeldInductive
  <1>3. TimersHeld =>
          [ NewPost("hold") => \A f \in timers \ timers' : press[f] = "stop" ]_vars
    BY DEF TimersHeld
  <1>. QED
    BY <1>1, <1>2, <1>3, Invariance, PTL DEF Spec, StopHeld

=============================================================================
