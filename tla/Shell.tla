------------------------------- MODULE Shell -------------------------------
(***************************************************************************)
(* The dashboard in the browser (static/app.js).  Its handlers run one at  *)
(* a time to their next await; in between, refreshes and POSTs are in      *)
(* flight and their answers come in any order.  window.confirm blocks the  *)
(* browser, so question, decision and what follows are one step.           *)
(*                                                                         *)
(* The gateway is what Lane promises, seen from here: a status that may    *)
(* change at any time and operations one at a time, by whoever starts them.*)
(***************************************************************************)
EXTENDS View

CONSTANTS
  Statuses,        \* what server_status may say
  DefaultRecipe,   \* what recipe() falls back to
  Fingers,         \* how many pointers may press the button at a time
  Gets, Posts,     \* slots for refreshes and for actions in flight
  MaxOps,          \* bound: operations ever
  MaxChanges       \* bound: changes of the status

ASSUME ShellAssumption ==
  /\ Statuses # {}
  /\ Statuses \subseteq
       [ state : {"running", "stopped", "starting", "unreachable"},
         active : RecipeIds \cup {NoRecipe} ]
  /\ DefaultRecipe \in RecipeIds /\ NoRecipe \notin RecipeIds
  /\ Fingers \in Nat /\ MaxOps \in Nat /\ MaxChanges \in Nat
  /\ IsFiniteSet(Gets) /\ IsFiniteSet(Posts)

VARIABLES
  lastVm,          \* the last rendered view
  drawn,           \* was an action pending when it was rendered?
  pendingAction,   \* the recipe of a POST in flight
  jobId,           \* the job the shell follows
  gets, posts,     \* slot -> the request in flight there
  press,           \* finger -> what it pressed, while it is down
  timers,          \* the fingers whose long-press timer is armed
  pressTimer,      \* the timer the handlers know of
  longFired,       \* did the last press fire?
  status, op, changes   \* the gateway: its status, its newest operation

shownVars == << lastVm, drawn >>
fetchVars == << pendingAction, jobId, gets, posts >>
pressVars == << press, timers, pressTimer, longFired >>
gatewayVars == << status, op, changes >>
vars == << shownVars, fetchVars, pressVars, gatewayVars >>

NoVm == [ state |-> "none", active |-> NoRecipe, job |-> NoJob ]
NoGet == [ at |-> "free", job |-> 0, vm |-> NoVm ]
NoPost == [ at |-> "free", op |-> "none", recipe |-> NoRecipe,
            confirm |-> FALSE, by |-> "none", job |-> 0 ]
FingerIds == 1..Fingers

FreeGets == { g \in Gets : gets[g].at = "free" }
FreePosts == { p \in Posts : posts[p].at = "free" }
FirstGet == CHOOSE g \in FreeGets : TRUE
InFlightPosts == Posts \ FreePosts

\* A slot for the refresh that follows every POST is kept free.
RoomFor(requests) ==
  Cardinality(FreeGets) >= Cardinality(InFlightPosts) + requests

\* The main button as it was rendered.
IsStop == lastVm # NoVm /\ Button(lastVm.state) = "stop"
Disabled == lastVm # NoVm => (drawn \/ Button(lastVm.state) = "none")

\* Boot: the page as it was served, the first refresh sent.
Init ==
  /\ lastVm = NoVm /\ drawn = FALSE
  /\ pendingAction = NoRecipe /\ jobId = 0
  /\ \E g \in Gets : gets = [ h \in Gets |->
       IF h = g THEN [ NoGet EXCEPT !.at = "sent" ] ELSE NoGet ]
  /\ posts = [ p \in Posts |-> NoPost ]
  /\ press = [ f \in FingerIds |-> "up" ]
  /\ timers = {} /\ pressTimer = 0 /\ longFired = FALSE
  /\ status \in Statuses /\ op = NoJob /\ changes = 0

-----------------------------------------------------------------------------
(* Refreshing *)

\* refresh() up to its fetch, for a shell that follows job.
WithRefresh(job) ==
  [ gets EXCEPT ![FirstGet] = [ NoGet EXCEPT !.at = "sent", !.job = job ] ]

Interval ==
  /\ RoomFor(1)
  /\ gets' = WithRefresh(jobId)
  /\ UNCHANGED << shownVars, pendingAction, jobId, posts, pressVars, gatewayVars >>

\* The snapshot ui_view takes for a job id, or of the job in flight.
Snapshot(id) ==
  CASE id = 0 -> IF op.busy THEN op ELSE NoJob
    [] id # 0 /\ id = op.id -> op
    [] id # 0 /\ id # op.id -> [ NoJob EXCEPT !.id = id ]

AnswerGet(g) ==
  /\ gets[g].at = "sent"
  /\ gets' = [ gets EXCEPT ![g].at = "answered",
                           ![g].vm = ViewModel(status, Snapshot(gets[g].job)) ]
  /\ UNCHANGED << shownVars, pendingAction, jobId, posts, pressVars, gatewayVars >>

\* Faulty DeliverGet: the job is followed when it is over.
DeliverKeepsJob(g) ==
  /\ gets[g].at = "answered"
  /\ lastVm' = gets[g].vm /\ drawn' = (pendingAction # NoRecipe)
  /\ gets' = [ gets EXCEPT ![g] = NoGet ]
  /\ UNCHANGED << pendingAction, jobId, posts, pressVars, gatewayVars >>

\* The rest of refresh: forget a job that is done, failed or not known any
\* more, render.  (A job marked unknown would be followed on; nothing marks one,
\* see the run restart_jobs.)
DeliverGet(g) ==
  LET vm == gets[g].vm IN
  /\ gets[g].at = "answered"
  /\ jobId' = IF vm.job.busy THEN jobId ELSE 0
  /\ lastVm' = vm /\ drawn' = (pendingAction # NoRecipe)
  /\ gets' = [ gets EXCEPT ![g] = NoGet ]
  /\ UNCHANGED << pendingAction, posts, pressVars, gatewayVars >>

\* The fetch fails, or its answer is an error: "offline", nothing rendered.
GetFails(g) ==
  /\ gets[g].at # "free"
  /\ gets' = [ gets EXCEPT ![g] = NoGet ]
  /\ UNCHANGED << shownVars, pendingAction, jobId, posts, pressVars, gatewayVars >>

-----------------------------------------------------------------------------
(* Starting and stopping *)

Send(what, id, by) ==
  /\ FreePosts # {} /\ RoomFor(1)
  /\ pendingAction' = id
  /\ posts' = [ posts EXCEPT ![CHOOSE p \in FreePosts : TRUE] =
       [ NoPost EXCEPT !.at = "sent", !.op = what, !.recipe = id, !.by = by ] ]
  /\ UNCHANGED << jobId, gets >>

\* doStart and doStop up to the POST.
DoStart(id, by) ==
  \/ pendingAction # NoRecipe /\ UNCHANGED fetchVars
  \/ pendingAction = NoRecipe /\ Send("start", id, by)

\* Faulty DoStop: it does not look whether something is running.
DoStopUnseen ==
  \/ pendingAction # NoRecipe /\ UNCHANGED fetchVars
  \/ pendingAction = NoRecipe /\ Send("stop", lastVm.active, "hold")

DoStop ==
  \/ /\ lastVm.active = NoRecipe \/ pendingAction # NoRecipe
     /\ UNCHANGED fetchVars
  \/ /\ lastVm.active # NoRecipe /\ pendingAction = NoRecipe
     /\ Send("stop", lastVm.active, "hold")

pressFrame == << shownVars, gatewayVars >>

\* pointerdown on the main button.  (A finger whose timer still runs after it
\* was lifted counts as another finger.)
PointerDown(f) ==
  /\ press[f] = "up" /\ f \notin timers
  /\ \/ /\ Disabled = TRUE
        /\ press' = [ press EXCEPT ![f] = "off" ]
        /\ UNCHANGED << timers, pressTimer, longFired >>
     \/ /\ ~Disabled /\ IsStop
        /\ press' = [ press EXCEPT ![f] = "stop" ]
        /\ timers' = timers \cup {f} /\ pressTimer' = f /\ longFired' = FALSE
     \/ /\ ~Disabled /\ ~IsStop
        /\ press' = [ press EXCEPT ![f] = "start" ]
        /\ longFired' = FALSE
        /\ UNCHANGED << timers, pressTimer >>
  /\ UNCHANGED << fetchVars, pressFrame >>

\* Faulty Cancel: the timer is left running.
CancelKeepsTimer ==
  /\ pressTimer' = 0
  /\ UNCHANGED << timers, longFired >>
  /\ IF ~longFired /\ ~IsStop /\ ~Disabled
       THEN DoStart(DefaultRecipe, "main")
       ELSE UNCHANGED fetchVars

\* The handler of pointerup, pointercancel and pointerleave.
Cancel ==
  /\ timers' = timers \ {pressTimer} /\ pressTimer' = 0
  /\ UNCHANGED longFired
  /\ IF ~longFired /\ ~IsStop /\ ~Disabled
       THEN DoStart(DefaultRecipe, "main")
       ELSE UNCHANGED fetchVars

\* A finger is lifted, or leaves the button while pressed.
PointerUp(f) ==
  /\ press[f] # "up"
  /\ press' = [ press EXCEPT ![f] = "up" ]
  /\ Cancel
  /\ UNCHANGED pressFrame

\* A pointer that does not press leaves the button: a mouse that crossed it,
\* or a finger after pointerup.
PointerLeaves ==
  /\ \E f \in FingerIds : press[f] = "up"
  /\ Cancel
  /\ UNCHANGED << press, pressFrame >>

TimerFires(f) ==
  /\ f \in timers
  /\ timers' = timers \ {f} /\ longFired' = TRUE
  /\ DoStop
  /\ UNCHANGED << press, pressTimer, pressFrame >>

\* A tap on the Start button of a recipe in the list.
TapRecipe(id) ==
  /\ lastVm # NoVm /\ ~drawn /\ id # lastVm.active
  /\ lastVm.state \notin {"starting", "stopping"}
  /\ DoStart(id, "list")
  /\ UNCHANGED << pressVars, pressFrame >>

postFrame == << shownVars, pressVars, gatewayVars >>

\* The finally clause of doStart and doStop, with the job to follow now.
Finally(follow) ==
  /\ pendingAction' = NoRecipe
  /\ gets' = WithRefresh(follow)
  /\ jobId' = follow

\* The answer names a job.
Accepted(p) ==
  /\ posts[p].at = "accepted"
  /\ posts' = [ posts EXCEPT ![p] = NoPost ]
  /\ Finally(posts[p].job)
  /\ UNCHANGED postFrame

\* Faulty Refused: only success clears the pending action.
RefusedUncleared(p) ==
  /\ posts[p].at # "free"
  /\ posts' = [ posts EXCEPT ![p] = NoPost ]
  /\ gets' = WithRefresh(jobId)
  /\ UNCHANGED << pendingAction, jobId, postFrame >>

\* It names none: nothing to do, busy, an error, a question that is declined;
\* or it is lost.
Refused(p) ==
  /\ posts[p].at # "free"
  /\ posts' = [ posts EXCEPT ![p] = NoPost ]
  /\ Finally(jobId)
  /\ UNCHANGED postFrame

\* It is the question whether to swap, and the user agrees, whatever began at
\* the gateway since it was asked.  The second call runs to its POST; then the
\* finally clause of the first one runs.
Agreed(p) ==
  /\ posts[p].at = "sent" /\ posts[p].op = "start" /\ ~posts[p].confirm
  /\ RoomFor(1)
  /\ posts' = [ posts EXCEPT ![p] = [ @ EXCEPT !.confirm = TRUE, !.by = "question" ] ]
  /\ Finally(jobId)
  /\ UNCHANGED postFrame

-----------------------------------------------------------------------------
(* The gateway *)

gatewayFrame == << shownVars, pendingAction, jobId, gets, pressVars >>

NewOp(what) ==
  /\ ~op.busy /\ op.id < MaxOps
  /\ op' = [ id |-> op.id + 1, op |-> what, busy |-> TRUE ]
  /\ UNCHANGED << status, changes >>

Accepts(p) ==
  /\ posts[p].at = "sent"
  /\ NewOp(posts[p].op)
  /\ posts' = [ posts EXCEPT ![p].at = "accepted", ![p].job = op'.id ]
  /\ UNCHANGED gatewayFrame

\* Another client's operation, or the stop job of a swap.
OthersOperate ==
  /\ \E what \in {"start", "stop"} : NewOp(what)
  /\ UNCHANGED << gatewayFrame, posts >>

OpEnds ==
  /\ op.busy
  /\ op' = [ op EXCEPT !.busy = FALSE ]
  /\ UNCHANGED << status, changes, gatewayFrame, posts >>

StatusChanges ==
  /\ changes < MaxChanges /\ changes' = changes + 1
  /\ status' \in Statuses \ {status}
  /\ UNCHANGED << op, gatewayFrame, posts >>

-----------------------------------------------------------------------------
GetStep(g) == AnswerGet(g) \/ DeliverGet(g) \/ GetFails(g)
PostReturns(p) == Accepted(p) \/ Refused(p) \/ Agreed(p)

Next ==
  \/ Interval
  \/ \E g \in Gets : GetStep(g)
  \/ \E f \in FingerIds : PointerDown(f) \/ PointerUp(f) \/ TimerFires(f)
  \/ PointerLeaves
  \/ \E id \in RecipeIds : TapRecipe(id)
  \/ \E p \in Posts : Accepts(p) \/ PostReturns(p)
  \/ OthersOperate \/ OpEnds \/ StatusChanges

Spec == Init /\ [][Next]_vars

\* The interval keeps firing, every request ends (the gateway answers, or the
\* browser gives up), and the connection is not lost for good.
Fairness ==
  /\ WF_vars(Interval)
  /\ \A g \in Gets :
       WF_vars(GetStep(g)) /\ SF_vars(AnswerGet(g)) /\ SF_vars(DeliverGet(g))
  /\ \A p \in Posts : WF_vars(PostReturns(p))

FairSpec == Spec /\ Fairness

-----------------------------------------------------------------------------
(* Properties *)

VmType ==
  [ state : {"none", "running", "stopped", "starting", "stopping", "unreachable"},
    active : RecipeIds \cup {NoRecipe},
    job : [ id : 0..MaxOps, op : {"none", "start", "stop"}, busy : BOOLEAN ] ]

\* The shape of the state; what is posted names a recipe; every action in
\* flight has a slot for the refresh that will follow it.
TypeOK ==
  /\ lastVm \in VmType /\ drawn \in BOOLEAN
  /\ pendingAction \in RecipeIds \cup {NoRecipe} /\ jobId \in 0..MaxOps
  /\ \A g \in Gets : gets[g].vm \in VmType /\ gets[g].job \in 0..MaxOps
  /\ \A p \in InFlightPosts : posts[p].recipe \in RecipeIds
  /\ RoomFor(0)
  /\ press \in [ FingerIds -> {"up", "off", "start", "stop"} ]
  /\ timers \subseteq FingerIds /\ pressTimer \in 0..Fingers

\* pendingAction never outlives its POST: it names a recipe of one in flight,
\* so no error path leaves every button disabled.
PendingTruthful ==
  pendingAction # NoRecipe =>
    \E p \in InFlightPosts : posts[p].recipe = pendingAction

\* "recipe id while a start/stop POST is in flight".
PendingCovers == InFlightPosts # {} => pendingAction # NoRecipe

NewPost(by) ==
  \E p \in Posts :
    /\ posts[p].at = "free" /\ posts'[p].at = "sent" /\ posts'[p].by = by

\* "stop requires a long-press so a pocket tap can't kill in-flight requests":
\* the finger whose timer posts a stop has pressed since it was armed.
StopHeld ==
  [][ NewPost("hold") => \A f \in timers \ timers' : press[f] = "stop" ]_vars

\* "start button, single tap": the main button posts a start only when a
\* press of a start button ends.
StartNeedsTap ==
  [][ NewPost("main") =>
        \E f \in FingerIds : press[f] = "start" /\ press'[f] = "up" ]_vars

\* "job we follow while pending/running": a job in flight is not dropped.
\* (Not so: the answer of a refresh sent before the job was made drops it.)
FollowsJob ==
  [][ jobId # 0 /\ jobId' = 0 => ~(op.id = jobId /\ op.busy) ]_vars

\* Every action ends for the user, whichever requests are lost and whatever was
\* drawn meanwhile: the buttons are enabled again, and drawn so.
PendingClears ==
  pendingAction # NoRecipe \/ drawn ~> pendingAction = NoRecipe /\ ~drawn

\* Once the gateway stands still the shell comes to show its state and keeps
\* showing it, whatever answers overtook each other and whichever job it
\* followed.  (The bounds make the gateway stand still.)
ShowsTruth == <>[](lastVm.state = ShownState(status.state, op))

=============================================================================
