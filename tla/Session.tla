------------------------------ MODULE Session ------------------------------
(***************************************************************************)
(* Who may ask: the gateway's bearer token (auth.py, deps.py, config.py)   *)
(* and the copy of it that the browser keeps (token() and api() of         *)
(* static/app.js).                                                         *)
(*                                                                         *)
(* Several requests are in flight; each carries the token that was stored  *)
(* when it was sent, and its answer may find another one stored.  The      *)
(* prompt blocks the browser: question, answer and what follows are one    *)
(* step.  The gateway's token changes only with a restart.                 *)
(***************************************************************************)
EXTENDS Integers, FiniteSets

CONSTANTS
  Tokens,        \* what SPARKCTL_TOKEN may be
  Unreadable,    \* what users may paste that is not ASCII
  NoToken,       \* nothing stored, nothing entered
  Slots,         \* requests in flight
  MaxRotations,  \* bound: changes of the gateway's token
  MaxMistakes    \* bound: prompts answered with anything but that token

ASSUME SessionAssumption ==
  /\ Tokens # {} /\ NoToken \notin Tokens \cup Unreadable
  /\ Tokens \cap Unreadable = {}
  /\ IsFiniteSet(Slots) /\ Slots # {}
  /\ MaxRotations \in Nat /\ MaxMistakes \in Nat

VARIABLES
  secret,      \* the token the gateway was started with
  stored,      \* the token in localStorage
  request,     \* slot -> a request in flight: the token it carries, its fate
  rotations, mistakes,   \* the bounds' counters
  prompts      \* ghost: how often the user was asked

vars == << secret, stored, request, rotations, mistakes, prompts >>

NoRequest == [ at |-> "free", token |-> NoToken ]

\* Settings.from_env refuses an empty token.
Init ==
  /\ secret \in Tokens
  /\ stored \in Tokens \cup {NoToken}
  /\ request = [ s \in Slots |-> NoRequest ]
  /\ rotations = 0 /\ mistakes = IF stored \in {secret, NoToken} THEN 0 ELSE 1
  /\ prompts = 0

\* A prompt too many.
TooOften == 2 + Cardinality(Slots) * (MaxRotations + MaxMistakes + 1)

-----------------------------------------------------------------------------
(* The browser *)

\* The prompt: the user enters the token, or something else, or nothing.
Prompted(entered) ==
  /\ prompts' = IF prompts < TooOften THEN prompts + 1 ELSE prompts
  /\ \/ entered = secret /\ UNCHANGED mistakes
     \/ /\ entered \in (Tokens \cup Unreadable \cup {NoToken}) \ {secret}
        /\ mistakes < MaxMistakes /\ mistakes' = mistakes + 1
  /\ stored' = entered

\* token(), and the header with its value (or with "null").
Send(s) ==
  /\ request[s].at = "free"
  /\ \/ stored # NoToken /\ UNCHANGED << stored, mistakes, prompts >>
     \/ /\ stored = NoToken
        /\ \E entered \in Tokens \cup Unreadable \cup {NoToken} : Prompted(entered)
  /\ request' = [ request EXCEPT ![s] = [ at |-> "sent", token |-> stored' ] ]
  /\ UNCHANGED << secret, rotations >>

Done(s) == request' = [ request EXCEPT ![s] = NoRequest ]

\* Faulty Denied: the token is kept.
DeniedKeeps(s) ==
  /\ request[s].at = "unauthorized"
  /\ Done(s)
  /\ UNCHANGED << secret, stored, rotations, mistakes, prompts >>

\* A 401: what is stored now is removed, and token() asks for another.
Denied(s) ==
  /\ request[s].at = "unauthorized"
  /\ Done(s)
  /\ \E entered \in Tokens \cup Unreadable \cup {NoToken} : Prompted(entered)
  /\ UNCHANGED << secret, rotations >>

\* Faulty Over: any failure is taken for a wrong token.
OverForgets(s) ==
  /\ request[s].at # "free"
  /\ Done(s)
  /\ \/ request[s].at = "ok" /\ UNCHANGED << stored, mistakes, prompts >>
     \/ \E entered \in Tokens \cup Unreadable \cup {NoToken} : Prompted(entered)
  /\ UNCHANGED << secret, rotations >>

\* Any other answer, or none (a 401 may be lost, too): the token stays.
Over(s) ==
  /\ request[s].at # "free"
  /\ Done(s)
  /\ UNCHANGED << secret, stored, rotations, mistakes, prompts >>

-----------------------------------------------------------------------------
(* The gateway *)

\* Faulty Authorize: a refusal the shell does not know.
AuthorizeForbids(token) ==
  IF token = secret THEN "ok" ELSE "forbidden"

\* BearerAuth.authorize on the shell's header, and what get_current_auth and
\* the exception handlers make of it.  compare_digest raises a TypeError on
\* text that is not ASCII: nobody catches it.
Authorize(token) ==
  CASE token = secret -> "ok"
    [] token \in Unreadable -> "internal-error"
    [] token # secret /\ token \notin Unreadable -> "unauthorized"

Answer(s) ==
  /\ request[s].at = "sent"
  /\ request' = [ request EXCEPT ![s].at = Authorize(request[s].token) ]
  /\ UNCHANGED << secret, stored, rotations, mistakes, prompts >>

\* The gateway restarts with another SPARKCTL_TOKEN.
Rotate ==
  /\ rotations < MaxRotations /\ rotations' = rotations + 1
  /\ secret' \in Tokens \ {secret}
  /\ UNCHANGED << stored, request, mistakes, prompts >>

Receive(s) == Denied(s) \/ Over(s)

Next ==
  \/ \E s \in Slots : Send(s) \/ Answer(s) \/ Receive(s)
  \/ Rotate

Spec == Init /\ [][Next]_vars

\* refresh() is sent every five seconds, every request ends, and the
\* connection is not lost for good.
Fairness ==
  \A s \in Slots :
    WF_vars(Send(s)) /\ WF_vars(Receive(s)) /\ SF_vars(Answer(s)) /\ SF_vars(Denied(s))

FairSpec == Spec /\ Fairness

-----------------------------------------------------------------------------
(* Properties *)

Statuses == {"free", "sent", "ok", "unauthorized", "internal-error"}

\* The shape of the state.
TypeOK ==
  /\ secret \in Tokens
  /\ stored \in Tokens \cup Unreadable \cup {NoToken}
  /\ request \in
       [ Slots -> [ at : Statuses, token : Tokens \cup Unreadable \cup {NoToken} ] ]
  /\ rotations \in 0..MaxRotations /\ mistakes \in 0..(MaxMistakes + 1)
  /\ prompts \in 0..TooOften

\* A change of the token or a mistake costs one prompt per request that is
\* under way with the old one, and no more: no storm of questions.
PromptsBounded ==
  prompts <= 1 + Cardinality(Slots) * (rotations + mistakes)

\* However late the answers come and whatever was stored: once the gateway's
\* token stays and the user makes no more mistakes, the right token is stored
\* for good.  (But one the gateway cannot read is never refused, nor removed.)
Recovers == <>[](stored = secret \/ stored \in Unreadable)

\* authorize "Return[s] Err(AuthError.INVALID) when the token does not match".
\* (Not so for a token that is not ASCII.)
WrongMeansUnauthorized ==
  \A s \in Slots : request[s].at # "internal-error"

\* A valid token is kept.  (Not so: the late answer to a request that carried
\* another one removes it.)
KeepsValidToken ==
  [][ stored = secret /\ secret' = secret => stored' = stored ]_vars

=============================================================================
