--------------------------- MODULE SessionProofs ---------------------------
(***************************************************************************)
(* Proofs about Session, for any tokens, any number of requests in flight, *)
(* of changes of the token and of mistakes.                                *)
(***************************************************************************)
EXTENDS Session, FiniteSetTheorems, TLAPS

-----------------------------------------------------------------------------
(* The inductive invariant *)

N == Cardinality(Slots)

\* The requests that are refused, or will be while the token stays.
Doomed ==
  { s \in Slots :
      /\ request[s].at # "free"
      /\ request[s].at = "unauthorized" \/ request[s].token # secret }

\* The questions that are still to come: one for each doomed request; with
\* nothing stored one more, from the next request sent, though never more than
\* there are slots; with a wrong token stored every slot may be doomed.
ToCome ==
  CASE stored = secret -> Cardinality(Doomed)
    [] stored = NoToken -> IF Cardinality(Doomed) < N THEN Cardinality(Doomed) + 1 ELSE N
    [] stored \notin {secret, NoToken} -> N

Owed == prompts + ToCome <= 1 + N * (rotations + mistakes)

Inv == TypeOK /\ Owed

-----------------------------------------------------------------------------
(* Counting *)

LEMMA SlotsCounted == N \in Nat \ {0}
  <1>1. IsFiniteSet(Slots) /\ Slots # {}
    BY SessionAssumption
  <1>. QED
    BY <1>1, FS_CardinalityType, FS_EmptySet DEF N

LEMMA DoomedCounted ==
  /\ IsFiniteSet(Doomed) /\ Cardinality(Doomed) \in 0..N
  /\ \A s \in Slots \ Doomed : Cardinality(Doomed) < N
  /\ \A s \in Doomed : Cardinality(Doomed) >= 1
  <1>1. IsFiniteSet(Slots) /\ Doomed \in SUBSET Slots
    BY SessionAssumption DEF Doomed
  <1>2. /\ IsFiniteSet(Doomed) /\ Cardinality(Doomed) <= N
        /\ N = Cardinality(Doomed) => Slots = Doomed
    BY <1>1, FS_Subset DEF N
  <1>3. Cardinality(Doomed) \in Nat /\ (Cardinality(Doomed) = 0 => Doomed = {})
    BY <1>2, FS_CardinalityType, FS_EmptySet
  <1>. QED
    BY <1>2, <1>3, SlotsCounted

\* Fewer doomed requests are not more.
LEMMA FewerDoomed ==
  ASSUME NEW S, NEW T, S \subseteq T, IsFiniteSet(T)
  PROVE  /\ IsFiniteSet(S)
         /\ Cardinality(S) \in Nat /\ Cardinality(T) \in Nat
         /\ Cardinality(S) <= Cardinality(T)
         /\ \A x \in T \ S : Cardinality(S) < Cardinality(T)
  <1>1. IsFiniteSet(S) /\ Cardinality(S) <= Cardinality(T)
        /\ (Cardinality(T) = Cardinality(S) => T = S)
    BY FS_Subset
  <1>. QED
    BY <1>1, FS_CardinalityType

LEMMA OneMore ==
  ASSUME NEW n \in Nat, NEW k \in Nat
  PROVE  n * k \in Nat /\ n * (k + 1) = n * k + n
  OBVIOUS

\* Before a question, what is to come is at least that question.
LEMMA QuestionCounted ==
  ASSUME TypeOK,
         stored = NoToken \/ Doomed # {}
  PROVE  ToCome >= 1
  <1>1. secret # NoToken
    BY SessionAssumption DEF TypeOK
  <1>2. N \in Nat \ {0} /\ Cardinality(Doomed) \in 0..N
        /\ (Doomed # {} => Cardinality(Doomed) >= 1)
    BY SlotsCounted, DoomedCounted
  <1>3. CASE stored = secret
    BY <1>1, <1>2, <1>3 DEF ToCome
  <1>4. CASE stored = NoToken
    BY <1>1, <1>2, <1>4 DEF ToCome
  <1>5. CASE stored \notin {secret, NoToken}
    BY <1>2, <1>5 DEF ToCome
  <1>. QED
    BY <1>3, <1>4, <1>5

LEMMA ToComeBounds ==
  ASSUME TypeOK
  PROVE  ToCome \in 0..N
  <1>1. secret # NoToken
    BY SessionAssumption DEF TypeOK
  <1>2. N \in Nat \ {0} /\ Cardinality(Doomed) \in 0..N
    BY SlotsCounted, DoomedCounted
  <1>3. CASE stored = secret
    BY <1>1, <1>2, <1>3 DEF ToCome
  <1>4. CASE stored = NoToken
    BY <1>1, <1>2, <1>4 DEF ToCome
  <1>5. CASE stored \notin {secret, NoToken}
    BY <1>2, <1>5 DEF ToCome
  <1>. QED
    BY <1>3, <1>4, <1>5

-----------------------------------------------------------------------------
(* The steps *)

LEMMA PromptTypes ==
  ASSUME TypeOK, NEW entered \in Tokens \cup Unreadable \cup {NoToken},
         Prompted(entered)
  PROVE  /\ stored' \in Tokens \cup Unreadable \cup {NoToken}
         /\ mistakes' \in 0..(MaxMistakes + 1)
         /\ prompts' \in 0..TooOften
         /\ prompts' <= prompts + 1
         /\ (stored' = secret /\ mistakes' = mistakes) \/ mistakes' = mistakes + 1
  <1>1. TooOften \in Nat
    <2>1. N \in Nat /\ MaxRotations + MaxMistakes + 1 \in Nat
      BY SlotsCounted, SessionAssumption
    <2>. DEFINE k == MaxRotations + MaxMistakes + 1
    <2>2. N * k \in Nat
      BY <2>1
    <2>. QED
      BY <2>2 DEF TooOften, N
  <1>. QED
    BY <1>1, SessionAssumption DEF TypeOK, Prompted

LEMMA TypesInductive == TypeOK /\ [Next]_vars => TypeOK'
  <1>. SUFFICES ASSUME TypeOK, [Next]_vars PROVE TypeOK'
    OBVIOUS
  <1>. DEFINE Texts == Tokens \cup Unreadable \cup {NoToken}
              Req == [ at : Statuses, token : Texts ]
  <1>1. ASSUME NEW s \in Slots, NEW new \in Req, request' = [ request EXCEPT ![s] = new ]
        PROVE  request' \in [ Slots -> Req ]
    BY <1>1 DEF TypeOK
  <1>2. NoRequest \in Req
    BY DEF NoRequest, Statuses
  <1>3. ASSUME NEW s \in Slots, Send(s) PROVE TypeOK'
    <2>1. stored' \in Texts
      BY <1>3, PromptTypes DEF Send, TypeOK
    <2>2. [ at |-> "sent", token |-> stored' ] \in Req
      BY <2>1 DEF Statuses
    <2>3. request' \in [ Slots -> Req ]
      BY <1>1, <1>3, <2>2 DEF Send
    <2>. QED
      BY <1>3, <2>1, <2>3, PromptTypes DEF Send, TypeOK
  <1>4. ASSUME NEW s \in Slots, Denied(s) PROVE TypeOK'
    <2>1. request' \in [ Slots -> Req ]
      BY <1>1, <1>2, <1>4 DEF Denied, Done
    <2>. QED
      BY <1>4, <2>1, PromptTypes DEF Denied, TypeOK
  <1>5. ASSUME NEW s \in Slots, Over(s) PROVE TypeOK'
    BY <1>1, <1>2, <1>5 DEF Over, Done, TypeOK
  <1>6. ASSUME NEW s \in Slots, Answer(s) PROVE TypeOK'
    <2>1. Authorize(request[s].token) \in Statuses
      BY DEF Authorize, Statuses
    <2>2. [ request[s] EXCEPT !.at = Authorize(request[s].token) ] \in Req
      BY <2>1 DEF TypeOK
    <2>3. request' \in [ Slots -> Req ]
      BY <1>1, <1>6, <2>2 DEF Answer
    <2>. QED
      BY <1>6, <2>3 DEF Answer, TypeOK
  <1>7. CASE Rotate
    BY <1>7, SessionAssumption DEF Rotate, TypeOK
  <1>8. CASE UNCHANGED vars
    BY <1>8 DEF vars, TypeOK
  <1>. QED
    BY <1>3, <1>4, <1>5, <1>6, <1>7, <1>8 DEF Next, Receive

\* A step that asks nobody and stores nothing: the doomed get no more.
LEMMA QuietStep ==
  ASSUME Inv, TypeOK', UNCHANGED << secret, stored, rotations, mistakes, prompts >>,
         stored = secret \/ stored = NoToken => Doomed' \subseteq Doomed
  PROVE  Owed'
  <1>1. secret # NoToken
    BY SessionAssumption DEF Inv, TypeOK
  <1>2. N \in Nat \ {0} /\ N' = N
    BY SlotsCounted DEF N
  <1>3. ToCome' <= ToCome /\ ToCome \in 0..N /\ ToCome' \in Int
    <2>1. CASE stored \notin {secret, NoToken}
      BY <1>2, <2>1 DEF ToCome
    <2>2. CASE stored \in {secret, NoToken}
      <3>1. /\ Cardinality(Doomed') \in Nat /\ Cardinality(Doomed) \in 0..N
            /\ Cardinality(Doomed') <= Cardinality(Doomed)
        BY <2>2, DoomedCounted, FewerDoomed
      <3>2. CASE stored = secret
        BY <1>1, <1>2, <3>1, <3>2 DEF ToCome
      <3>3. CASE stored = NoToken
        BY <1>1, <1>2, <3>1, <3>3 DEF ToCome
      <3>. QED
        BY <2>2, <3>2, <3>3
    <2>. QED
      BY <2>1, <2>2
  <1>4. N * (rotations + mistakes) \in Nat
    BY <1>2 DEF Inv, TypeOK
  <1>5. prompts \in Nat /\ prompts' = prompts
    BY DEF Inv, TypeOK, TooOften
  <1>6. N' * (rotations' + mistakes') = N * (rotations + mistakes)
    BY <1>2
  <1>. QED
    BY <1>3, <1>4, <1>5, <1>6 DEF Inv, Owed

\* A mistake, or a change of the token: all slots are paid for.
LEMMA PaidStep ==
  ASSUME Inv, TypeOK', rotations' + mistakes' = rotations + mistakes + 1,
         prompts' \in Nat, prompts' <= prompts + ToCome
  PROVE  Owed'
  <1>1. N \in Nat \ {0} /\ N' = N
    BY SlotsCounted DEF N
  <1>2. rotations + mistakes \in Nat /\ prompts \in Nat
    BY DEF Inv, TypeOK, TooOften
  <1>3. N * (rotations + mistakes + 1) = N * (rotations + mistakes) + N
        /\ N * (rotations + mistakes) \in Nat
    BY <1>1, <1>2, OneMore
  <1>4. ToCome \in 0..N
    BY ToComeBounds DEF Inv
  <1>5. ToCome' \in 0..N
    <2>1. TypeOK' => (ToCome \in 0..N)'
      BY ToComeBounds, PTL
    <2>. QED
      BY <1>1, <2>1
  <1>6. N * (rotations' + mistakes') = N * (rotations + mistakes) + N
    BY <1>3
  <1>7. prompts + ToCome <= 1 + N * (rotations + mistakes)
    BY DEF Inv, Owed
  <1>8. prompts' + ToCome' <= 1 + N * (rotations + mistakes) + N
    BY <1>1, <1>2, <1>3, <1>4, <1>5, <1>7
  <1>9. prompts' + ToCome' <= 1 + N * (rotations' + mistakes')
    BY <1>1, <1>3, <1>6, <1>8
  <1>. QED
    BY <1>1, <1>9 DEF Owed

\* The right answer to a question is one of those that were to come.
LEMMA RightAnswer ==
  ASSUME Inv, TypeOK', stored' = secret, UNCHANGED << secret, rotations, mistakes >>,
         prompts' \in Nat, prompts' <= prompts + 1,
         Cardinality(Doomed') + 1 <= ToCome
  PROVE  Owed'
  <1>1. N \in Nat \ {0} /\ N' = N
    BY SlotsCounted DEF N
  <1>2. ToCome' = Cardinality(Doomed')
    <2>1. secret' # NoToken
      BY SessionAssumption DEF TypeOK
    <2>. QED
      BY <2>1 DEF ToCome
  <1>3. Cardinality(Doomed') \in Nat
    <2>1. (Cardinality(Doomed) \in 0..N)'
      BY DoomedCounted, PTL
    <2>. QED
      BY <1>1, <2>1
  <1>4. ToCome \in 0..N
    BY ToComeBounds DEF Inv
  <1>5. N' * (rotations' + mistakes') = N * (rotations + mistakes)
        /\ N * (rotations + mistakes) \in Nat
    BY <1>1 DEF Inv, TypeOK
  <1>6. prompts \in Nat
    BY DEF Inv, TypeOK, TooOften
  <1>. QED
    BY <1>2, <1>3, <1>4, <1>5, <1>6 DEF Inv, Owed

LEMMA ToComeAtLeastDoomed ==
  ASSUME TypeOK
  PROVE  Cardinality(Doomed) <= ToCome
  <1>1. secret # NoToken
    BY SessionAssumption DEF TypeOK
  <1>2. N \in Nat \ {0} /\ Cardinality(Doomed) \in 0..N
    BY SlotsCounted, DoomedCounted
  <1>3. CASE stored = secret
    BY <1>1, <1>2, <1>3 DEF ToCome
  <1>4. CASE stored = NoToken
    BY <1>1, <1>2, <1>4 DEF ToCome
  <1>5. CASE stored \notin {secret, NoToken}
    BY <1>2, <1>5 DEF ToCome
  <1>. QED
    BY <1>3, <1>4, <1>5

\* A mistaken answer to a question that was to come.
LEMMA WrongAnswer ==
  ASSUME Inv, TypeOK', stored = NoToken \/ Doomed # {},
         UNCHANGED rotations, mistakes' = mistakes + 1,
         prompts' \in Nat, prompts' <= prompts + 1
  PROVE  Owed'
  <1>1. ToCome >= 1 /\ ToCome \in 0..N
    BY QuestionCounted, ToComeBounds DEF Inv
  <1>2. N \in Nat /\ prompts \in Nat /\ rotations \in Nat /\ mistakes \in Nat
    BY SlotsCounted DEF Inv, TypeOK, TooOften
  <1>3. prompts' <= prompts + ToCome /\ rotations' + mistakes' = rotations + mistakes + 1
    BY <1>1, <1>2
  <1>. QED
    BY <1>3, PaidStep

LEMMA SendInv == \A s \in Slots : Inv /\ TypeOK' /\ Send(s) => Owed'
  <1>. SUFFICES ASSUME NEW s \in Slots, Inv, TypeOK', Send(s) PROVE Owed'
    OBVIOUS
  <1>. DEFINE sent == [ at |-> "sent", token |-> stored' ]
  <1>1. /\ request[s].at = "free" /\ UNCHANGED << secret, rotations >>
        /\ request' = [ request EXCEPT ![s] = sent ]
        /\ request \in [ Slots -> [ at : Statuses, token : Tokens \cup Unreadable \cup {NoToken} ] ]
    BY DEF Send, Inv, TypeOK
  <1>2. request'[s] = sent /\ \A t \in Slots \ {s} : request'[t] = request[t]
    BY <1>1
  <1>3. s \notin Doomed
    BY <1>1 DEF Doomed
  <1>4. ASSUME stored' = secret PROVE Doomed' \subseteq Doomed
    <2>1. s \notin Doomed'
      BY <1>1, <1>2, <1>4 DEF Doomed
    <2>. QED
      BY <1>1, <1>2, <2>1 DEF Doomed
  <1>5. CASE stored # NoToken /\ UNCHANGED << stored, mistakes, prompts >>
    BY <1>1, <1>4, <1>5, QuietStep
  <1>6. ASSUME stored = NoToken,
               NEW entered \in Tokens \cup Unreadable \cup {NoToken}, Prompted(entered)
        PROVE  Owed'
    <2>1. /\ prompts' \in Nat /\ prompts' <= prompts + 1
          /\ (stored' = secret /\ mistakes' = mistakes) \/ mistakes' = mistakes + 1
      BY <1>6, PromptTypes DEF Inv, TypeOK, TooOften
    <2>2. CASE stored' = secret /\ mistakes' = mistakes
      <3>1. Cardinality(Doomed') <= Cardinality(Doomed) /\ Cardinality(Doomed') \in Nat
        BY <1>4, <2>2, DoomedCounted, FewerDoomed
      <3>2. Cardinality(Doomed) < N /\ Cardinality(Doomed) \in 0..N
        BY <1>3, DoomedCounted
      <3>3. ToCome = Cardinality(Doomed) + 1
        <4>1. secret # NoToken
          BY SessionAssumption DEF Inv, TypeOK
        <4>. QED
          BY <1>6, <3>2, <4>1 DEF ToCome
      <3>4. Cardinality(Doomed') + 1 <= ToCome
        BY <3>1, <3>2, <3>3
      <3>. QED
        BY <1>1, <2>1, <2>2, <3>4, RightAnswer
    <2>3. CASE mistakes' = mistakes + 1
      BY <1>1, <1>6, <2>1, <2>3, WrongAnswer
    <2>. QED
      BY <2>1, <2>2, <2>3
  <1>. QED
    BY <1>5, <1>6 DEF Send

LEMMA DeniedInv == \A s \in Slots : Inv /\ TypeOK' /\ Denied(s) => Owed'
  <1>. SUFFICES ASSUME NEW s \in Slots, Inv, TypeOK', Denied(s) PROVE Owed'
    OBVIOUS
  <1>1. /\ request[s].at = "unauthorized" /\ UNCHANGED << secret, rotations >>
        /\ request' = [ request EXCEPT ![s] = NoRequest ]
        /\ request \in [ Slots -> [ at : Statuses, token : Tokens \cup Unreadable \cup {NoToken} ] ]
    BY DEF Denied, Done, Inv, TypeOK
  <1>2. s \in Doomed
    BY <1>1 DEF Doomed
  <1>3. Doomed' \subseteq Doomed /\ s \notin Doomed'
    <2>1. request'[s].at = "free" /\ \A t \in Slots \ {s} : request'[t] = request[t]
      BY <1>1 DEF NoRequest
    <2>. QED
      BY <1>1, <2>1 DEF Doomed
  <1>4. PICK entered \in Tokens \cup Unreadable \cup {NoToken} : Prompted(entered)
    BY DEF Denied
  <1>5. /\ prompts' \in Nat /\ prompts' <= prompts + 1
        /\ (stored' = secret /\ mistakes' = mistakes) \/ mistakes' = mistakes + 1
    BY <1>4, PromptTypes DEF Inv, TypeOK, TooOften
  <1>6. CASE stored' = secret /\ mistakes' = mistakes
    <2>1. Cardinality(Doomed') < Cardinality(Doomed) /\ Cardinality(Doomed') \in Nat
      BY <1>2, <1>3, DoomedCounted, FewerDoomed
    <2>2. Cardinality(Doomed) <= ToCome /\ ToCome \in 0..N /\ Cardinality(Doomed) \in 0..N
      BY ToComeAtLeastDoomed, ToComeBounds, DoomedCounted DEF Inv
    <2>3. Cardinality(Doomed') + 1 <= ToCome
      BY <2>1, <2>2, SlotsCounted
    <2>. QED
      BY <1>1, <1>5, <1>6, <2>3, RightAnswer
  <1>7. CASE mistakes' = mistakes + 1
    BY <1>1, <1>2, <1>5, <1>7, WrongAnswer
  <1>. QED
    BY <1>5, <1>6, <1>7

LEMMA OverInv == \A s \in Slots : Inv /\ TypeOK' /\ Over(s) => Owed'
  <1>. SUFFICES ASSUME NEW s \in Slots, Inv, TypeOK', Over(s) PROVE Owed'
    OBVIOUS
  <1>1. request' = [ request EXCEPT ![s] = NoRequest ] /\ UNCHANGED secret
    BY DEF Over, Done
  <1>2. request \in [ Slots -> [ at : Statuses, token : Tokens \cup Unreadable \cup {NoToken} ] ]
    BY DEF Inv, TypeOK
  <1>3. request'[s].at = "free" /\ \A t \in Slots \ {s} : request'[t] = request[t]
    BY <1>1, <1>2 DEF NoRequest
  <1>4. Doomed' \subseteq Doomed
    BY <1>1, <1>3 DEF Doomed
  <1>. QED
    BY <1>4, QuietStep DEF Over

LEMMA AnswerInv == \A s \in Slots : Inv /\ TypeOK' /\ Answer(s) => Owed'
  <1>. SUFFICES ASSUME NEW s \in Slots, Inv, TypeOK', Answer(s) PROVE Owed'
    OBVIOUS
  <1>. DEFINE Req == [ at : Statuses, token : Tokens \cup Unreadable \cup {NoToken} ]
              verdict == Authorize(request[s].token)
  <1>1. /\ request[s].at = "sent" /\ UNCHANGED secret
        /\ request' = [ request EXCEPT ![s].at = verdict ]
    BY DEF Answer
  <1>2. request \in [ Slots -> Req ]
    BY DEF Inv, TypeOK
  <1>3. verdict = "unauthorized" => request[s].token # secret
    BY DEF Authorize
  <1>. HIDE DEF verdict
  <1>4. /\ request'[s].at = verdict /\ request'[s].token = request[s].token
        /\ \A t \in Slots \ {s} : request'[t] = request[t]
    BY <1>1, <1>2
  <1>5. Doomed' \subseteq Doomed
    BY <1>1, <1>3, <1>4 DEF Doomed
  <1>. QED
    BY <1>5, QuietStep DEF Answer

LEMMA RotateInv == Inv /\ TypeOK' /\ Rotate => Owed'
  <1>. SUFFICES ASSUME Inv, TypeOK', Rotate PROVE Owed'
    OBVIOUS
  <1>1. ToCome \in 0..N /\ N \in Nat
    BY ToComeBounds, SlotsCounted DEF Inv
  <1>2. /\ prompts \in Nat /\ rotations \in Nat /\ mistakes \in Nat
        /\ prompts' = prompts /\ rotations' = rotations + 1 /\ mistakes' = mistakes
    BY DEF Inv, TypeOK, TooOften, Rotate
  <1>3. prompts' <= prompts + ToCome /\ rotations' + mistakes' = rotations + mistakes + 1
    BY <1>1, <1>2
  <1>. QED
    BY <1>2, <1>3, PaidStep

-----------------------------------------------------------------------------
(* The invariant *)

LEMMA InitInv == Init => Inv
  <1>. SUFFICES ASSUME Init PROVE Inv
    OBVIOUS
  <1>1. N \in Nat \ {0}
    BY SlotsCounted
  <1>2. TypeOK
    <2>1. N * (MaxRotations + MaxMistakes + 1) \in Nat
      <3>1. MaxRotations + MaxMistakes \in Nat
        BY SessionAssumption
      <3>. QED
        BY <1>1, <3>1, OneMore
    <2>2. TooOften \in Nat
      BY <2>1 DEF TooOften, N
    <2>3. NoRequest \in [ at : Statuses, token : Tokens \cup Unreadable \cup {NoToken} ]
      BY DEF NoRequest, Statuses
    <2>. QED
      BY <2>2, <2>3, SessionAssumption DEF Init, TypeOK
  <1>3. Doomed = {}
    BY DEF Doomed, Init, NoRequest
  <1>4. Cardinality(Doomed) = 0
    BY <1>3, FS_EmptySet
  <1>5. secret # NoToken
    BY <1>2, SessionAssumption DEF TypeOK
  <1>6. CASE stored = secret
    <2>1. ToCome = 0
      BY <1>4, <1>6, <1>5 DEF ToCome
    <2>. QED
      BY <1>1, <1>2, <1>6, <2>1 DEF Inv, Owed, Init
  <1>7. CASE stored = NoToken
    <2>1. ToCome = 1
      BY <1>1, <1>4, <1>5, <1>7 DEF ToCome
    <2>. QED
      BY <1>1, <1>2, <1>7, <2>1 DEF Inv, Owed, Init
  <1>8. CASE stored \notin {secret, NoToken}
    <2>1. ToCome = N
      BY <1>8 DEF ToCome
    <2>2. N * (rotations + mistakes) = N
      BY <1>1, <1>8 DEF Init
    <2>. QED
      BY <1>1, <1>2, <2>1, <2>2 DEF Inv, Owed, Init
  <1>. QED
    BY <1>6, <1>7, <1>8

LEMMA NextInv == Inv /\ [Next]_vars => Inv'
  <1>. SUFFICES ASSUME Inv, [Next]_vars PROVE Inv'
    OBVIOUS
  <1>1. TypeOK'
    BY TypesInductive DEF Inv
  <1>2. CASE UNCHANGED vars
    <2>1. Doomed' = Doomed
      BY <1>2 DEF vars, Doomed
    <2>. QED
      BY <1>1, <1>2, <2>1, QuietStep DEF vars, Inv
  <1>. QED
    BY <1>1, <1>2, SendInv, DeniedInv, OverInv, AnswerInv, RotateInv
    DEF Inv, Next, Receive

\* The shape of the session's state, for any tokens and any number of slots.
THEOREM SessionTyped == Spec => []TypeOK
  <1>1. Inv => TypeOK
    BY DEF Inv
  <1>. QED
    BY <1>1, InitInv, NextInv, PTL DEF Spec

\* No storm of questions: however many requests are under way, however late
\* their answers come and whichever are lost, a change of the token or a
\* mistake costs at most one question for each of them.
THEOREM PromptsAreBounded == Spec => []PromptsBounded
  <1>1. Inv => PromptsBounded
    <2>. SUFFICES ASSUME Inv PROVE PromptsBounded
      OBVIOUS
    <2>1. ToCome \in 0..N /\ N \in Nat
      BY ToComeBounds, SlotsCounted DEF Inv
    <2>2. prompts \in Nat /\ rotations + mistakes \in Nat
      BY DEF Inv, TypeOK, TooOften
    <2>3. N * (rotations + mistakes) \in Nat
      BY <2>1, <2>2
    <2>4. prompts <= 1 + N * (rotations + mistakes)
      BY <2>1, <2>2, <2>3 DEF Inv, Owed
    <2>. QED
      BY <2>4 DEF PromptsBounded, N
  <1>. QED
    BY <1>1, InitInv, NextInv, PTL DEF Spec

=============================================================================
