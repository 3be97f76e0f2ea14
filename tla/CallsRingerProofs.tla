------------------------- MODULE CallsRingerProofs -------------------------
(***************************************************************************)
(* Proofs about CallsRinger, for every value of its constants: any end     *)
(* reasons, a service that may fail or not, answers and signals in any     *)
(* order, and any number of overlapping operations.                        *)
(***************************************************************************)
EXTENDS CallsRinger, TLAPS

\* Request r is in the queue q.
In(r, q) == \E i \in 1..Len(q) : q[i] = r

\* The ringer off its target has asked for the step that brings it closer.
Progressing ==
  state \notin {target, "ERROR"} =>
    IF state = "INACTIVE"
      THEN \E e \in Event : In(Trigger(e), requests)
      ELSE In(End(state), requests) \/ ended # {}

\* notify::state is held back only while a restart is under way.
FrozenIsRestarting ==
  frozen => \/ state = "ERROR"
            \/ state = "INACTIVE" /\ \E e \in Event : In(Trigger(e), requests)
            \/ state \in Event /\ (In(End(state), requests) \/ ended # {})

UnfrozenIsNotified == ~frozen => notified = state

IInv ==
  /\ TypeOK
  /\ Progressing
  /\ FrozenIsRestarting
  /\ UnfrozenIsNotified
  /\ RingingIsAudible

-----------------------------------------------------------------------------
(* Queues of requests. *)

\* An element of an appended queue is old or the appended one.
LEMMA AppendIn ==
  ASSUME NEW q \in Seq(Request), NEW r \in Request
  PROVE  /\ Append(q, r) \in Seq(Request)
         /\ In(r, Append(q, r))
         /\ \A x : In(x, q) => In(x, Append(q, r))
<1>1. Append(q, r) \in Seq(Request)
  OBVIOUS
<1>2. Len(Append(q, r)) = Len(q) + 1 /\ Append(q, r)[Len(q) + 1] = r
  OBVIOUS
<1>3. \A i \in 1..Len(q) : Append(q, r)[i] = q[i]
  OBVIOUS
<1>4. Len(q) \in Nat
  OBVIOUS
<1>5. QED
  BY <1>1, <1>2, <1>3, <1>4 DEF In

\* The tail of a queue holds nothing new.
LEMMA TailIn ==
  ASSUME NEW q \in Seq(Request), q # <<>>
  PROVE  /\ Head(q) \in Request
         /\ Tail(q) \in Seq(Request)
         /\ \A x : In(x, q) /\ x # Head(q) => In(x, Tail(q))
<1>1. Head(q) \in Request /\ Tail(q) \in Seq(Request)
  OBVIOUS
<1>2. ASSUME NEW x, In(x, q), x # Head(q)
      PROVE  In(x, Tail(q))
  <2>1. PICK i \in 1..Len(q) : q[i] = x
    BY <1>2 DEF In
  <2>2. i # 1
    BY <1>2, <2>1
  <2>3. i - 1 \in 1..Len(Tail(q)) /\ Tail(q)[i - 1] = q[i]
    BY <2>2
  <2>4. QED
    BY <2>1, <2>3 DEF In
<1>3. QED
  BY <1>1, <1>2

\* The empty queue holds nothing.
LEMMA EmptyIn == ASSUME NEW x PROVE ~In(x, <<>>)
  BY DEF In

-----------------------------------------------------------------------------
(* What target_state_step() and set_ring_state() leave behind. *)

\* target_state_step() issues at most one request, towards the target.
LEMMA TargetStateStepResult ==
  ASSUME NEW q \in Seq(Request), frozen \in BOOLEAN,
         state' \in RingState, target' \in Target, TargetStateStep(q)
  PROVE  /\ requests' \in Seq(Request)
         /\ frozen' \in BOOLEAN
         /\ \A x : In(x, q) => In(x, requests')
         /\ state' = "INACTIVE" /\ state' # target'
              => frozen' = frozen /\ \E e \in Event : In(Trigger(e), requests')
         /\ state' \in Event /\ state' # target' => In(End(state'), requests')
         /\ state' \in {target', "ERROR"} => frozen' = frozen
<1>1. CASE state' \in {target', "ERROR"}
  BY <1>1 DEF TargetStateStep, Event
<1>2. CASE state' \notin {target', "ERROR"} /\ state' = "INACTIVE"
  <2>1. target' \in Event
    BY <1>2 DEF Target
  <2>2. Trigger(target') \in Request
    BY <2>1 DEF Trigger, Request
  <2>3. requests' = Append(q, Trigger(target')) /\ frozen' = frozen
    BY <1>2 DEF TargetStateStep
  <2>4. QED
    BY <1>2, <2>1, <2>2, <2>3, AppendIn DEF Event
<1>3. CASE state' \notin {target', "ERROR"} /\ state' # "INACTIVE"
  <2>1. state' \in Event
    BY <1>3 DEF RingState, Target
  <2>2. End(state') \in Request
    BY <2>1 DEF End, Request
  <2>3. requests' = Append(q, End(state')) /\ frozen' = (frozen \/ target' \in Event)
    BY <1>3 DEF TargetStateStep
  <2>4. QED
    BY <1>3, <2>2, <2>3, AppendIn
<1>4. QED
  BY <1>1, <1>2, <1>3

\* set_ring_state() to another state: it is notified or held back, and the
\* ringer goes on towards its target.
LEMMA SetRingStateResult ==
  ASSUME TypeOK, UnfrozenIsNotified,
         NEW q \in Seq(Request), NEW s \in RingState, s # state,
         target' \in Target, SetRingState(s, q)
  PROVE  /\ state' = s
         /\ requests' \in Seq(Request)
         /\ frozen' \in BOOLEAN
         /\ notified' \in RingState
         /\ Progressing'
         /\ FrozenIsRestarting'
         /\ UnfrozenIsNotified'
<1> USE DEF TypeOK
<1>1. state' = s
  BY DEF SetRingState
<1>2. notified' = IF frozen' THEN notified ELSE s
  BY DEF SetRingState
<1>3. CASE s = target'
  <2>1. frozen' = FALSE /\ requests' = q
    BY <1>3 DEF SetRingState
  <2>2. QED
    BY <1>1, <1>2, <1>3, <2>1
       DEF Progressing, FrozenIsRestarting, UnfrozenIsNotified
<1>4. CASE s # target'
  <2>1. TargetStateStep(q)
    BY <1>4 DEF SetRingState
  <2>2. /\ requests' \in Seq(Request)
        /\ frozen' \in BOOLEAN
        /\ s = "INACTIVE" => \E e \in Event : In(Trigger(e), requests')
        /\ s \in Event => In(End(s), requests')
    BY <1>1, <1>4, <2>1, TargetStateStepResult
  <2>3. s = "ERROR" \/ s = "INACTIVE" \/ s \in Event
    BY DEF RingState, Target
  <2>4. notified' \in RingState
    BY <1>2
  <2>5. Progressing'
    BY <1>1, <2>2, <2>3 DEF Progressing
  <2>6. FrozenIsRestarting'
    BY <1>1, <2>2, <2>3 DEF FrozenIsRestarting
  <2>7. UnfrozenIsNotified'
    BY <1>1, <1>2 DEF UnfrozenIsNotified
  <2>8. QED
    BY <1>1, <2>2, <2>4, <2>5, <2>6, <2>7
<1>5. QED
  BY <1>3, <1>4

\* The state is already the one to be set: only the queue moves on.
LEMMA SameRingState ==
  ASSUME NEW q, NEW s, s = state, SetRingState(s, q)
  PROVE  requests' = q /\ state' = state /\ frozen' = frozen /\ notified' = notified
  BY DEF SetRingState

-----------------------------------------------------------------------------
(* Every step keeps the invariant. *)

\* update_ring() after any change of the calls.
LEMMA CallsSignalKeeps == IInv /\ CallsSignal => IInv'
<1> SUFFICES ASSUME IInv, CallsSignal PROVE IInv'
  OBVIOUS
<1> USE DEF IInv, TypeOK
<1>1. /\ incoming' \in BOOLEAN /\ active' \in BOOLEAN
      /\ playing' = playing /\ ended' = ended
  BY DEF CallsSignal
<1>2. CASE UNCHANGED <<ringerVars, requests>>
  BY <1>1, <1>2 DEF ringerVars, Progressing, FrozenIsRestarting,
       UnfrozenIsNotified, RingingIsAudible
<1>3. CASE SetTargetState(Wanted')
  <2>1. state' = state /\ notified' = notified /\ target' = Wanted'
    BY <1>3 DEF SetTargetState
  <2>2. target' \in Target
    BY <2>1 DEF Wanted, Target, Event
  <2>3. RingingIsAudible'
    BY <1>1, <2>1 DEF RingingIsAudible
  <2>4. CASE target = Wanted'
    <3>1. UNCHANGED <<ringerVars, requests>>
      BY <1>3, <2>1, <2>4 DEF SetTargetState, ringerVars
    <3>2. QED
      BY <1>2, <3>1
  <2>5. CASE target # Wanted'
    <3>1. TargetStateStep(requests)
      BY <1>3, <2>5 DEF SetTargetState
    <3>2. /\ requests' \in Seq(Request)
          /\ frozen' \in BOOLEAN
          /\ \A x : In(x, requests) => In(x, requests')
          /\ state' = "INACTIVE" /\ state' # target'
               => frozen' = frozen /\ \E e \in Event : In(Trigger(e), requests')
          /\ state' \in Event /\ state' # target' => In(End(state'), requests')
          /\ state' \in {target', "ERROR"} => frozen' = frozen
      BY <2>1, <2>2, <3>1, TargetStateStepResult
    <3>3. state = "ERROR" \/ state = "INACTIVE" \/ state \in Event
      BY DEF RingState, Target
    <3>4. Progressing'
      BY <1>1, <2>1, <3>2, <3>3 DEF Progressing
    <3>5. FrozenIsRestarting'
      <4>1. CASE state \in Event /\ state # target'
        BY <2>1, <3>2, <4>1 DEF FrozenIsRestarting
      <4>2. CASE ~(state \in Event /\ state # target')
        <5>1. frozen' = frozen
          BY <2>1, <3>2, <3>3, <4>2
        <5>2. QED
          BY <1>1, <2>1, <3>2, <5>1 DEF FrozenIsRestarting
      <4>3. QED
        BY <4>1, <4>2
    <3>6. UnfrozenIsNotified'
      <4>1. ~frozen' => ~frozen
        BY <3>1, <3>2 DEF TargetStateStep
      <4>2. QED
        BY <2>1, <4>1 DEF UnfrozenIsNotified
    <3>7. QED
      BY <1>1, <2>1, <2>2, <2>3, <3>2, <3>4, <3>5, <3>6
  <2>6. QED
    BY <2>4, <2>5
<1>4. QED
  BY <1>2, <1>3 DEF CallsSignal, UpdateRing

\* A trigger is answered: on_event_triggered().
LEMMA TriggeredKeeps == IInv /\ Triggered => IInv'
<1> SUFFICES ASSUME IInv, Triggered PROVE IInv'
  OBVIOUS
<1> USE DEF IInv, TypeOK
<1> DEFINE e == Head(requests).event
<1>1. /\ requests # <<>> /\ Head(requests).op = "trigger"
      /\ playing' = playing \union {e}
      /\ target' = target /\ ended' = ended /\ UNCHANGED callsVars
      /\ SetRingState(e, Tail(requests))
  BY DEF Triggered
<1>2. Head(requests) \in Request /\ Tail(requests) \in Seq(Request)
  BY <1>1, TailIn
<1>3. e \in Event /\ e \in RingState /\ e # "ERROR" /\ e # "INACTIVE"
  BY <1>2 DEF Request, RingState, Target, Event
<1>4. incoming' \in BOOLEAN /\ active' \in BOOLEAN /\ playing' \subseteq Event
  BY <1>1, <1>3 DEF callsVars
<1>5. CASE e = state
  <2>1. /\ requests' = Tail(requests) /\ state' = state
        /\ frozen' = frozen /\ notified' = notified
    BY <1>1, <1>5, SameRingState
  <2>2. End(state) # Head(requests)
    BY <1>1 DEF End
  <2>3. In(End(state), requests) => In(End(state), requests')
    BY <1>1, <2>1, <2>2, TailIn
  <2>4. RingingIsAudible'
    BY <1>1, <1>5, <2>1 DEF RingingIsAudible
  <2>5. Progressing' /\ FrozenIsRestarting' /\ UnfrozenIsNotified'
    BY <1>1, <1>3, <1>5, <2>1, <2>3
       DEF Progressing, FrozenIsRestarting, UnfrozenIsNotified
  <2>6. QED
    BY <1>1, <1>2, <1>4, <2>1, <2>4, <2>5
<1>6. CASE e # state
  <2>1. /\ state' = e
        /\ requests' \in Seq(Request) /\ frozen' \in BOOLEAN /\ notified' \in RingState
        /\ Progressing' /\ FrozenIsRestarting' /\ UnfrozenIsNotified'
    BY <1>1, <1>2, <1>3, <1>6, SetRingStateResult
  <2>2. RingingIsAudible'
    BY <1>1, <2>1 DEF RingingIsAudible
  <2>3. QED
    BY <1>1, <1>3, <1>4, <2>1, <2>2
<1>7. QED
  BY <1>5, <1>6

\* An end is answered: on_event_feedback_ended().
LEMMA EndAnsweredKeeps == IInv /\ EndAnswered => IInv'
<1> SUFFICES ASSUME IInv, EndAnswered PROVE IInv'
  OBVIOUS
<1> USE DEF IInv, TypeOK
<1> DEFINE e == Head(requests).event
<1>1. /\ requests # <<>> /\ Head(requests).op = "end"
      /\ requests' = Tail(requests)
      /\ playing' = playing \ {e}
      /\ ended' = IF e \in playing THEN ended \union {<<e, ExplicitReason>>} ELSE ended
      /\ UNCHANGED <<callsVars, ringerVars>>
  BY DEF EndAnswered
<1>2. Head(requests) \in Request /\ Tail(requests) \in Seq(Request)
  BY <1>1, TailIn
<1>3. e \in Event /\ ended' \subseteq Event \X EndReason
  BY <1>1, <1>2, ServiceAssumption DEF Request
<1>4. TypeOK'
  BY <1>1, <1>2, <1>3 DEF callsVars, ringerVars
<1>5. ended \subseteq ended'
  BY <1>1
<1>6. RingingIsAudible'
  BY <1>1, <1>5, ServiceAssumption DEF RingingIsAudible, ringerVars
<1>7. \A t \in Event : In(Trigger(t), requests) => In(Trigger(t), requests')
  <2>1. \A t \in Event : Trigger(t) # Head(requests)
    BY <1>1 DEF Trigger
  <2>2. QED
    BY <1>1, <2>1, TailIn
<1>8. state \in Event /\ In(End(state), requests)
        => In(End(state), requests') \/ ended' # {}
  <2> SUFFICES ASSUME state \in Event, In(End(state), requests)
               PROVE  In(End(state), requests') \/ ended' # {}
    OBVIOUS
  <2>1. CASE End(state) # Head(requests)
    BY <1>1, <2>1, TailIn
  <2>2. CASE End(state) = Head(requests)
    <3>1. e = state
      BY <2>2 DEF End
    <3>2. state \in playing \/ ended # {}
      BY DEF RingingIsAudible
    <3>3. QED
      BY <1>1, <1>5, <3>1, <3>2
  <2>3. QED
    BY <2>1, <2>2
<1>9. Progressing'
  BY <1>1, <1>5, <1>7, <1>8 DEF Progressing, ringerVars, RingState, Target
<1>10. FrozenIsRestarting'
  BY <1>1, <1>5, <1>7, <1>8 DEF FrozenIsRestarting, ringerVars
<1>11. UnfrozenIsNotified'
  BY <1>1 DEF UnfrozenIsNotified, ringerVars
<1>12. QED
  BY <1>4, <1>6, <1>9, <1>10, <1>11

\* Either is answered with an error.
LEMMA FailedKeeps == IInv /\ Failed => IInv'
<1> SUFFICES ASSUME IInv, Failed PROVE IInv'
  OBVIOUS
<1> USE DEF IInv, TypeOK
<1>1. /\ requests # <<>>
      /\ UNCHANGED <<callsVars, target, playing, ended>>
      /\ SetRingState("ERROR", Tail(requests))
  BY DEF Failed
<1>2. Tail(requests) \in Seq(Request)
  BY <1>1, TailIn
<1>3. "ERROR" \in RingState /\ "ERROR" \notin Event
  BY DEF RingState, Target, Event
<1>4. incoming' \in BOOLEAN /\ active' \in BOOLEAN
  BY <1>1 DEF callsVars
<1>5. CASE state = "ERROR"
  <2>1. /\ requests' = Tail(requests) /\ state' = state
        /\ frozen' = frozen /\ notified' = notified
    BY <1>1, <1>5, SameRingState
  <2>2. RingingIsAudible' /\ Progressing' /\ FrozenIsRestarting' /\ UnfrozenIsNotified'
    BY <1>3, <1>5, <2>1
       DEF RingingIsAudible, Progressing, FrozenIsRestarting, UnfrozenIsNotified
  <2>3. QED
    BY <1>1, <1>2, <1>4, <2>1, <2>2
<1>6. CASE state # "ERROR"
  <2>1. /\ state' = "ERROR"
        /\ requests' \in Seq(Request) /\ frozen' \in BOOLEAN /\ notified' \in RingState
        /\ Progressing' /\ FrozenIsRestarting' /\ UnfrozenIsNotified'
    BY <1>1, <1>2, <1>3, <1>6, SetRingStateResult
  <2>2. RingingIsAudible'
    BY <1>3, <2>1 DEF RingingIsAudible
  <2>3. QED
    BY <1>1, <1>3, <1>4, <2>1, <2>2
<1>7. QED
  BY <1>5, <1>6

\* The service stops a feedback by itself.
LEMMA FeedbackOverKeeps ==
  ASSUME NEW e \in Event, IInv, FeedbackOver(e) PROVE IInv'
<1> USE DEF IInv, TypeOK
<1>1. PICK r \in OtherReasons : ended' = ended \union {<<e, r>>}
  BY DEF FeedbackOver
<1>2. /\ playing' = playing \ {e}
      /\ UNCHANGED <<callsVars, ringerVars, requests>>
  BY DEF FeedbackOver
<1>3. r \in EndReason
  BY ServiceAssumption
<1>4. TypeOK'
  BY <1>1, <1>2, <1>3 DEF callsVars, ringerVars
<1>5. RingingIsAudible'
  BY <1>1, <1>2, <1>3 DEF RingingIsAudible, ringerVars
<1>6. Progressing' /\ FrozenIsRestarting' /\ UnfrozenIsNotified'
  BY <1>1, <1>2 DEF Progressing, FrozenIsRestarting, UnfrozenIsNotified, ringerVars
<1>7. QED
  BY <1>4, <1>5, <1>6

\* on_feedback_ended().
LEMMA FeedbackEndedKeeps ==
  ASSUME NEW e \in Event, IInv, FeedbackEnded(e) PROVE IInv'
<1> USE DEF IInv, TypeOK
<1>1. PICK r \in EndReason :
        /\ ended' = ended \ {<<e, r>>}
        /\ target' = IF r \in {"NOT_FOUND", "EXPLICIT"} THEN "INACTIVE" ELSE target
        /\ UNCHANGED <<callsVars, playing>>
        /\ SetRingState("INACTIVE", requests)
  BY DEF FeedbackEnded
<1>2. target' \in Target
  BY <1>1 DEF Target
<1>3. "INACTIVE" \in RingState /\ "INACTIVE" \notin Event
  BY DEF RingState, Target, Event
<1>4. incoming' \in BOOLEAN /\ active' \in BOOLEAN
  BY <1>1 DEF callsVars
<1>5. CASE state = "INACTIVE"
  <2>1. /\ requests' = requests /\ state' = state
        /\ frozen' = frozen /\ notified' = notified
    BY <1>1, <1>5, SameRingState
  <2>2. Progressing'
    BY <1>1, <1>5, <2>1 DEF Progressing
  <2>3. RingingIsAudible' /\ FrozenIsRestarting' /\ UnfrozenIsNotified'
    BY <1>3, <1>5, <2>1
       DEF RingingIsAudible, FrozenIsRestarting, UnfrozenIsNotified
  <2>4. QED
    BY <1>1, <1>2, <1>4, <2>1, <2>2, <2>3
<1>6. CASE state # "INACTIVE"
  <2>1. /\ state' = "INACTIVE"
        /\ requests' \in Seq(Request) /\ frozen' \in BOOLEAN /\ notified' \in RingState
        /\ Progressing' /\ FrozenIsRestarting' /\ UnfrozenIsNotified'
    BY <1>1, <1>2, <1>3, <1>6, SetRingStateResult
  <2>2. RingingIsAudible'
    BY <1>3, <2>1 DEF RingingIsAudible
  <2>3. QED
    BY <1>1, <1>2, <1>3, <1>4, <2>1, <2>2
<1>7. QED
  BY <1>5, <1>6

-----------------------------------------------------------------------------
\* The invariant is inductive.
LEMMA IInvInductive == IInv /\ [Next]_vars => IInv'
<1> SUFFICES ASSUME IInv, [Next]_vars PROVE IInv'
  OBVIOUS
<1>1. CASE UNCHANGED vars
  BY <1>1 DEF vars, IInv, TypeOK, Progressing, FrozenIsRestarting,
       UnfrozenIsNotified, RingingIsAudible
<1>2. CASE CallsSignal
  BY <1>2, CallsSignalKeeps
<1>3. CASE Answer
  BY <1>3, TriggeredKeeps, EndAnsweredKeeps, FailedKeeps DEF Answer
<1>4. CASE \E e \in Event : FeedbackOver(e) \/ FeedbackEnded(e)
  BY <1>4, FeedbackOverKeeps, FeedbackEndedKeeps
<1>5. QED
  BY <1>1, <1>2, <1>3, <1>4 DEF Next

\* The ringer starts with nothing under way (calls_ringer_init).
LEMMA InitTypeOK == Init => TypeOK
<1>1. <<>> \in Seq(Request)
  OBVIOUS
<1>2. QED
  BY <1>1 DEF Init, TypeOK, RingState, Target, Event

\* It therefore holds throughout.
LEMMA Invariance == Spec => []IInv
<1>1. Init => IInv
  <2>1. Init => TypeOK
    BY InitTypeOK
  <2>2. Init => Progressing /\ FrozenIsRestarting /\ UnfrozenIsNotified /\ RingingIsAudible
    BY DEF Init, Progressing, FrozenIsRestarting, UnfrozenIsNotified,
           RingingIsAudible, Event
  <2>3. QED
    BY <2>1, <2>2 DEF IInv
<1>2. IInv /\ [Next]_vars => IInv'
  BY IInvInductive
<1>3. QED
  BY <1>1, <1>2, PTL DEF Spec

\* Every variable keeps its type; in particular only the two events are ever
\* triggered or ended, so get_event_for_state never reaches its assertion.
THEOREM TypeCorrect == Spec => []TypeOK
  BY Invariance, PTL DEF IInv

\* A ringing ringer has its feedback running, or is about to be told it ended.
THEOREM RingingAudible == Spec => []RingingIsAudible
  BY Invariance, PTL DEF IInv

\* However requests, answers, signals and failures overlapped, a ringer with
\* nothing under way has reached its target.
THEOREM NoLostUpdate == Spec => []SettledOnTarget
<1>1. IInv => SettledOnTarget
  BY EmptyIn DEF IInv, Progressing, SettledOnTarget, Settled
<1>2. QED
  BY <1>1, Invariance, PTL

\* Listeners of notify::state never stay behind a ringer at rest.
THEOREM NoHiddenState == Spec => []SettledIsNotified
<1>1. IInv => SettledIsNotified
  <2> SUFFICES ASSUME IInv, Settled PROVE notified = state
    BY DEF SettledIsNotified
  <2>1. ~frozen
    BY EmptyIn DEF IInv, FrozenIsRestarting, Settled
  <2>2. QED
    BY <2>1 DEF IInv, UnfrozenIsNotified
<1>2. QED
  BY <1>1, Invariance, PTL

-----------------------------------------------------------------------------
(* With a service that never fails and never reports NOT_FOUND or EXPLICIT *)
(* the ringer also follows the calls: the restriction its test works under.*)

NaturalService ==
  /\ ExplicitReason \in {"NATURAL", "EXPIRED"}
  /\ OtherReasons \subseteq {"NATURAL", "EXPIRED"}
  /\ ~MayFail

FollowInv ==
  /\ TypeOK
  /\ ended \subseteq (Event \X {"NATURAL", "EXPIRED"})
  /\ state # "ERROR"
  /\ target = Wanted

\* set_ring_state() sets the state.
LEMMA SetRingStateIs ==
  ASSUME NEW q, NEW s, SetRingState(s, q) PROVE state' = s
  BY DEF SetRingState

\* With such a service the target is always what the calls ask for.
LEMMA FollowInductive ==
  ASSUME NaturalService PROVE IInv /\ FollowInv /\ [Next]_vars => FollowInv'
<1> SUFFICES ASSUME IInv, FollowInv, [Next]_vars PROVE FollowInv'
  OBVIOUS
<1>1. TypeOK'
  BY IInvInductive DEF IInv
<1> USE <1>1 DEF FollowInv
<1>2. CASE UNCHANGED vars
  BY <1>2 DEF vars, Wanted
<1>3. CASE CallsSignal
  BY <1>3 DEF CallsSignal, UpdateRing, SetTargetState
<1>4. CASE Triggered
  <2>1. Head(requests).event \in Event
    BY <1>4, TailIn DEF Triggered, TypeOK, Request
  <2>2. state' # "ERROR"
    BY <1>4, <2>1, SetRingStateIs DEF Triggered, Event
  <2>3. QED
    BY <1>4, <2>2 DEF Triggered, callsVars, Wanted
<1>5. CASE EndAnswered
  <2>1. Head(requests).event \in Event
    BY <1>5, TailIn DEF EndAnswered, TypeOK, Request
  <2>2. ended' \subseteq (Event \X {"NATURAL", "EXPIRED"})
    BY <1>5, <2>1 DEF EndAnswered, NaturalService
  <2>3. QED
    BY <1>5, <2>2 DEF EndAnswered, callsVars, ringerVars, Wanted
<1>6. CASE Failed
  BY <1>6 DEF Failed, NaturalService
<1>7. ASSUME NEW e \in Event, FeedbackOver(e) PROVE FollowInv'
  <2>1. ended' \subseteq (Event \X {"NATURAL", "EXPIRED"})
    BY <1>7 DEF FeedbackOver, NaturalService
  <2>2. QED
    BY <1>7, <2>1 DEF FeedbackOver, callsVars, ringerVars, Wanted
<1>8. ASSUME NEW e \in Event, FeedbackEnded(e) PROVE FollowInv'
  <2>1. PICK r \in EndReason :
          /\ <<e, r>> \in ended
          /\ ended' = ended \ {<<e, r>>}
          /\ target' = IF r \in {"NOT_FOUND", "EXPLICIT"} THEN "INACTIVE" ELSE target
          /\ UNCHANGED <<callsVars, playing>>
          /\ SetRingState("INACTIVE", requests)
    BY <1>8 DEF FeedbackEnded
  <2>2. target' = target /\ state' = "INACTIVE"
    BY <2>1, SetRingStateIs
  <2>3. QED
    BY <2>1, <2>2 DEF callsVars, Wanted
<1>9. QED
  BY <1>2, <1>3, <1>4, <1>5, <1>6, <1>7, <1>8 DEF Next, Answer

\* With such a service, whenever nothing is under way the phone does exactly
\* what the calls ask for.
THEOREM FollowsCalls ==
  ASSUME NaturalService PROVE Spec => []SettledAsWanted
<1>1. Init => FollowInv
  BY InitTypeOK DEF Init, FollowInv, NaturalService, Wanted
<1>2. IInv /\ FollowInv /\ [Next]_vars => FollowInv'
  BY FollowInductive
<1>3. IInv /\ FollowInv => SettledAsWanted
  BY EmptyIn DEF IInv, FollowInv, Progressing, SettledAsWanted, Settled
<1>4. QED
  BY <1>1, <1>2, <1>3, Invariance, PTL DEF Spec
=============================================================================
