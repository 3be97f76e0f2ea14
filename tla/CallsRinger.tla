---------------------------- MODULE CallsRinger ----------------------------
(***************************************************************************)
(* The ringer (src/calls-ringer.c) and the asynchronous feedback service   *)
(* (libfeedback) that makes the noise for it.                              *)
(*                                                                         *)
(* The ringer watches every call the manager announces.  From their states *)
(* it derives a target ring state and walks its own state there by asking  *)
(* the service to start or to end one of two feedback events.  Both        *)
(* requests are answered later, and a feedback may also end by itself, so  *)
(* between a request and its answer the calls may change again.            *)
(*                                                                         *)
(* An event is named by the ring state it sounds for: "RINGING" is         *)
(* self->ringing_event, "RINGING_SOFT" is self->ringing_soft_event.        *)
(* Abstracted: the GCancellable (it is only ever cancelled by dispose),    *)
(* profiles and timeouts of the events, and the logging.                   *)
(***************************************************************************)
EXTENDS Naturals, Sequences

CONSTANTS
  ExplicitReason,   \* end reason the service reports when the client ended it
  OtherReasons,     \* end reasons it may report otherwise
  MayFail,          \* TRUE if an operation of the service may fail
  InOrder,          \* TRUE if a signal is delivered before any later answer
  MaxRequests       \* bound: the calls do not change while this many are open

EndReason == {"NOT_FOUND", "NATURAL", "EXPIRED", "EXPLICIT"}

ASSUME ServiceAssumption ==
  /\ ExplicitReason \in EndReason
  /\ OtherReasons \subseteq EndReason
  /\ MayFail \in BOOLEAN
  /\ InOrder \in BOOLEAN
  /\ MaxRequests \in Nat \ {0}

VARIABLES
  incoming,   \* have_incoming_call(): some watched call is to be rung for
  active,     \* have_active_call(): some watched call is being made or held
  state,      \* self->state
  target,     \* self->target_state
  frozen,     \* self->freeze_state_notify
  notified,   \* the state listeners of notify::state last saw
  requests,   \* operations at the service, in the order they were issued
  playing,    \* events whose feedback is running
  ended       \* feedback-ended signals not delivered yet: <<event, reason>>

ringerVars  == <<state, target, frozen, notified>>
serviceVars == <<requests, playing, ended>>
callsVars   == <<incoming, active>>
vars        == <<incoming, active, state, target, frozen, notified, requests, playing, ended>>

-----------------------------------------------------------------------------
Event     == {"RINGING", "RINGING_SOFT"}
Target    == Event \union {"INACTIVE"}
RingState == Target \union {"ERROR"}

Trigger(e) == [op |-> "trigger", event |-> e]
End(e)     == [op |-> "end", event |-> e]
Request    == [op: {"trigger", "end"}, event: Event]

-----------------------------------------------------------------------------
(* What the calls ask for. *)

Wanted ==
  IF ~incoming    THEN "INACTIVE"
  ELSE IF ~active THEN "RINGING" ELSE "RINGING_SOFT"

-----------------------------------------------------------------------------
(* The helpers read the values state and target are given in this step and *)
(* add to `queue`, the operations that remain open.                        *)

TargetStateStep(queue) ==
  IF state' \in {target', "ERROR"}
    THEN requests' = queue /\ UNCHANGED frozen
  ELSE IF state' = "INACTIVE"
    THEN requests' = Append(queue, Trigger(target')) /\ UNCHANGED frozen
  ELSE /\ requests' = Append(queue, End(state'))
       /\ frozen' = (frozen \/ target' \in Event)

\* Mutant: set_ring_state() does not go on towards the target.
SetRingStateStops(s, queue) ==
  /\ state' = s
  /\ frozen' = (frozen /\ s # target')
  /\ notified' = IF frozen' THEN notified ELSE s
  /\ requests' = queue

\* Mutant: set_ring_state() never lifts the freeze of notify::state.
SetRingStateFrozen(s, queue) ==
  IF state = s
    THEN requests' = queue /\ UNCHANGED <<state, frozen, notified>>
    ELSE /\ state' = s
         /\ TargetStateStep(queue)
         /\ notified' = IF frozen' THEN notified ELSE s

SetRingState(s, queue) ==
  IF state = s
    THEN requests' = queue /\ UNCHANGED <<state, frozen, notified>>
    ELSE /\ state' = s
         /\ IF s = target' THEN frozen' = FALSE /\ requests' = queue
                           ELSE TargetStateStep(queue)
         /\ notified' = IF frozen' THEN notified ELSE s

\* Mutant: a target that changes while a request is open is ignored.
SetTargetStateIdle(t) ==
  /\ UNCHANGED <<state, notified>>
  /\ IF target = t \/ requests # <<>> THEN UNCHANGED <<target, frozen, requests>>
     ELSE target' = t /\ TargetStateStep(requests)

SetTargetState(t) ==
  /\ UNCHANGED <<state, notified>>
  /\ target' = t
  /\ IF target = t THEN UNCHANGED <<frozen, requests>>
                   ELSE TargetStateStep(requests)

\* update_ring(), run on every signal of the calls, after they changed.
UpdateRing ==
  IF state = "ERROR" THEN UNCHANGED <<ringerVars, requests>>
                     ELSE SetTargetState(Wanted')

-----------------------------------------------------------------------------
(* A call is added, changes or is removed: whatever it was, the ringer     *)
(* looks at its calls again, which may or may not ask for something else.  *)

CallsSignal ==
  /\ Len(requests) < MaxRequests
  /\ incoming' \in BOOLEAN
  /\ active' \in BOOLEAN
  /\ UpdateRing
  /\ UNCHANGED <<playing, ended>>

-----------------------------------------------------------------------------
(* The service.  It answers in the order it was asked; a feedback-ended    *)
(* signal may be delivered before or after any answer.                     *)

\* on_event_triggered() after success: the feedback runs.
Triggered ==
  /\ requests # <<>>
  /\ Head(requests).op = "trigger"
  /\ playing' = playing \union {Head(requests).event}
  /\ UNCHANGED <<callsVars, target, ended>>
  /\ SetRingState(Head(requests).event, Tail(requests))

\* on_event_feedback_ended() after success changes nothing here: the ringer
\* waits for the feedback-ended signal, which comes if a feedback was running.
EndAnswered ==
  /\ requests # <<>>
  /\ Head(requests).op = "end"
  /\ requests' = Tail(requests)
  /\ playing' = playing \ {Head(requests).event}
  /\ ended' = IF Head(requests).event \in playing
                THEN ended \union {<<Head(requests).event, ExplicitReason>>}
                ELSE ended
  /\ UNCHANGED <<callsVars, ringerVars>>

\* Both callbacks treat a failure alike.
Failed ==
  /\ MayFail
  /\ requests # <<>>
  /\ UNCHANGED <<callsVars, target, playing, ended>>
  /\ SetRingState("ERROR", Tail(requests))

Answer == (InOrder => ended = {}) /\ (Triggered \/ EndAnswered \/ Failed)

\* The service's own end of a feedback: done, timed out, or nothing to play it.
FeedbackOver(e) ==
  /\ e \in playing
  /\ playing' = playing \ {e}
  /\ \E r \in OtherReasons : ended' = ended \union {<<e, r>>}
  /\ UNCHANGED <<callsVars, ringerVars, requests>>

\* Mutant: only feedback that gave up ends the ringing.
FeedbackEndedUnseen(e) ==
  \E r \in EndReason :
    /\ <<e, r>> \in ended
    /\ ended' = ended \ {<<e, r>>}
    /\ target' = IF r \in {"NOT_FOUND", "EXPLICIT"} THEN "INACTIVE" ELSE target
    /\ UNCHANGED <<callsVars, playing>>
    /\ IF target' = target THEN UNCHANGED <<state, frozen, notified, requests>>
       ELSE SetRingState("INACTIVE", requests)

\* Mutant: a feedback that ended by itself is not started again either.
FeedbackEndedGivesUp(e) ==
  \E r \in EndReason :
    /\ <<e, r>> \in ended
    /\ ended' = ended \ {<<e, r>>}
    /\ target' = "INACTIVE"
    /\ UNCHANGED <<callsVars, playing>>
    /\ SetRingState("INACTIVE", requests)

\* on_feedback_ended(), the handler of an event's feedback-ended signal.
FeedbackEnded(e) ==
  \E r \in EndReason :
    /\ <<e, r>> \in ended
    /\ ended' = ended \ {<<e, r>>}
    /\ target' = IF r \in {"NOT_FOUND", "EXPLICIT"} THEN "INACTIVE" ELSE target
    /\ UNCHANGED <<callsVars, playing>>
    /\ SetRingState("INACTIVE", requests)

-----------------------------------------------------------------------------
Init ==
  /\ incoming = FALSE
  /\ active = FALSE
  /\ state \in {"INACTIVE", "ERROR"}
  /\ state = "ERROR" => MayFail            \* lfb_init() failed
  /\ target = "INACTIVE"
  /\ frozen = FALSE
  /\ notified = state
  /\ requests = <<>>
  /\ playing = {}
  /\ ended = {}

Next ==
  \/ CallsSignal
  \/ Answer
  \/ \E e \in Event : FeedbackOver(e) \/ FeedbackEnded(e)

\* The service answers what it was asked, and the main loop delivers its
\* signals.  Nothing obliges calls to change or a feedback to run out.
Fairness ==
  /\ WF_vars(Answer)
  /\ \A e \in Event : WF_vars(FeedbackEnded(e))
  /\ WF_vars(FeedbackOver("RINGING_SOFT"))

Spec     == Init /\ [][Next]_vars
FairSpec == Spec /\ Fairness

-----------------------------------------------------------------------------
TypeOK ==
  /\ incoming \in BOOLEAN
  /\ active \in BOOLEAN
  /\ state \in RingState
  /\ target \in Target
  /\ frozen \in BOOLEAN
  /\ notified \in RingState
  /\ requests \in Seq(Request)
  /\ playing \subseteq Event
  /\ ended \subseteq (Event \X EndReason)

\* Nothing is under way between the ringer and the service.
Settled == requests = <<>> /\ ended = {} /\ state # "ERROR"

\* No update is lost: whatever overlapped, once the service is quiet the
\* ringer is in the state it was heading for (target_state_step is called
\* again from every place that may leave it short of its target).
SettledOnTarget == Settled => state = target

\* Holding notify::state back during a restart never hides a change for good.
SettledIsNotified == Settled => notified = state

\* The ringer never believes to be ringing when no feedback is running,
\* unless the signal that tells it so is already on its way.
RingingIsAudible ==
  state \in Event => state \in playing \/ \E r \in EndReason : <<state, r>> \in ended

\* What the calls ask for is what the phone does once the service is quiet.
SettledAsWanted == Settled => state = Wanted

\* A lasting wish to ring is granted (again and again, if the feedback ends).
RingsWhenWanted ==
  \A t \in Event : <>[](Wanted = t) => []<>(state = t)

\* When no call wants it any more, the phone falls silent for good.
FallsSilent == <>[](Wanted = "INACTIVE") => <>[](playing = {} /\ state = "INACTIVE")
=============================================================================
