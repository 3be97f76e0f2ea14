------------------------------ MODULE CallsUssd -----------------------------
(***************************************************************************)
(* USSD: a code that is dialled starts a session with the network, which    *)
(* the user follows in a dialog of the main window                         *)
(* (src/calls-main-window.c, src/calls-new-call-box.c) through the modem's  *)
(* origin (calls-mm-origin.c, calls-ofono-origin.c).                       *)
(*                                                                         *)
(* The program asks the service over D-Bus, which handles requests in the   *)
(* order they were sent; answers and changes of its properties arrive in    *)
(* the order they were sent too.  ModemManager tells the state of the       *)
(* session, of which the program has a cached copy.  With oFono, the origin *)
(* makes up a state from what it asked and was answered.                   *)
(*                                                                         *)
(* Abstracted: texts, except whether there is one; an empty code; a modem   *)
(* whose USSD interface comes or goes while the dialog is used; the entry,  *)
(* in which the user types before the reply is sent.                       *)
(***************************************************************************)
EXTENDS Sequences, Naturals

CONSTANTS
  MaxDials,     \* bound: codes the user dials
  MaxMoves      \* bound: replies the user sends, and what the network does of
                \* its own accord, together

ASSUME UssdAssumption == MaxDials \in Nat /\ MaxMoves \in Nat

VARIABLES
  service,      \* whose origin it is
  session,      \* state of the session, as the service knows it
  working,      \* the request whose answer the network owes the service
  inbox,        \* messages to the program
  ussd,         \* the memory of the program
  dials, moves

ussdVars == <<service, session, working, inbox, ussd, dials, moves>>

SessionState == {"UNKNOWN", "IDLE", "ACTIVE", "USER_RESPONSE"}

\* "reinitiate" is a cancel after which the code is sent again.
UssdRequest == {"initiate", "respond", "cancel", "reinitiate"}

NoSession ==
  [state   |-> IF service = "mm" THEN "IDLE" ELSE "UNKNOWN",  \* calls_ussd_get_state()
   outbox  |-> <<>>,
   open    |-> FALSE,      \* the dialog is there
   bound   |-> FALSE,      \* its data "ussd" is set
   content |-> FALSE,      \* its stack shows text and entry, not the spinner
   reply   |-> TRUE,       \* its button to reply is visible
   cancel  |-> TRUE]       \* as is its button to cancel, otherwise that to close

-----------------------------------------------------------------------------
(* The program. *)

Ask(d, r) == [d EXCEPT !.outbox = Append(@, r)]

\* Mutant: a dialog with a button to reply is never updated.
UpdateButtonsOnce(d) ==
  IF d.reply THEN d
  ELSE [d EXCEPT !.reply = d.state = "USER_RESPONSE",
                 !.cancel = d.state \in {"USER_RESPONSE", "ACTIVE"}]

\* window_update_ussd_state(): the button to close is the inverse of that to
\* cancel.
UpdateButtons(d) ==
  IF d.state = "ACTIVE" /\ d.reply THEN d
  ELSE [d EXCEPT !.reply = d.state = "USER_RESPONSE",
                 !.cancel = d.state \in {"USER_RESPONSE", "ACTIVE"}]

\* ussd_dialog_closed_cb(), from "closed" and from the button to cancel.
CancelSession(d) == IF d.bound THEN Ask(d, "cancel") ELSE d

\* adw_dialog_close()
CloseDialog(d) == IF d.open THEN CancelSession([d EXCEPT !.open = FALSE]) ELSE d

\* The second half of initiate_async(): oFono's origin takes the session for
\* active from then on, and still does if the answer is an error.
SendCode(d) ==
  Ask(IF service = "ofono" THEN [d EXCEPT !.state = "ACTIVE"] ELSE d, "initiate")

\* initiate_async(): a session that goes on is cancelled first.
Initiate(d) ==
  IF d.state \in {"ACTIVE", "USER_RESPONSE"} THEN Ask(d, "reinitiate") ELSE SendCode(d)

\* main_window_ussd_send_cb()
SendDone(d, ok) ==
  IF ok THEN UpdateButtons([d EXCEPT !.bound = TRUE, !.content = TRUE]) ELSE CloseDialog(d)

\* oFono's ussd_initiate_cb(), ussd_cancel_cb(): the state that follows from
\* the answer to r; the latter does not look at what the answer is.
Answered(d, r, ok) ==
  CASE service = "ofono" /\ r = "initiate" /\ ok           -> [d EXCEPT !.state = "USER_RESPONSE"]
    [] service = "ofono" /\ r \in {"cancel", "reinitiate"} -> [d EXCEPT !.state = "IDLE"]
    [] OTHER -> d

\* ussd_initiate_cb(), ussd_reinitiate_cb(), ussd_cancel_cb(), and
\* window_ussd_respond_cb().
AnswerArrives(d, m) ==
  LET e == Answered(d, m.what, m.ok) IN
  CASE m.what = "initiate"   -> SendDone(e, m.ok)
    [] m.what = "reinitiate" -> IF m.ok THEN SendCode(e) ELSE SendDone(e, FALSE)
    [] m.what = "cancel"     -> e
    [] m.what = "respond"    ->
         IF ~m.ok THEN CloseDialog(e)
         ELSE [(IF m.text THEN UpdateButtons(e) ELSE e) EXCEPT !.content = TRUE]

\* window_ussd_added_cb(), which learns of the session's origin.
UssdAdded(d) == UpdateButtons([d EXCEPT !.bound = TRUE])

\* ussd_properties_changed_cb(): "ussd-state-changed", and "ussd-added" if there
\* is a text that is news.
StateArrives(d, m) ==
  LET e == UpdateButtons([d EXCEPT !.state = m.state])
  IN  IF m.text THEN UssdAdded(e) ELSE e

Receive ==
  /\ inbox # <<>>
  /\ LET m == Head(inbox)
     IN  ussd' = IF m.what = "state" THEN StateArrives(ussd, m) ELSE AnswerArrives(ussd, m)
  /\ inbox' = Tail(inbox)
  /\ UNCHANGED <<service, session, working, dials, moves>>

\* calls_new_call_box_send_ussd_async() finds no origin for a code, which is an
\* error like those of the service.
NotSent == Append(inbox, [what |-> "initiate", ok |-> FALSE, text |-> FALSE])

\* calls_main_window_dial() with a code.
DialCode ==
  /\ dials < MaxDials /\ dials' = dials + 1
  /\ LET d == [ussd EXCEPT !.cancel = FALSE, !.reply = FALSE, !.content = FALSE, !.open = TRUE]
     IN  \/ ussd' = Initiate(d) /\ UNCHANGED inbox
         \/ ussd' = d /\ inbox' = NotSent
  /\ UNCHANGED <<service, session, working, moves>>

\* window_ussd_reply_clicked_cb()
Reply ==
  /\ moves < MaxMoves /\ moves' = moves + 1
  /\ ussd.open /\ ussd.content /\ ussd.reply
  /\ ussd' = Ask(ussd, "respond")
  /\ UNCHANGED <<service, session, working, inbox, dials>>

\* window_ussd_cancel_clicked_cb(), which cancels twice; the button to close, or
\* Escape, closes only.
Leave ==
  /\ ussd.open
  /\ \/ ussd.cancel /\ ussd' = CloseDialog(CancelSession(ussd))
     \/ ussd' = CloseDialog(ussd)
  /\ UNCHANGED <<service, session, working, inbox, dials, moves>>

-----------------------------------------------------------------------------
(* The service and the network. *)

\* The messages of a step of the service: what it answers, and its new state
\* before or after that.
Tells(answers, s) ==
  IF service = "ofono" THEN {answers}
  ELSE LET signals == {<<[what |-> "state", state |-> s, text |-> t]>> :
                         t \in IF s = "ACTIVE" THEN {FALSE} ELSE BOOLEAN}
       IN  {answers \o g : g \in signals} \union {g \o answers : g \in signals}

Answer(r, ok, text) == <<[what |-> r, ok |-> ok, text |-> text]>>

\* A request reaches the service, which refuses what does not fit its state.
Serve ==
  /\ ussd.outbox # <<>>
  /\ LET r == Head(ussd.outbox)
         wanted == CASE r = "initiate" -> "IDLE"
                     [] r = "respond"  -> "USER_RESPONSE"
                     [] OTHER          -> session
     IN  \/ /\ r \in {"initiate", "respond"} /\ session = wanted
            /\ session' = "ACTIVE" /\ working' = r
            /\ \E t \in Tells(<<>>, "ACTIVE") : inbox' = inbox \o t
         \/ /\ r \in {"initiate", "respond"} => session # wanted
            /\ inbox' = inbox \o Answer(r, FALSE, FALSE)
            /\ UNCHANGED <<session, working>>
         \/ /\ r \in {"cancel", "reinitiate"}
            /\ session' = "IDLE" /\ working' = "none"
            /\ LET aborted == IF working = "none" THEN <<>> ELSE Answer(working, FALSE, FALSE)
               IN  \E t \in Tells(aborted \o Answer(r, TRUE, FALSE), "IDLE") : inbox' = inbox \o t
  /\ ussd' = [ussd EXCEPT !.outbox = Tail(@)]
  /\ UNCHANGED <<service, dials, moves>>

\* The network answers: with an error, for good, or with a question.
NetworkAnswers ==
  /\ working # "none" /\ working' = "none"
  /\ \E ok, text \in BOOLEAN, s \in {"IDLE", "USER_RESPONSE"} :
       /\ ~ok => s = "IDLE"
       /\ session' = s
       /\ \E t \in Tells(Answer(working, ok, text), s) : inbox' = inbox \o t
  /\ UNCHANGED <<service, ussd, dials, moves>>

\* The network starts a session of its own, or ends one.
NetworkActs ==
  /\ moves < MaxMoves /\ moves' = moves + 1
  /\ working = "none"
  /\ session' = IF session = "IDLE" THEN "USER_RESPONSE" ELSE "IDLE"
  /\ \E t \in Tells(<<>>, session') : inbox' = inbox \o t
  /\ UNCHANGED <<service, working, ussd, dials>>

-----------------------------------------------------------------------------
UssdInit ==
  /\ service \in {"mm", "ofono"}
  /\ session = "IDLE" /\ working = "none" /\ inbox = <<>>
  /\ ussd = NoSession
  /\ dials = 0 /\ moves = 0

UssdNext ==
  \/ DialCode \/ Reply \/ Leave \/ Receive
  \/ Serve \/ NetworkAnswers \/ NetworkActs

UssdSpec == UssdInit /\ [][UssdNext]_ussdVars

-----------------------------------------------------------------------------
\* Nothing that could change the dialog is under way.
Quiet == ussd.outbox = <<>> /\ inbox = <<>> /\ working = "none"

\* When everything that was asked is answered, the buttons of the open dialog
\* are those of the state the session is in, whatever order answers and changes
\* of state arrived in, and codes and replies were sent (window_update_ussd_state,
\* which leaves an update out: "If state changed in an active USSD session,
\* don't update").
ButtonsFollow ==
  Quiet /\ ussd.open =>
    /\ ussd.reply = (ussd.state = "USER_RESPONSE")
    /\ ussd.cancel = (ussd.state \in {"USER_RESPONSE", "ACTIVE"})
    /\ service = "mm" => ussd.state = session
=============================================================================
