---------------------------- MODULE CallsSipAccount ----------------------------
(***************************************************************************)
(* One SIP account (plugins/provider/sip/calls-sip-origin.c): its state,   *)
(* its registration, its calls and the sound of an outgoing call, with the *)
(* switch of its row (calls-account-row.c) and the network watch           *)
(* (calls-network-watch.c) that makes it start its SIP stack anew.         *)
(*                                                                         *)
(* To start anew, the account shuts the stack down and iterates the main   *)
(* loop until that is answered (deinit_sip_account).  What the loop        *)
(* dispatches meanwhile may do the same to the same account: waits is the  *)
(* stack of the functions that wait, the innermost last.                   *)
(*                                                                         *)
(* The dialogue of a call and its media are in CallsSipCall; here a call   *)
(* has only the states its events give it.                                 *)
(***************************************************************************)
EXTENDS Naturals, Sequences, SequencesExt, FiniteSets

CONSTANTS
  Handles,     \* the handles of calls
  Nets,        \* the addresses the computer may have
  MaxSent,     \* bound: requests of the user that wait for the registrar
  MaxNested,   \* bound: functions that wait for a shutdown inside each other
  None         \* no handle

VARIABLES
  acct,    \* the account: see AccountTypeOK
  bound,   \* whether the registrar has a binding for it
  calls,   \* the call of each handle, or None
  tone,    \* the sound of an outgoing call: "off", "on" or being "stopped"
  waits,   \* the functions that wait for the stack to shut down
  down,    \* the answer they wait for: "none", "done" or "failed"
  clean,   \* FALSE once a stack was destroyed that was not shut down
  net      \* the address, and the one that the network watch knows

accountVars == <<acct, bound, calls, tone, waits, down, clean, net>>

States == {"UNKNOWN", "INITIALIZING", "DEINITIALIZING", "ONLINE", "OFFLINE", "ERROR", "GONE"}

AcctData == [state : States, nua : {"none", "up", "shutting", "shut"}, reg : BOOLEAN,
             busy : Handles \cup {None}, ip : Nets \cup {None}, switch : BOOLEAN,
             sent : Seq({"REGISTER", "UNREGISTER"}), direct : BOOLEAN, auto : BOOLEAN,
             row : BOOLEAN]

CallData == [state : {"DIALING", "ALERTING", "INCOMING", "ACTIVE"}, listed : BOOLEAN]

ASSUME AccountAssumption ==
  /\ None \notin Handles \cup CallData
  /\ MaxNested \in Nat \ {0}

Listed == {h \in Handles : calls[h] # None /\ calls[h].listed}
-----------------------------------------------------------------------------
(* nua_register() or nua_unregister() on the register handle, which has    *)
(* no effect when that was destroyed.                                      *)
Ask(a, what) == IF a.reg THEN [a EXCEPT !.sent = Append(@, what)] ELSE a

(* go_online() of an account that has its stack.                           *)
Register(a, online) ==
  IF \/ a.direct
     \/ online /\ a.state = "ONLINE"
     \/ ~online /\ a.state = "OFFLINE"
  THEN a
  ELSE Ask(a, IF online THEN "REGISTER" ELSE "UNREGISTER")

(* notify::account-state: the row sets its switch, and a switch that       *)
(* changes emits state-set, which calls go_online() again; without a stack *)
(* that notifies once more, and changes nothing.                           *)
Notify(a) ==
  LET online == a.state = "ONLINE"
      set    == [a EXCEPT !.switch = online]
  IN IF ~a.row \/ a.switch = online THEN a
     ELSE IF a.nua = "none" THEN set
     ELSE Register(set, online)

(* change_state(): the same state again is only announced if it is ERROR   *)
(* or its reason is for the user.                                          *)
ChangeState(a, new, forUi) ==
  IF a.state = new /\ new # "ERROR" /\ ~forUi THEN a
  ELSE Notify([a EXCEPT !.state = new])

(* A mutant of GoOnline: the missing stack is not announced.               *)
GoOnlineQuiet(a, online) ==
  IF ~a.direct /\ a.nua = "none" THEN a ELSE Register(a, online)

(* go_online(): without a stack the state is announced, for the switch to  *)
(* go back.                                                                *)
GoOnline(a, online) ==
  IF ~a.direct /\ a.nua = "none" THEN Notify(a) ELSE Register(a, online)

(* setup_nua(): a stack bound to the address the network watch knows.      *)
SetupNua(a, ip) == [a EXCEPT !.nua = "up", !.ip = ip]

(* init_sip_account(): the stack is created (it may fail), the handles are *)
(* new, a direct account is online at once, and another connects if it is  *)
(* to do so by itself.  The account data is complete: the provider adds no *)
(* other (on_origin_pw_looked_up, set_credentials).                        *)
InitSip(a, created, ip) ==
  LET begun == ChangeState(a, "INITIALIZING", FALSE)
      up    == [SetupNua(begun, ip) EXCEPT !.reg = TRUE, !.busy = None]
      ready == ChangeState(up, IF a.direct THEN "ONLINE" ELSE "OFFLINE", FALSE)
  IN IF ~created THEN ChangeState(begun, "ERROR", TRUE)
     ELSE IF a.auto THEN GoOnline(ready, TRUE)
     ELSE ready
-----------------------------------------------------------------------------
(* Calls.                                                                  *)

(* calls_media_playback_play_calling(): nothing while the sound is there,  *)
(* be it being stopped.                                                    *)
PlayCalling == tone' = IF tone = "off" THEN "on" ELSE tone

(* calls_media_playback_stop_calling(): cancels the playing.               *)
StopCalling == tone' = IF tone = "on" THEN "stopped" ELSE tone

(* on_playing_done(): cancelled, or the sound could not be played; a sound *)
(* that ends is played again.                                              *)
PlayingDone ==
  /\ tone # "off"
  /\ tone' = "off"
  /\ UNCHANGED <<acct, bound, calls, waits, down, clean, net>>

(* add_call(): the handle takes the place of that of an earlier call.      *)
AddCall(h, state) ==
  /\ calls' = [calls EXCEPT ![h] = [state |-> state, listed |-> TRUE]]
  /\ acct' = [acct EXCEPT !.busy = h]
  /\ UNCHANGED <<bound, tone, waits, down, clean, net>>

DialOut(h) ==
  /\ calls[h] = None
  /\ acct.state = "ONLINE"
  /\ AddCall(h, "DIALING")

(* nua_i_invite: refused as busy (486) while there is a call handle.       *)
Invite(h) ==
  /\ calls[h] = None
  /\ acct.nua = "up"
  /\ acct.busy = None
  /\ AddCall(h, "INCOMING")

(* A mutant of RemoveCall: only the handle of a call that came in is       *)
(* forgotten.                                                              *)
RemoveCallInbound(h) ==
  /\ calls' = [calls EXCEPT ![h] = None]
  /\ acct' = IF acct.busy = h /\ calls[h].state = "INCOMING"
             THEN [acct EXCEPT !.busy = None] ELSE acct

(* remove_call(): the call handle is forgotten if it is that of the call.  *)
RemoveCall(h) ==
  /\ calls' = [calls EXCEPT ![h] = None]
  /\ acct' = IF acct.busy = h THEN [acct EXCEPT !.busy = None] ELSE acct

(* on_call_state_changed().                                                *)
CallStateChanged(h, state) ==
  /\ \/ state = "DISCONNECTED" /\ RemoveCall(h)
     \/ state # "DISCONNECTED" /\ calls' = [calls EXCEPT ![h].state = state]
                               /\ UNCHANGED acct
  /\ \/ state = "ALERTING" /\ PlayCalling
     \/ state \in {"DISCONNECTED", "ACTIVE"} /\ StopCalling
     \/ state = "DIALING" /\ UNCHANGED tone
  /\ UNCHANGED <<bound, waits, down, clean, net>>

(* What sip_i_state() may make of a call in a state; terminated always.    *)
Moves(state) ==
  CASE state = "DIALING"  -> {"ALERTING", "ACTIVE", "DISCONNECTED"}
    [] state = "ALERTING" -> {"DIALING", "ACTIVE", "DISCONNECTED"}
    [] OTHER              -> {"DISCONNECTED"}

(* nua_i_state for a handle of the table; a stack that shuts down drops    *)
(* its events.                                                             *)
IState(h) ==
  /\ h \in Listed
  /\ acct.nua = "up"
  /\ \E state \in Moves(calls[h].state) : CallStateChanged(h, state)

(* The user answers: calls_sip_call_answer().                              *)
Answer(h) ==
  /\ h \in Listed
  /\ calls[h].state = "INCOMING"
  /\ CallStateChanged(h, "ACTIVE")

(* remove_calls(): hangs up on and drops every call without waiting for    *)
(* its end, and empties the table of handles, so that no event finds it.   *)
Dropped == [h \in Handles |-> IF h \in Listed THEN [calls[h] EXCEPT !.listed = FALSE]
                              ELSE calls[h]]
-----------------------------------------------------------------------------
(* The registrar answers the oldest request; a stack that shuts down drops *)
(* the answers.  A challenge (401, 407) is answered by the stack.          *)

(* sip_r_register() with 200.                                              *)
RegisterOk ==
  /\ acct' = ChangeState([acct EXCEPT !.sent = Tail(@)], "ONLINE", FALSE)
  /\ bound' = TRUE

(* sip_r_register() with 403 or 503, or with 904 or anything else.         *)
RegisterFails(a) ==
  \/ acct' = ChangeState(a, "OFFLINE", TRUE)
  \/ acct' = ChangeState(a, "ERROR", TRUE)

(* A mutant of UnregisterOk: the state waits for a later event.            *)
UnregisterOkLate ==
  /\ acct' = [acct EXCEPT !.sent = Tail(@)]
  /\ bound' = FALSE

(* sip_r_unregister() with 200.                                            *)
UnregisterOk ==
  /\ acct' = ChangeState([acct EXCEPT !.sent = Tail(@)], "OFFLINE", FALSE)
  /\ bound' = FALSE

(* sip_r_unregister() with 503, or with anything else.                     *)
UnregisterFails ==
  \/ acct' = ChangeState([acct EXCEPT !.sent = Tail(@)], "OFFLINE", TRUE)
  \/ acct' = ChangeState([acct EXCEPT !.sent = Tail(@)], "ERROR", FALSE)

Answered ==
  /\ acct.nua = "up"
  /\ acct.sent # <<>>
  /\ \/ Head(acct.sent) = "REGISTER" /\ RegisterOk
     \/ Head(acct.sent) = "REGISTER" /\ RegisterFails([acct EXCEPT !.sent = Tail(@)])
                                     /\ UNCHANGED bound
     \/ Head(acct.sent) = "UNREGISTER" /\ UnregisterOk
     \/ Head(acct.sent) = "UNREGISTER" /\ UnregisterFails /\ UNCHANGED bound
  /\ UNCHANGED <<calls, tone, waits, down, clean, net>>

(* The stack renews a registration by itself, and is refused.              *)
RefreshFails ==
  /\ acct.nua = "up" /\ acct.reg /\ acct.sent = <<>> /\ bound
  /\ RegisterFails(acct)
  /\ bound' = FALSE
  /\ UNCHANGED <<calls, tone, waits, down, clean, net>>

(* The user turns the switch of the row: on_online_switched().             *)
Switched ==
  /\ acct.row
  /\ Len(acct.sent) < MaxSent
  /\ acct' = GoOnline([acct EXCEPT !.switch = ~@], ~acct.switch)
  /\ UNCHANGED <<bound, calls, tone, waits, down, clean, net>>
-----------------------------------------------------------------------------
(* deinit_sip_account() up to its wait: the register handle is destroyed,  *)
(* and what was asked on it is never answered.                             *)
BeginDeinit(a, who) ==
  /\ acct' = [ChangeState(a, "DEINITIALIZING", FALSE) EXCEPT
                !.busy = None, !.reg = FALSE, !.sent = <<>>, !.nua = "shutting"]
  /\ calls' = Dropped
  /\ waits' = Append(waits, who)
  /\ down' = "none"
  /\ UNCHANGED <<tone, clean>>

(* A mutant of RecreateSip: only for an account that is online.            *)
RecreateSipOnline(a, who, ip) ==
  \/ a.state = "ONLINE" /\ BeginDeinit(a, who)
  \/ a.state # "ONLINE" /\ acct' = a /\ UNCHANGED <<calls, tone, waits, down, clean>>

(* recreate_sip(): without a stack there is nothing to wait for.           *)
RecreateSip(a, who, ip) ==
  \/ /\ a.nua # "none"
     /\ BeginDeinit(a, who)
  \/ /\ a.nua = "none"
     /\ \E created \in BOOLEAN :
          acct' = InitSip(ChangeState(ChangeState([a EXCEPT !.busy = None],
                            "DEINITIALIZING", FALSE), "UNKNOWN", FALSE), created, ip)
     /\ calls' = Dropped
     /\ UNCHANGED <<tone, waits, down, clean>>

(* nua_r_shutdown, with 200 or with 500.                                   *)
ShutdownAnswered ==
  /\ acct.nua = "shutting" /\ down = "none"
  /\ \/ down' = "done" /\ acct' = [acct EXCEPT !.nua = "shut"]
     \/ down' = "failed" /\ UNCHANGED acct
  /\ UNCHANGED <<bound, calls, tone, waits, clean, net>>

(* A mutant of Resume: the failed shutdown is only reported.               *)
ResumeWarns ==
  /\ waits # <<>> /\ Last(waits) # "offline" /\ down # "none"
  /\ waits' = Front(waits)
  /\ \/ down = "failed" /\ UNCHANGED <<acct, clean>>
     \/ /\ down = "done"
        /\ \E created \in BOOLEAN : acct' = InitSip(acct, created, net.known)
        /\ UNCHANGED clean
  /\ UNCHANGED <<bound, calls, tone, down, net>>

(* The innermost function that waits goes on: the stack the account has    *)
(* now is destroyed, and recreate_sip() makes the next one.                *)
Resume ==
  /\ waits # <<>> /\ Last(waits) # "offline" /\ down # "none"
  /\ waits' = Front(waits)
  /\ \/ /\ down = "failed"
        /\ acct' = [ChangeState(acct, "ERROR", TRUE) EXCEPT
                      !.state = IF Last(waits) = "dispose" THEN "GONE" ELSE @]
        /\ UNCHANGED clean
     \/ /\ down = "done"
        /\ clean' = (clean /\ acct.nua # "up")
        /\ LET ended == ChangeState([acct EXCEPT !.nua = "none", !.reg = FALSE, !.sent = <<>>],
                                    "UNKNOWN", FALSE)
           IN IF Last(waits) = "dispose" THEN acct' = [ended EXCEPT !.state = "GONE"]
              ELSE \E created \in BOOLEAN : acct' = InitSip(ended, created, net.known)
  /\ UNCHANGED <<bound, calls, tone, down, net>>

(* The user changes the account: calls_sip_origin_set_credentials().       *)
SetCredentials(auto) ==
  /\ acct.row /\ Len(waits) < MaxNested
  /\ RecreateSip([acct EXCEPT !.auto = auto], "user", net.known)
  /\ UNCHANGED <<bound, net>>

(* on_watch_network(), every 15 s; a timeout is not dispatched inside of   *)
(* itself.                                                                 *)
WatchNetwork ==
  /\ net.known # net.real
  /\ \A i \in DOMAIN waits : waits[i] # "watch"
  /\ Len(waits) < MaxNested
  /\ acct.state # "GONE"
  /\ net' = [net EXCEPT !.known = net.real]
  /\ RecreateSip(acct, "watch", net.real)
  /\ UNCHANGED bound

(* The computer changes its address.                                       *)
NetworkMoves ==
  /\ \E ip \in Nets \ {net.real} : net' = [net EXCEPT !.real = ip]
  /\ UNCHANGED <<acct, bound, calls, tone, waits, down, clean>>

(* The account is removed, which may also happen inside of a wait for it:  *)
(* dispose() goes offline first, and waits for that a limited number of    *)
(* times.                                                                  *)
RemoveAccount ==
  /\ acct.row /\ Len(waits) < MaxNested
  /\ LET left == [acct EXCEPT !.row = FALSE]
     IN IF acct.state = "ONLINE" /\ ~acct.direct
        THEN /\ acct' = GoOnline(left, FALSE)
             /\ waits' = Append(waits, "offline")
             /\ UNCHANGED <<calls, tone, down, clean>>
        ELSE IF acct.nua = "none"
        THEN /\ acct' = [left EXCEPT !.state = "GONE", !.busy = None]
             /\ calls' = Dropped
             /\ UNCHANGED <<tone, waits, down, clean>>
        ELSE BeginDeinit(left, "dispose")
  /\ UNCHANGED <<bound, net>>

(* ... and shuts the stack down, whether it is offline or was waited for   *)
(* long enough.  An account that is gone is freed: functions that still    *)
(* wait for it would go on in freed memory, and the model ends.            *)
LeaveOnline ==
  /\ waits # <<>> /\ Last(waits) = "offline"
  /\ IF acct.nua = "none"
     THEN /\ acct' = [acct EXCEPT !.state = "GONE", !.busy = None]
          /\ calls' = Dropped
          /\ waits' = Front(waits)
          /\ UNCHANGED <<tone, down, clean>>
     ELSE /\ acct' = [ChangeState(acct, "DEINITIALIZING", FALSE) EXCEPT
                        !.busy = None, !.reg = FALSE, !.sent = <<>>, !.nua = "shutting"]
          /\ calls' = Dropped
          /\ waits' = Append(Front(waits), "dispose")
          /\ down' = "none"
          /\ UNCHANGED <<tone, clean>>
  /\ UNCHANGED <<bound, net>>
-----------------------------------------------------------------------------
NewAcct(direct, auto, row) ==
  [state |-> "UNKNOWN", nua |-> "none", reg |-> FALSE, busy |-> None, ip |-> None,
   switch |-> FALSE, sent |-> <<>>, direct |-> direct, auto |-> auto, row |-> row]

AccountInit ==
  /\ \E ip \in Nets : net = [real |-> ip, known |-> ip]
  /\ \E direct, auto, created \in BOOLEAN :
       acct = [InitSip(NewAcct(direct, auto, FALSE), created, net.known) EXCEPT !.row = TRUE,
                 !.switch = direct /\ created]
  /\ bound = FALSE
  /\ calls = [h \in Handles |-> None]
  /\ tone = "off"
  /\ waits = <<>>
  /\ down = "none"
  /\ clean = TRUE

AccountNext ==
  /\ acct.state # "GONE"
  /\ \/ \E h \in Handles : DialOut(h) \/ Invite(h) \/ IState(h) \/ Answer(h)
     \/ PlayingDone \/ Answered \/ RefreshFails \/ Switched
     \/ ShutdownAnswered \/ Resume
     \/ \E auto \in BOOLEAN : SetCredentials(auto)
     \/ WatchNetwork \/ NetworkMoves \/ RemoveAccount \/ LeaveOnline

AccountSpec == AccountInit /\ [][AccountNext]_accountVars
-----------------------------------------------------------------------------
AccountTypeOK ==
  /\ acct \in AcctData
  /\ calls \in [Handles -> CallData \cup {None}]
  /\ bound \in BOOLEAN /\ clean \in BOOLEAN
  /\ tone \in {"off", "on", "stopped"}
  /\ waits \in Seq({"user", "watch", "offline", "dispose"}) /\ Len(waits) <= MaxNested
  /\ down \in {"none", "done", "failed"}
  /\ net \in [real : Nets, known : Nets]

(* The call handle that makes the account refuse calls as busy             *)
(* (sip_callback, nua_i_invite) is always that of a call it has: an        *)
(* account whose calls are over takes calls again, in whatever order they  *)
(* came, ended or were dropped with the stack.                             *)
BusyIsACall == acct.busy # None => acct.busy \in Listed

(* The switch of the row tells whether the account is online, once nothing *)
(* it asked for is open: the state that changes sets the switch, and the   *)
(* switch that is set asks for the state (calls-account-row.c).  Not for   *)
(* an account without server, which ignores the switch, nor after a failed *)
(* shutdown, which leaves the account without a register handle.           *)
SwitchTellsState ==
  acct.row /\ ~acct.direct /\ acct.sent = <<>> /\ waits = <<>> /\ (acct.nua = "up" => acct.reg)
    /\ acct.nua # "shutting"
  => acct.switch = (acct.state = "ONLINE")

(* An account that shows as online, with nothing asked for that is still   *)
(* to be answered, is registered: whatever the user asked for in the       *)
(* meantime and in which order the registrar answered                      *)
(* (sip_r_register, sip_r_unregister).                                     *)
OnlineIsRegistered ==
  acct.state = "ONLINE" /\ ~acct.direct /\ acct.sent = <<>> => bound

(* The stack of an account is bound to the address that the network watch  *)
(* found last, also if it changed again while the account was being        *)
(* restarted (recreate_sip, setup_nua).                                    *)
BoundToKnownAddress == acct.nua = "up" /\ waits = <<>> => acct.ip = net.known

(* Once nothing waits for a shutdown, the account is not left in a         *)
(* transient state: it is online or offline or reports an error            *)
(* (deinit_sip_account, init_sip_account).                                 *)
StateSettles ==
  waits = <<>> => acct.state \notin {"UNKNOWN", "INITIALIZING", "DEINITIALIZING"}

(* No stack is destroyed that was not shut down (deinit_sip_account: "need *)
(* to wait for nua_r_shutdown event before calling nua_destroy ()").       *)
DestroyedAfterShutdown == clean
=============================================================================
