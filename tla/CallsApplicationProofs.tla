----------------------- MODULE CallsApplicationProofs -----------------------
(***************************************************************************)
(* Theorems about CallsSipAccount and CallsApplication.  What an account   *)
(* shows and what it does agree, for any number of calls, addresses,       *)
(* requests and nested waits.  What the application shows, dials and       *)
(* stores agrees with what is there, for any accounts, requests, starts,   *)
(* edits and command lines.                                                *)
(***************************************************************************)
EXTENDS CallsApplication, CallsSipAccount, FiniteSetTheorems, SequenceTheorems,
        WellFoundedInduction, TLAPS


-----------------------------------------------------------------------------
(* The inductive invariant. *)

\* The switch of the row is where the state puts it.
Fits(a) == a.row /\ ~a.direct => (a.switch <=> a.state = "ONLINE")

\* If it is not, what it asks for was sent, and nothing after that.
Asked(a) ==
  \/ Fits(a)
  \/ a.sent # <<>> /\ Last(a.sent) = IF a.switch THEN "REGISTER" ELSE "UNREGISTER"

SwitchAsks ==
  /\ acct.nua = "none" => Fits(acct)
  /\ acct.nua = "up" => acct.reg /\ Asked(acct)

Registered == acct.state = "ONLINE" /\ ~acct.direct => bound

\* A stack that is down, or about to be, is waited for; only one that failed to
\* shut down is not.
Waited ==
  /\ acct.nua = "shut" \/ (acct.nua = "shutting" /\ down = "none") => waits # <<>>
  /\ down = "failed" => acct.nua = "shutting"

\* Only an account that was removed is disposed of.
Leaving == \A i \in DOMAIN waits : waits[i] \in {"offline", "dispose"} => ~acct.row

IInv ==
  /\ AccountTypeOK
  /\ BusyIsACall /\ StateSettles /\ BoundToKnownAddress
  /\ SwitchAsks /\ Registered /\ Waited /\ Leaving

-----------------------------------------------------------------------------
(* What the operators on the account return. *)

Requests == {"REGISTER", "UNREGISTER"}

Keeps(a, r) ==
  /\ r \in AcctData
  /\ r.nua = a.nua /\ r.reg = a.reg /\ r.busy = a.busy /\ r.ip = a.ip
  /\ r.direct = a.direct /\ r.auto = a.auto /\ r.row = a.row

LEMMA Appending ==
  ASSUME NEW s \in Seq(Requests), NEW what \in Requests
  PROVE  /\ Append(s, what) \in Seq(Requests)
         /\ Append(s, what) # <<>> /\ Last(Append(s, what)) = what
BY DEF Last

LEMMA Asks ==
  ASSUME NEW a \in AcctData, NEW what \in Requests
  PROVE  LET r == Ask(a, what)
         IN  /\ Keeps(a, r) /\ r.state = a.state /\ r.switch = a.switch
             /\ a.reg => r.sent # <<>> /\ Last(r.sent) = what
<1> DEFINE r == [a EXCEPT !.sent = Append(@, what)]
<1>1. /\ a.sent \in Seq(Requests)
      /\ Append(a.sent, what) \in Seq(Requests)
      /\ Append(a.sent, what) # <<>> /\ Last(Append(a.sent, what)) = what
  BY Appending DEF AcctData, Requests
<1>2. /\ r \in AcctData /\ r.sent = Append(a.sent, what)
      /\ Keeps(a, r) /\ r.state = a.state /\ r.switch = a.switch
  BY <1>1 DEF AcctData, Requests, Keeps
<1>3. Keeps(a, a)
  BY DEF Keeps
<1> QED BY <1>1, <1>2, <1>3 DEF Ask

LEMMA Registers ==
  ASSUME NEW a \in AcctData, NEW online \in BOOLEAN
  PROVE  LET r == Register(a, online)
         IN  /\ Keeps(a, r) /\ r.state = a.state /\ r.switch = a.switch
             /\ a.reg /\ ~a.direct /\ (a.state = "ONLINE" <=> ~online) =>
                  r.sent # <<>> /\ Last(r.sent) = IF online THEN "REGISTER" ELSE "UNREGISTER"
<1>1. Keeps(a, a)
  BY DEF Keeps
<1> QED BY <1>1, Asks DEF Register, Requests

LEMMA Notifies ==
  ASSUME NEW a \in AcctData
  PROVE  LET r == Notify(a)
         IN  /\ Keeps(a, r) /\ r.state = a.state
             /\ a.row => (r.switch <=> a.state = "ONLINE")
<1> DEFINE online == a.state = "ONLINE"
           set == [a EXCEPT !.switch = online]
<1>1. Keeps(a, a)
  BY DEF Keeps
<1>2. /\ online \in BOOLEAN /\ set \in AcctData
      /\ Keeps(a, set) /\ set.state = a.state /\ set.switch = online
  BY DEF AcctData, Keeps
<1>3. Keeps(set, Register(set, online)) /\ Register(set, online).state = set.state
      /\ Register(set, online).switch = set.switch
  BY <1>2, Registers
<1>4. Keeps(a, Register(set, online))
  BY <1>2, <1>3 DEF Keeps
<1>5. a.row \in BOOLEAN /\ a.switch \in BOOLEAN
  BY DEF AcctData
<1> QED BY <1>1, <1>2, <1>3, <1>4, <1>5 DEF Notify

LEMMA Changes ==
  ASSUME NEW a \in AcctData, NEW new \in States, NEW forUi \in BOOLEAN
  PROVE  LET r == ChangeState(a, new, forUi)
         IN  /\ Keeps(a, r) /\ r.state = new
             /\ a.state # new \/ forUi \/ new = "ERROR" => Fits(r)
             /\ r = a \/ Fits(r)
<1> DEFINE b == [a EXCEPT !.state = new]
<1>1. Keeps(a, a)
  BY DEF Keeps
<1>2. b \in AcctData /\ Keeps(a, b) /\ b.state = new
  BY DEF AcctData, Keeps
<1>3. Keeps(b, Notify(b)) /\ Notify(b).state = new
      /\ (b.row => (Notify(b).switch <=> new = "ONLINE"))
  BY <1>2, Notifies
<1>4. Keeps(a, Notify(b)) /\ Fits(Notify(b))
  BY <1>2, <1>3 DEF Keeps, Fits
<1> QED BY <1>1, <1>3, <1>4 DEF ChangeState

LEMMA Goes ==
  ASSUME NEW a \in AcctData, NEW online \in BOOLEAN
  PROVE  LET r == GoOnline(a, online)
         IN  /\ Keeps(a, r) /\ r.state = a.state
             /\ a.nua = "none" => Fits(r)
             /\ a.reg /\ (Fits(a) \/ (a.switch <=> online)) => Asked(r)
<1>1. CASE ~a.direct /\ a.nua = "none"
  BY <1>1, Notifies DEF GoOnline, Fits, Asked, Keeps
<1>2. CASE a.direct \/ a.nua # "none"
  <2> DEFINE r == Register(a, online)
  <2>1. GoOnline(a, online) = r
    BY <1>2 DEF GoOnline
  <2>2. /\ Keeps(a, r) /\ r.state = a.state /\ r.switch = a.switch
        /\ a.reg /\ ~a.direct /\ (a.state = "ONLINE" <=> ~online) =>
             r.sent # <<>> /\ Last(r.sent) = IF online THEN "REGISTER" ELSE "UNREGISTER"
    BY Registers
  <2> HIDE DEF r
  <2>3. a.switch \in BOOLEAN /\ a.direct \in BOOLEAN
    BY DEF AcctData
  <2>4. a.nua = "none" => Fits(r)
    BY <1>2, <2>2 DEF Fits, Keeps
  <2>5. ASSUME a.reg, Fits(a) \/ (a.switch <=> online) PROVE Asked(r)
    BY <2>2, <2>3, <2>5 DEF Fits, Asked, Keeps
  <2> QED BY <2>1, <2>2, <2>4, <2>5
<1> QED BY <1>1, <1>2

\* An account after init_sip_account(): a stack, or an error.
Inited(a, r, ip) ==
  /\ r \in AcctData /\ r.state \in {"ONLINE", "OFFLINE", "ERROR"}
  /\ r.direct = a.direct /\ r.row = a.row
  /\ r.state = "ONLINE" => a.direct
  /\ r.busy \in {a.busy, None}
  /\ \/ r.nua = "none" /\ Fits(r)
     \/ r.nua = "up" /\ r.ip = ip /\ r.reg /\ Asked(r)

LEMMA Inits ==
  ASSUME NEW a \in AcctData, a.state # "INITIALIZING", a.nua = "none",
         NEW created \in BOOLEAN, NEW ip \in Nets
  PROVE  Inited(a, InitSip(a, created, ip), ip)
<1> DEFINE begun == ChangeState(a, "INITIALIZING", FALSE)
           up    == [SetupNua(begun, ip) EXCEPT !.reg = TRUE, !.busy = None]
           first == IF a.direct THEN "ONLINE" ELSE "OFFLINE"
           ready == ChangeState(up, first, FALSE)
<1>1. Keeps(a, begun) /\ begun.state = "INITIALIZING" /\ begun.nua = "none"
  <2>1. "INITIALIZING" \in States
    BY DEF States
  <2>2. Keeps(a, begun) /\ begun.state = "INITIALIZING"
    BY <2>1, Changes
  <2> QED BY <2>2 DEF Keeps
<1> HIDE DEF begun
<1>2. CASE ~created
  <2> DEFINE r == ChangeState(begun, "ERROR", TRUE)
  <2>1. InitSip(a, created, ip) = r
    BY <1>2 DEF InitSip, begun
  <2>2. Keeps(begun, r) /\ r.state = "ERROR" /\ Fits(r)
    BY <1>1, Changes DEF Keeps, States
  <2> HIDE DEF r
  <2> QED BY <1>1, <2>1, <2>2 DEF Inited, Keeps
<1>3. CASE created
  <2>1. /\ up \in AcctData /\ up.state = "INITIALIZING" /\ up.nua = "up" /\ up.reg
        /\ up.busy = None /\ up.ip = ip /\ up.direct = a.direct /\ up.row = a.row
        /\ up.auto = a.auto
    BY <1>1 DEF Keeps, SetupNua, AcctData
  <2>2. InitSip(a, created, ip) = IF a.auto THEN GoOnline(ready, TRUE) ELSE ready
    BY <1>3 DEF InitSip, begun
  <2> HIDE DEF up
  <2>3. first \in States /\ first # "INITIALIZING"
    BY DEF States
  <2>4. Keeps(up, ready) /\ ready.state = first /\ Fits(ready)
    BY <2>1, <2>3, Changes
  <2> HIDE DEF ready
  <2>5. ready \in AcctData /\ ready.reg /\ Asked(ready)
    BY <2>1, <2>4 DEF Keeps, Asked
  <2> DEFINE on == GoOnline(ready, TRUE)
  <2>6. Keeps(ready, on) /\ on.state = first /\ Asked(on)
    BY <2>4, <2>5, Goes
  <2> HIDE DEF on
  <2>7. ready.state \in {"ONLINE", "OFFLINE"} /\ (ready.state = "ONLINE" => a.direct)
    BY <2>4
  <2> HIDE DEF first
  <2>8. Inited(a, ready, ip)
    BY <2>1, <2>4, <2>5, <2>7 DEF Inited, Keeps
  <2>9. Inited(a, on, ip)
    BY <2>1, <2>4, <2>5, <2>6, <2>7 DEF Inited, Keeps
  <2> QED BY <2>2, <2>8, <2>9 DEF on
<1> QED BY <1>2, <1>3

\* Calls that are dropped are listed no more.
LEMMA Drops ==
  ASSUME calls \in [Handles -> CallData \union {None}]
  PROVE  Dropped \in [Handles -> CallData \union {None}]
BY DEF Dropped, Listed, CallData

LEMMA Waits ==
  ASSUME NEW S, NEW s \in Seq(S), NEW x \in S
  PROVE  /\ Append(s, x) \in Seq(S) /\ Append(s, x) # <<>>
         /\ Len(Append(s, x)) = Len(s) + 1
         /\ \A i \in DOMAIN Append(s, x) :
              (i \in DOMAIN s /\ Append(s, x)[i] = s[i]) \/ Append(s, x)[i] = x
         /\ s # <<>> =>
              /\ Front(s) \in Seq(S) /\ Len(Front(s)) = Len(s) - 1 /\ Last(s) \in S
              /\ Len(s) \in DOMAIN s /\ Last(s) = s[Len(s)]
              /\ \A i \in DOMAIN Front(s) : i \in DOMAIN s /\ Front(s)[i] = s[i]
<1>1. /\ Append(s, x) \in Seq(S) /\ Append(s, x) # <<>>
      /\ Len(Append(s, x)) = Len(s) + 1
      /\ DOMAIN s = 1..Len(s) /\ Len(s) \in Nat
      /\ DOMAIN Append(s, x) = 1..(Len(s) + 1)
      /\ \A i \in 1..Len(s) : Append(s, x)[i] = s[i]
      /\ Append(s, x)[Len(s) + 1] = x
  OBVIOUS
<1>2. ASSUME s # <<>>
      PROVE  /\ Front(s) \in Seq(S) /\ Len(Front(s)) = Len(s) - 1 /\ Last(s) \in S
             /\ Len(s) \in DOMAIN s /\ Last(s) = s[Len(s)]
             /\ \A i \in DOMAIN Front(s) : i \in DOMAIN s /\ Front(s)[i] = s[i]
  <2>1. Len(s) \in DOMAIN s /\ Len(s) > 0
    BY <1>1, <1>2
  <2>2. /\ SubSeq(s, 1, Len(s) - 1) \in Seq(S)
        /\ Len(SubSeq(s, 1, Len(s) - 1)) = Len(s) - 1
        /\ \A i \in 1..(Len(s) - 1) : SubSeq(s, 1, Len(s) - 1)[i] = s[i]
        /\ DOMAIN SubSeq(s, 1, Len(s) - 1) = 1..(Len(s) - 1)
    BY <1>1, <2>1
  <2>3. \A i \in 1..(Len(s) - 1) : i \in DOMAIN s
    BY <1>1
  <2> QED BY <1>1, <2>1, <2>2, <2>3 DEF Front, Last
<1>3. \A i \in DOMAIN Append(s, x) :
              (i \in DOMAIN s /\ Append(s, x)[i] = s[i]) \/ Append(s, x)[i] = x
  BY <1>1
<1> QED BY <1>1, <1>2, <1>3

-----------------------------------------------------------------------------
(* The steps, by what they change. *)

Waiters == {"user", "watch", "offline", "dispose"}

Tones == {"off", "on", "stopped"}

\* The calls and the sound, and the call handle of the account.
LEMMA CallSteps ==
  ASSUME IInv, NEW b \in Handles \union {None}, acct' = [acct EXCEPT !.busy = b],
         b # None => b \in Listed',
         calls' \in [Handles -> CallData \union {None}], tone' \in Tones,
         UNCHANGED <<bound, waits, down, clean, net>>
  PROVE  IInv'
<1>1. AccountTypeOK
  BY DEF IInv
<1>2. /\ acct' \in AcctData /\ acct'.busy = b
      /\ acct'.state = acct.state /\ acct'.nua = acct.nua /\ acct'.reg = acct.reg
      /\ acct'.ip = acct.ip /\ acct'.switch = acct.switch /\ acct'.sent = acct.sent
      /\ acct'.direct = acct.direct /\ acct'.row = acct.row
  BY <1>1 DEF AccountTypeOK, AcctData
<1>3. AccountTypeOK'
  BY <1>1, <1>2 DEF AccountTypeOK, Tones
<1>4. BusyIsACall' /\ StateSettles' /\ BoundToKnownAddress' /\ Registered'
  BY <1>2 DEF IInv, BusyIsACall, StateSettles, BoundToKnownAddress, Registered
<1>5. SwitchAsks' /\ Waited' /\ Leaving'
  BY <1>2 DEF IInv, SwitchAsks, Fits, Asked, Waited, Leaving
<1> QED BY <1>3, <1>4, <1>5 DEF IInv

LEMMA Tuning ==
  ASSUME tone \in Tones, PlayCalling \/ StopCalling \/ UNCHANGED tone
  PROVE  tone' \in Tones
BY DEF Tones, PlayCalling, StopCalling

LEMMA Adding ==
  ASSUME IInv, NEW h \in Handles, NEW state \in {"DIALING", "INCOMING"}, AddCall(h, state)
  PROVE  IInv'
<1>1. calls \in [Handles -> CallData \union {None}] /\ tone \in Tones
  BY DEF IInv, AccountTypeOK, Tones
<1>2. [state |-> state, listed |-> TRUE] \in CallData
  BY DEF CallData
<1>3. /\ calls' \in [Handles -> CallData \union {None}]
      /\ calls'[h] \in CallData /\ calls'[h].listed
  BY <1>1, <1>2 DEF AddCall
<1>4. h \in Listed'
  BY <1>3, AccountAssumption DEF Listed
<1> QED BY <1>1, <1>3, <1>4, CallSteps DEF AddCall

LEMMA StateChanging ==
  ASSUME IInv, NEW h \in Listed, NEW state \in {"DIALING", "ALERTING", "ACTIVE", "DISCONNECTED"},
         CallStateChanged(h, state)
  PROVE  IInv'
<1>1. /\ calls \in [Handles -> CallData \union {None}] /\ tone \in Tones
      /\ acct \in AcctData
      /\ acct.busy # None => acct.busy \in Listed
  BY DEF IInv, AccountTypeOK, Tones, BusyIsACall
<1>2. tone' \in Tones /\ UNCHANGED <<bound, waits, down, clean, net>>
  BY <1>1, Tuning DEF CallStateChanged
<1>3. h \in Handles /\ calls[h] \in CallData /\ calls[h].listed
  BY <1>1 DEF Listed
<1>4. acct = [acct EXCEPT !.busy = acct.busy] /\ acct.busy \in Handles \union {None}
  BY <1>1 DEF AcctData
<1>5. CASE state = "DISCONNECTED"
  <2>1. /\ calls' = [calls EXCEPT ![h] = None]
        /\ acct' = IF acct.busy = h THEN [acct EXCEPT !.busy = None] ELSE acct
    BY <1>5 DEF CallStateChanged, RemoveCall
  <2>2. calls' \in [Handles -> CallData \union {None}]
    BY <1>1, <2>1
  <2>3. \A k \in Listed \ {h} : k \in Listed'
    BY <1>1, <2>1 DEF Listed
  <2>4. CASE acct.busy = h
    BY <1>2, <2>1, <2>2, <2>4, CallSteps
  <2>5. CASE acct.busy # h
    BY <1>1, <1>2, <1>4, <2>1, <2>2, <2>3, <2>5, CallSteps
  <2> QED BY <2>4, <2>5
<1>6. CASE state # "DISCONNECTED"
  <2>1. calls' = [calls EXCEPT ![h].state = state] /\ UNCHANGED acct
    BY <1>6 DEF CallStateChanged
  <2>2. /\ calls' \in [Handles -> CallData \union {None}]
        /\ calls'[h] \in CallData /\ calls'[h].listed
    BY <1>1, <1>3, <1>6, <2>1 DEF CallData
  <2>3. \A k \in Listed : k \in Listed'
    BY <1>1, <2>1, <2>2, AccountAssumption DEF Listed
  <2> QED BY <1>1, <1>2, <1>4, <2>1, <2>2, <2>3, CallSteps
<1> QED BY <1>5, <1>6

\* The state and the switch of an account that has its stack or has none.
LEMMA AccountSteps ==
  ASSUME IInv, Keeps(acct, acct'),
         acct'.state \in {acct.state, "ONLINE", "OFFLINE", "ERROR"},
         bound' \in BOOLEAN, Registered',
         acct.nua = "none" => Fits(acct'), acct.nua = "up" => Asked(acct'),
         UNCHANGED <<calls, tone, waits, down, clean, net>>
  PROVE  IInv'
<1>1. AccountTypeOK'
  BY DEF IInv, AccountTypeOK, Keeps
<1>2. BusyIsACall' /\ StateSettles' /\ BoundToKnownAddress'
  BY DEF IInv, BusyIsACall, Listed, StateSettles, BoundToKnownAddress, Keeps
<1>3. SwitchAsks' /\ Waited' /\ Leaving'
  BY DEF IInv, SwitchAsks, Waited, Leaving, Keeps
<1> QED BY <1>1, <1>2, <1>3 DEF IInv

LEMMA Switching == IInv /\ Switched => IInv'
<1> SUFFICES ASSUME IInv, Switched PROVE IInv'
  OBVIOUS
<1> DEFINE a == [acct EXCEPT !.switch = ~@]
           r == GoOnline(a, ~acct.switch)
<1>1. acct \in AcctData /\ bound \in BOOLEAN /\ Registered /\ SwitchAsks
  BY DEF IInv, AccountTypeOK
<1>2. /\ a \in AcctData /\ Keeps(acct, a) /\ a.state = acct.state
      /\ (~acct.switch) \in BOOLEAN /\ (a.switch <=> ~acct.switch)
  BY <1>1 DEF AcctData, Keeps
<1>3. acct' = r /\ UNCHANGED <<bound, calls, tone, waits, down, clean, net>>
  BY DEF Switched
<1> HIDE DEF a
<1>4. /\ Keeps(a, r) /\ r.state = a.state
      /\ a.nua = "none" => Fits(r)
      /\ a.reg /\ (Fits(a) \/ (a.switch <=> ~acct.switch)) => Asked(r)
  BY <1>2, Goes
<1> HIDE DEF r
<1>5. Keeps(acct, acct') /\ acct'.state = acct.state
  BY <1>2, <1>3, <1>4 DEF Keeps
<1>6. acct.nua = "none" => Fits(acct')
  BY <1>2, <1>3, <1>4 DEF Keeps
<1>7. acct.nua = "up" => Asked(acct')
  BY <1>1, <1>2, <1>3, <1>4 DEF Keeps, SwitchAsks
<1>8. Registered'
  BY <1>1, <1>3, <1>5 DEF Registered, Keeps
<1> QED BY <1>1, <1>3, <1>5, <1>6, <1>7, <1>8, AccountSteps

\* The request answered first leaves the queue.
LEMMA Answers ==
  ASSUME NEW a \in AcctData, a.sent # <<>>
  PROVE  LET r == [a EXCEPT !.sent = Tail(@)]
         IN  /\ Keeps(a, r) /\ r.state = a.state /\ r.switch = a.switch
             /\ Head(a.sent) \in Requests
             /\ Last(a.sent) # Head(a.sent) => r.sent # <<>> /\ Last(r.sent) = Last(a.sent)
<1>1. /\ a.sent \in Seq(Requests) /\ Tail(a.sent) \in Seq(Requests)
      /\ Head(a.sent) = a.sent[1] /\ Head(a.sent) \in Requests
      /\ Len(Tail(a.sent)) = Len(a.sent) - 1 /\ Len(a.sent) \in Nat
  BY DEF AcctData, Requests
<1>2. Last(a.sent) # Head(a.sent) => Tail(a.sent) # <<>> /\ Last(Tail(a.sent)) = Last(a.sent)
  <2>1. SUFFICES ASSUME a.sent[Len(a.sent)] # a.sent[1]
                 PROVE  Tail(a.sent) # <<>> /\ Tail(a.sent)[Len(a.sent) - 1] = a.sent[Len(a.sent)]
    BY <1>1 DEF Last
  <2>2. Len(a.sent) - 1 \in 1..(Len(a.sent) - 1)
    BY <1>1, <2>1
  <2>3. \A i \in 1..(Len(a.sent) - 1) : Tail(a.sent)[i] = a.sent[i + 1]
    BY <1>1
  <2>4. Tail(a.sent)[Len(a.sent) - 1] = a.sent[(Len(a.sent) - 1) + 1]
    BY <2>2, <2>3
  <2>5. Tail(a.sent) # <<>>
    <3>1. Len(Tail(a.sent)) > 0
      BY <1>1, <2>2
    <3>2. Len(<<>>) = 0
      OBVIOUS
    <3> QED BY <3>1, <3>2
  <2> QED BY <1>1, <2>4, <2>5
<1> QED BY <1>1, <1>2 DEF AcctData, Requests, Keeps

\* A new state that is told in any case, or that is not the old one.
LEMMA Telling ==
  ASSUME IInv, NEW a, a = acct \/ (acct.sent # <<>> /\ a = [acct EXCEPT !.sent = Tail(@)]),
         NEW new \in {"ONLINE", "OFFLINE", "ERROR"}, NEW forUi \in BOOLEAN,
         acct' = ChangeState(a, new, forUi),
         \/ new = "ERROR" \/ forUi
         \/ /\ acct.sent # <<>> /\ a = [acct EXCEPT !.sent = Tail(@)]
            /\ Head(acct.sent) = IF new = "ONLINE" THEN "REGISTER" ELSE "UNREGISTER",
         bound' \in BOOLEAN, new = "ONLINE" => bound',
         acct.nua = "up",
         UNCHANGED <<calls, tone, waits, down, clean, net>>
  PROVE  IInv'
<1>1. acct \in AcctData /\ SwitchAsks
  BY DEF IInv, AccountTypeOK
<1>2. Keeps(acct, a) /\ a \in AcctData /\ a.state = acct.state /\ a.switch = acct.switch
  BY <1>1, Answers DEF Keeps
<1>3. new \in States
  BY DEF States
<1>4. /\ Keeps(a, acct') /\ acct'.state = new
      /\ a.state # new \/ forUi \/ new = "ERROR" => Fits(acct')
      /\ acct' = a \/ Fits(acct')
  BY <1>2, <1>3, Changes
<1>5. Keeps(acct, acct')
  BY <1>2, <1>4 DEF Keeps
<1>6. Asked(acct')
  <2>1. CASE Fits(acct')
    BY <2>1 DEF Asked
  <2>2. CASE ~Fits(acct')
    <3>1. acct' = a /\ a.state = new /\ ~forUi /\ new # "ERROR"
      BY <1>4, <2>2
    <3>2. /\ acct.sent # <<>> /\ a = [acct EXCEPT !.sent = Tail(@)]
          /\ Head(acct.sent) = IF new = "ONLINE" THEN "REGISTER" ELSE "UNREGISTER"
      BY <3>1
    <3>3. ~Fits(acct)
      BY <1>2, <2>2, <3>1 DEF Fits, Keeps
    <3>4. Last(acct.sent) = IF acct.switch THEN "REGISTER" ELSE "UNREGISTER"
      BY <1>1, <3>3 DEF SwitchAsks, Asked
    <3>5. acct.switch <=> new # "ONLINE"
      BY <1>1, <1>2, <3>1, <3>3 DEF Fits, AcctData
    <3>6. Last(acct.sent) # Head(acct.sent)
      BY <3>2, <3>4, <3>5
    <3>7. a.sent # <<>> /\ Last(a.sent) = Last(acct.sent)
      BY <1>1, <3>2, <3>6, Answers
    <3> QED BY <1>2, <3>1, <3>4, <3>7 DEF Asked
  <2> QED BY <2>1, <2>2
<1>7. Registered'
  BY <1>4 DEF Registered
<1> QED BY <1>4, <1>5, <1>6, <1>7, AccountSteps

LEMMA Failing ==
  ASSUME IInv, NEW a, a = acct \/ (acct.sent # <<>> /\ a = [acct EXCEPT !.sent = Tail(@)]),
         RegisterFails(a), bound' \in BOOLEAN, acct.nua = "up",
         UNCHANGED <<calls, tone, waits, down, clean, net>>
  PROVE  IInv'
BY Telling DEF RegisterFails

LEMMA Answering == IInv /\ Answered => IInv'
<1> SUFFICES ASSUME IInv, Answered PROVE IInv'
  OBVIOUS
<1> DEFINE a == [acct EXCEPT !.sent = Tail(@)]
<1>1. /\ acct.nua = "up" /\ acct.sent # <<>> /\ UNCHANGED <<calls, tone, waits, down, clean, net>>
      /\ bound \in BOOLEAN /\ TRUE \in BOOLEAN /\ FALSE \in BOOLEAN
  BY DEF Answered, IInv, AccountTypeOK
<1>2. CASE Head(acct.sent) = "REGISTER" /\ RegisterOk
  BY <1>1, <1>2, Telling DEF RegisterOk
<1>3. CASE Head(acct.sent) = "REGISTER" /\ RegisterFails(a) /\ UNCHANGED bound
  BY <1>1, <1>3, Failing
<1>4. CASE Head(acct.sent) = "UNREGISTER" /\ UnregisterOk
  BY <1>1, <1>4, Telling DEF UnregisterOk
<1>5. CASE Head(acct.sent) = "UNREGISTER" /\ UnregisterFails /\ UNCHANGED bound
  BY <1>1, <1>5, Telling DEF UnregisterFails
<1> QED BY <1>2, <1>3, <1>4, <1>5 DEF Answered

LEMMA Refreshing == IInv /\ RefreshFails => IInv'
<1> SUFFICES ASSUME IInv, RefreshFails PROVE IInv'
  OBVIOUS
<1>1. /\ bound' \in BOOLEAN /\ acct.nua = "up" /\ RegisterFails(acct)
      /\ UNCHANGED <<calls, tone, waits, down, clean, net>>
  BY DEF RefreshFails
<1> QED BY <1>1, Failing

\* The account is shut down, by a function that waits for it from now on.
LEMMA Deinits ==
  ASSUME NEW a \in AcctData
  PROVE  LET r == [ChangeState(a, "DEINITIALIZING", FALSE) EXCEPT
                     !.busy = None, !.reg = FALSE, !.sent = <<>>, !.nua = "shutting"]
         IN  /\ r \in AcctData /\ r.state = "DEINITIALIZING" /\ r.nua = "shutting"
             /\ r.busy = None /\ r.row = a.row
<1> DEFINE b == ChangeState(a, "DEINITIALIZING", FALSE)
<1>1. "DEINITIALIZING" \in States /\ <<>> \in Seq(Requests)
  BY DEF States
<1>2. Keeps(a, b) /\ b.state = "DEINITIALIZING"
  BY <1>1, Changes
<1> HIDE DEF b
<1>3. [b EXCEPT !.busy = None, !.reg = FALSE, !.sent = <<>>, !.nua = "shutting"] \in AcctData
  BY <1>1, <1>2 DEF Keeps, AcctData, Requests
<1> QED BY <1>2, <1>3 DEF Keeps, AcctData, b

LEMMA Shutting ==
  ASSUME IInv, acct' \in AcctData, acct'.state = "DEINITIALIZING", acct'.nua = "shutting",
         acct'.busy = None, acct'.row => acct.row,
         calls' = Dropped, down' = "none", UNCHANGED <<bound, tone, clean>>,
         waits' \in Seq(Waiters), waits' # <<>>, Len(waits') <= MaxNested,
         net' \in [real : Nets, known : Nets], Leaving'
  PROVE  IInv'
<1>1. AccountTypeOK'
  BY Drops DEF IInv, AccountTypeOK, Waiters
<1>2. BusyIsACall' /\ StateSettles' /\ BoundToKnownAddress'
  BY DEF BusyIsACall, StateSettles, BoundToKnownAddress
<1>3. SwitchAsks' /\ Registered' /\ Waited'
  BY DEF SwitchAsks, Registered, Waited
<1> QED BY <1>1, <1>2, <1>3 DEF IInv

LEMMA Beginning ==
  ASSUME IInv, NEW a \in AcctData, NEW who \in Waiters, BeginDeinit(a, who),
         Len(waits) < MaxNested, UNCHANGED bound, net' \in [real : Nets, known : Nets],
         a.row => acct.row, who \in {"offline", "dispose"} => ~a.row
  PROVE  IInv'
<1>1. /\ acct' \in AcctData /\ acct'.state = "DEINITIALIZING" /\ acct'.nua = "shutting"
      /\ acct'.busy = None /\ acct'.row = a.row
  BY Deinits DEF BeginDeinit
<1>2. waits \in Seq(Waiters) /\ Leaving
  BY DEF IInv, AccountTypeOK, Waiters
<1>3. /\ waits' \in Seq(Waiters) /\ waits' # <<>>
      /\ Len(waits') = Len(waits) + 1
      /\ \A i \in DOMAIN waits' : (i \in DOMAIN waits /\ waits'[i] = waits[i]) \/ waits'[i] = who
  BY <1>2, Waits DEF BeginDeinit
<1>4. Len(waits') <= MaxNested
  BY <1>2, <1>3, AccountAssumption
<1>5. Leaving'
  BY <1>1, <1>2, <1>3 DEF Leaving
<1> QED BY <1>1, <1>3, <1>4, <1>5, Shutting DEF BeginDeinit

\* An account without a stack is given one at once.
LEMMA Making ==
  ASSUME IInv, NEW a \in AcctData, a.nua = "none", a.state # "INITIALIZING",
         a.busy # None => a.busy \in Listed',
         NEW created \in BOOLEAN, acct' = InitSip(a, created, net.known'),
         waits' \in Seq(Waiters), Len(waits') <= MaxNested, Leaving', a.row => acct.row,
         down # "failed",
         calls' \in [Handles -> CallData \union {None}],
         net' \in [real : Nets, known : Nets], clean' \in BOOLEAN,
         UNCHANGED <<bound, tone, down>>
  PROVE  IInv'
<1>1. net'.known \in Nets
  OBVIOUS
<1>2. Inited(a, acct', net'.known)
  BY <1>1, Inits
<1>3. AccountTypeOK'
  BY <1>2 DEF IInv, AccountTypeOK, Inited, Waiters
<1>4. BusyIsACall' /\ StateSettles' /\ BoundToKnownAddress' /\ Registered'
  BY <1>2 DEF Inited, BusyIsACall, StateSettles, BoundToKnownAddress, Registered
<1>5. SwitchAsks' /\ Waited'
  BY <1>2 DEF IInv, Inited, SwitchAsks, Waited
<1> QED BY <1>3, <1>4, <1>5 DEF IInv

LEMMA Recreating ==
  ASSUME IInv, NEW a \in AcctData, a.nua = acct.nua, a.row = acct.row,
         NEW who \in {"user", "watch"}, RecreateSip(a, who, net.known'),
         Len(waits) < MaxNested, UNCHANGED bound, net' \in [real : Nets, known : Nets]
  PROVE  IInv'
<1>1. CASE a.nua # "none"
  BY <1>1, Beginning DEF RecreateSip, Waiters
<1>2. CASE a.nua = "none"
  <2> DEFINE b == ChangeState([a EXCEPT !.busy = None], "DEINITIALIZING", FALSE)
             c == ChangeState(b, "UNKNOWN", FALSE)
  <2>1. PICK created \in BOOLEAN : acct' = InitSip(c, created, net.known')
    BY <1>2 DEF RecreateSip
  <2>2. calls' = Dropped /\ UNCHANGED <<tone, waits, down, clean>>
    BY <1>2 DEF RecreateSip
  <2>3. [a EXCEPT !.busy = None] \in AcctData /\ Keeps([a EXCEPT !.busy = None], b)
    <3>1. [a EXCEPT !.busy = None] \in AcctData /\ "DEINITIALIZING" \in States
      BY DEF AcctData, States
    <3> QED BY <3>1, Changes
  <2>4. b \in AcctData /\ b.nua = "none" /\ b.busy = None /\ b.row = a.row
    BY <1>2, <2>3 DEF Keeps, AcctData
  <2> HIDE DEF b
  <2>5. Keeps(b, c) /\ c.state = "UNKNOWN"
    <3>1. "UNKNOWN" \in States
      BY DEF States
    <3> QED BY <2>4, <3>1, Changes
  <2> HIDE DEF c
  <2>6. /\ c \in AcctData /\ c.nua = "none" /\ c.state # "INITIALIZING" /\ c.busy = None
        /\ c.row = acct.row
    BY <2>4, <2>5 DEF Keeps
  <2>7. /\ waits \in Seq(Waiters) /\ Len(waits) <= MaxNested /\ Leaving
        /\ down # "failed" /\ clean \in BOOLEAN
        /\ Dropped \in [Handles -> CallData \union {None}]
    BY <1>2, Drops DEF IInv, AccountTypeOK, Waiters, Waited
  <2>8. Leaving'
    <3>1. acct'.row = c.row
      BY <2>1, <2>6, Inits DEF Inited
    <3> QED BY <2>2, <2>6, <2>7, <3>1 DEF Leaving
  <2> QED BY <2>1, <2>2, <2>6, <2>7, <2>8, Making
<1> QED BY <1>1, <1>2

-----------------------------------------------------------------------------
(* The other steps. *)

LEMMA Shut == IInv /\ ShutdownAnswered => IInv'
<1> SUFFICES ASSUME IInv, ShutdownAnswered PROVE IInv'
  OBVIOUS
<1>1. /\ AccountTypeOK /\ BusyIsACall /\ StateSettles /\ Registered /\ Waited /\ Leaving
      /\ acct.nua = "shutting" /\ down = "none" /\ waits # <<>>
      /\ UNCHANGED <<bound, calls, tone, waits, clean, net>>
  BY DEF IInv, Waited, ShutdownAnswered
<1>2. /\ down' \in {"done", "failed"} /\ acct' \in AcctData /\ acct'.nua \in {"shut", "shutting"}
      /\ acct'.state = acct.state /\ acct'.busy = acct.busy /\ acct'.row = acct.row
      /\ acct'.direct = acct.direct
      /\ down' = "failed" => acct'.nua = "shutting"
  BY <1>1 DEF ShutdownAnswered, AccountTypeOK, AcctData
<1>3. AccountTypeOK'
  BY <1>1, <1>2 DEF AccountTypeOK
<1>4. BusyIsACall' /\ StateSettles' /\ BoundToKnownAddress' /\ Registered'
  BY <1>1, <1>2 DEF BusyIsACall, Listed, StateSettles, BoundToKnownAddress, Registered
<1>5. SwitchAsks' /\ Waited' /\ Leaving'
  BY <1>1, <1>2 DEF SwitchAsks, Waited, Leaving
<1> QED BY <1>3, <1>4, <1>5 DEF IInv

\* An account that is gone.
LEMMA Going ==
  ASSUME IInv, acct' \in AcctData, acct'.state \in {"GONE", "ERROR"},
         \/ acct'.nua = "none" /\ ~acct'.row /\ down # "failed"
         \/ acct'.nua = "shutting" /\ down = "failed",
         acct'.busy # None => acct'.busy \in Listed',
         calls' \in [Handles -> CallData \union {None}], clean' \in BOOLEAN,
         waits' \in Seq(Waiters), Len(waits') <= MaxNested, Leaving',
         UNCHANGED <<bound, tone, down, net>>
  PROVE  IInv'
<1>1. AccountTypeOK'
  BY DEF IInv, AccountTypeOK, Waiters
<1>2. BusyIsACall' /\ StateSettles' /\ BoundToKnownAddress' /\ Registered'
  BY DEF BusyIsACall, StateSettles, BoundToKnownAddress, Registered
<1>3. SwitchAsks' /\ Waited'
  BY DEF SwitchAsks, Fits, Waited
<1> QED BY <1>1, <1>2, <1>3 DEF IInv

LEMMA Resuming == IInv /\ Resume => IInv'
<1> SUFFICES ASSUME IInv, Resume PROVE IInv'
  OBVIOUS
<1>1. /\ acct \in AcctData /\ waits \in Seq(Waiters) /\ Len(waits) <= MaxNested
      /\ calls \in [Handles -> CallData \union {None}] /\ clean \in BOOLEAN
      /\ net \in [real : Nets, known : Nets]
      /\ BusyIsACall /\ Waited /\ Leaving
  BY DEF IInv, AccountTypeOK, Waiters
<1>2. /\ waits # <<>> /\ waits' = Front(waits) /\ down # "none"
      /\ UNCHANGED <<bound, calls, tone, down, net>>
  BY DEF Resume
<1>3. /\ waits' \in Seq(Waiters) /\ Len(waits') <= MaxNested
      /\ Last(waits) = "dispose" => ~acct.row
      /\ \A i \in DOMAIN waits' : i \in DOMAIN waits /\ waits'[i] = waits[i]
  <2>1. /\ Front(waits) \in Seq(Waiters) /\ Len(Front(waits)) = Len(waits) - 1
        /\ Len(waits) \in DOMAIN waits /\ Last(waits) = waits[Len(waits)]
        /\ \A i \in DOMAIN Front(waits) : i \in DOMAIN waits /\ Front(waits)[i] = waits[i]
    BY <1>1, <1>2, Waits
  <2> QED BY <1>1, <1>2, <2>1, AccountAssumption DEF Leaving
<1>4. (acct'.row => acct.row) => Leaving'
  BY <1>1, <1>3 DEF Leaving
<1>5. acct.busy # None => acct.busy \in Listed'
  BY <1>1, <1>2 DEF BusyIsACall, Listed
<1>6. CASE down = "failed"
  <2> DEFINE b == ChangeState(acct, "ERROR", TRUE)
  <2>1. Keeps(acct, b) /\ b.state = "ERROR"
    <3>1. "ERROR" \in States
      BY DEF States
    <3> QED BY <1>1, <3>1, Changes
  <2>2. /\ acct' = [b EXCEPT !.state = IF Last(waits) = "dispose" THEN "GONE" ELSE @]
        /\ UNCHANGED clean
    BY <1>6 DEF Resume
  <2> HIDE DEF b
  <2>3. /\ acct' \in AcctData /\ acct'.state \in {"GONE", "ERROR"} /\ acct'.nua = acct.nua
        /\ acct'.busy = acct.busy /\ acct'.row = acct.row
    BY <2>1, <2>2 DEF Keeps, AcctData, States
  <2> QED BY <1>1, <1>2, <1>3, <1>4, <1>5, <1>6, <2>2, <2>3, Going DEF Waited
<1>7. CASE down = "done"
  <2> DEFINE a     == [acct EXCEPT !.nua = "none", !.reg = FALSE, !.sent = <<>>]
             ended == ChangeState(a, "UNKNOWN", FALSE)
  <2>1. a \in AcctData /\ a.nua = "none" /\ a.busy = acct.busy /\ a.row = acct.row
    <3>1. <<>> \in Seq(Requests)
      OBVIOUS
    <3> QED BY <1>1, <3>1 DEF AcctData, Requests
  <2>2. /\ clean' = (clean /\ acct.nua # "up")
        /\ IF Last(waits) = "dispose" THEN acct' = [ended EXCEPT !.state = "GONE"]
           ELSE \E created \in BOOLEAN : acct' = InitSip(ended, created, net.known)
    BY <1>7 DEF Resume
  <2> HIDE DEF a
  <2>3. Keeps(a, ended) /\ ended.state = "UNKNOWN"
    <3>1. "UNKNOWN" \in States
      BY DEF States
    <3> QED BY <2>1, <3>1, Changes
  <2> HIDE DEF ended
  <2>4. CASE Last(waits) = "dispose"
    <3>1. /\ acct' \in AcctData /\ acct'.state = "GONE" /\ acct'.nua = "none"
          /\ acct'.busy = acct.busy /\ acct'.row = acct.row
      BY <2>1, <2>2, <2>3, <2>4 DEF Keeps, AcctData, States
    <3>2. clean' \in BOOLEAN
      BY <2>2
    <3> QED BY <1>1, <1>2, <1>3, <1>4, <1>5, <1>7, <2>4, <3>1, <3>2, Going
  <2>5. CASE Last(waits) # "dispose"
    <3>1. PICK created \in BOOLEAN : acct' = InitSip(ended, created, net.known)
      BY <2>2, <2>5
    <3>2. /\ ended \in AcctData /\ ended.nua = "none" /\ ended.state # "INITIALIZING"
          /\ ended.busy = acct.busy /\ ended.row = acct.row
          /\ net.known' = net.known /\ net.known \in Nets /\ clean' \in BOOLEAN
      BY <1>1, <1>2, <2>1, <2>2, <2>3 DEF Keeps
    <3>3. acct'.row = acct.row
      BY <3>1, <3>2, Inits DEF Inited
    <3> QED BY <1>1, <1>2, <1>3, <1>4, <1>5, <1>7, <3>1, <3>2, <3>3, Making
  <2> QED BY <2>4, <2>5
<1> QED BY <1>2, <1>6, <1>7 DEF Resume

LEMMA Setting ==
  ASSUME IInv, NEW auto \in BOOLEAN, SetCredentials(auto)
  PROVE  IInv'
<1> DEFINE a == [acct EXCEPT !.auto = auto]
<1>1. /\ acct \in AcctData /\ net \in [real : Nets, known : Nets]
      /\ UNCHANGED <<bound, net>> /\ Len(waits) < MaxNested
      /\ RecreateSip(a, "user", net.known)
  BY DEF IInv, AccountTypeOK, SetCredentials
<1>2. a \in AcctData /\ a.nua = acct.nua /\ a.row = acct.row
  BY <1>1 DEF AcctData
<1> HIDE DEF a
<1>3. RecreateSip(a, "user", net.known')
  BY <1>1
<1> QED BY <1>1, <1>2, <1>3, Recreating

LEMMA Watching == IInv /\ WatchNetwork => IInv'
<1> SUFFICES ASSUME IInv, WatchNetwork PROVE IInv'
  OBVIOUS
<1>1. /\ acct \in AcctData /\ net \in [real : Nets, known : Nets]
      /\ net' = [net EXCEPT !.known = net.real]
      /\ UNCHANGED bound /\ Len(waits) < MaxNested
      /\ RecreateSip(acct, "watch", net.real)
  BY DEF IInv, AccountTypeOK, WatchNetwork
<1>2. net' \in [real : Nets, known : Nets] /\ net.known' = net.real
  BY <1>1
<1>3. RecreateSip(acct, "watch", net.known')
  BY <1>1, <1>2
<1> QED BY <1>1, <1>2, <1>3, Recreating

LEMMA Leaves ==
  ASSUME NEW a \in AcctData
  PROVE  /\ [a EXCEPT !.state = "GONE", !.busy = None] \in AcctData
         /\ [a EXCEPT !.row = FALSE] \in AcctData
BY DEF AcctData, States

LEMMA RemovingAccount == IInv /\ RemoveAccount => IInv'
<1> SUFFICES ASSUME IInv, RemoveAccount PROVE IInv'
  OBVIOUS
<1> DEFINE left == [acct EXCEPT !.row = FALSE]
<1>1. /\ acct \in AcctData /\ AccountTypeOK /\ acct.row /\ UNCHANGED <<bound, net>>
      /\ waits \in Seq(Waiters) /\ Len(waits) < MaxNested
      /\ net \in [real : Nets, known : Nets] /\ Registered /\ SwitchAsks /\ Waited
      /\ BusyIsACall
  BY DEF IInv, AccountTypeOK, RemoveAccount, Waiters
<1>2. /\ left \in AcctData /\ ~left.row /\ left.state = acct.state /\ left.nua = acct.nua
      /\ left.busy = acct.busy /\ left.direct = acct.direct /\ left.reg = acct.reg
  BY <1>1, Leaves DEF AcctData
<1>3. CASE acct.state = "ONLINE" /\ ~acct.direct
  <2> DEFINE r == GoOnline(left, FALSE)
  <2>1. /\ acct' = r /\ waits' = Append(waits, "offline") /\ UNCHANGED <<calls, tone, down, clean>>
    BY <1>3 DEF RemoveAccount
  <2>2. Keeps(left, r) /\ r.state = left.state
    BY <1>2, Goes
  <2> HIDE DEF r, left
  <2>3. waits' \in Seq(Waiters) /\ waits' # <<>> /\ Len(waits') = Len(waits) + 1
    BY <1>1, <2>1, Waits DEF Waiters
  <2>4. AccountTypeOK'
    BY <1>1, <2>1, <2>2, <2>3, AccountAssumption DEF AccountTypeOK, Keeps, Waiters
  <2>5. BusyIsACall' /\ StateSettles' /\ BoundToKnownAddress' /\ Registered'
    BY <1>1, <1>2, <2>1, <2>2, <2>3
    DEF Keeps, BusyIsACall, Listed, StateSettles, BoundToKnownAddress, Registered
  <2>6. SwitchAsks' /\ Waited'
    BY <1>1, <1>2, <2>1, <2>2, <2>3 DEF Keeps, SwitchAsks, Asked, Fits, Waited
  <2>7. Leaving'
    BY <1>2, <2>1, <2>2 DEF Keeps, Leaving
  <2> QED BY <2>4, <2>5, <2>6, <2>7 DEF IInv
<1>4. CASE ~(acct.state = "ONLINE" /\ ~acct.direct) /\ acct.nua = "none"
  <2>1. /\ acct' = [left EXCEPT !.state = "GONE", !.busy = None]
        /\ calls' = Dropped /\ UNCHANGED <<tone, waits, down, clean>>
    BY <1>4 DEF RemoveAccount
  <2>2. /\ acct' \in AcctData /\ acct'.state = "GONE" /\ acct'.nua = "none" /\ ~acct'.row
        /\ acct'.busy = None
    BY <1>2, <1>4, <2>1, Leaves DEF AcctData
  <2>3. /\ Dropped \in [Handles -> CallData \union {None}] /\ clean \in BOOLEAN
        /\ waits \in Seq(Waiters) /\ Len(waits) <= MaxNested /\ down # "failed" /\ Leaving
    BY <1>1, <1>4, Drops DEF AccountTypeOK, Waiters, Waited, IInv
  <2>4. Leaving'
    BY <2>1, <2>2, <2>3 DEF Leaving
  <2> QED BY <1>1, <2>1, <2>2, <2>3, <2>4, Going
<1>5. CASE ~(acct.state = "ONLINE" /\ ~acct.direct) /\ acct.nua # "none"
  <2>1. BeginDeinit(left, "dispose")
    BY <1>5 DEF RemoveAccount
  <2> HIDE DEF left
  <2> QED BY <1>1, <1>2, <2>1, Beginning DEF Waiters
<1> QED BY <1>3, <1>4, <1>5

LEMMA LeavingOnline == IInv /\ LeaveOnline => IInv'
<1> SUFFICES ASSUME IInv, LeaveOnline PROVE IInv'
  OBVIOUS
<1>1. /\ acct \in AcctData /\ AccountTypeOK /\ UNCHANGED <<bound, net>>
      /\ waits \in Seq(Waiters) /\ Len(waits) <= MaxNested
      /\ waits # <<>> /\ Last(waits) = "offline"
      /\ net \in [real : Nets, known : Nets] /\ Waited /\ Leaving
  BY DEF IInv, AccountTypeOK, LeaveOnline, Waiters
<1>2. PICK f : f = Front(waits)
  OBVIOUS
<1>3. /\ f \in Seq(Waiters) /\ Len(f) = Len(waits) - 1
      /\ Len(waits) \in DOMAIN waits /\ Last(waits) = waits[Len(waits)]
  BY <1>1, <1>2, Waits
<1>4. ~acct.row
  BY <1>1, <1>3 DEF Leaving
<1>5. CASE acct.nua = "none"
  <2>1. /\ acct' = [acct EXCEPT !.state = "GONE", !.busy = None]
        /\ calls' = Dropped /\ waits' = f /\ UNCHANGED <<tone, down, clean>>
    BY <1>2, <1>5 DEF LeaveOnline
  <2>2. /\ acct' \in AcctData /\ acct'.state = "GONE" /\ acct'.nua = "none" /\ ~acct'.row
        /\ acct'.busy = None
    BY <1>1, <1>4, <1>5, <2>1, Leaves DEF AcctData
  <2>3. /\ Dropped \in [Handles -> CallData \union {None}] /\ clean \in BOOLEAN /\ down # "failed"
    BY <1>1, <1>5, Drops DEF AccountTypeOK, Waited
  <2>4. waits' \in Seq(Waiters) /\ Len(waits') <= MaxNested /\ Leaving'
    BY <1>1, <1>3, <2>1, <2>2, AccountAssumption DEF Leaving
  <2> QED BY <1>1, <2>1, <2>2, <2>3, <2>4, Going
<1>6. CASE acct.nua # "none"
  <2>1. /\ acct' = [ChangeState(acct, "DEINITIALIZING", FALSE) EXCEPT
                       !.busy = None, !.reg = FALSE, !.sent = <<>>, !.nua = "shutting"]
        /\ calls' = Dropped /\ waits' = Append(f, "dispose") /\ down' = "none"
        /\ UNCHANGED <<tone, clean>>
    BY <1>2, <1>6 DEF LeaveOnline
  <2>2. /\ acct' \in AcctData /\ acct'.state = "DEINITIALIZING" /\ acct'.nua = "shutting"
        /\ acct'.busy = None /\ acct'.row = acct.row
    BY <1>1, <2>1, Deinits
  <2>3. waits' \in Seq(Waiters) /\ waits' # <<>> /\ Len(waits') = Len(f) + 1
    BY <1>3, <2>1, Waits DEF Waiters
  <2>4. Leaving' /\ Len(waits') <= MaxNested
    BY <1>1, <1>3, <1>4, <2>2, <2>3, AccountAssumption DEF Leaving
  <2> QED BY <1>1, <2>1, <2>2, <2>3, <2>4, Shutting
<1> QED BY <1>5, <1>6

LEMMA Otherwise ==
  ASSUME IInv, UNCHANGED <<acct, bound, calls, waits, down, clean>>, tone' \in Tones,
         net' \in [real : Nets, known : Nets], net'.known = net.known
  PROVE  IInv'
<1>1. AccountTypeOK'
  BY DEF IInv, AccountTypeOK, Tones
<1>2. BusyIsACall' /\ StateSettles' /\ BoundToKnownAddress' /\ Registered'
  BY DEF IInv, BusyIsACall, Listed, StateSettles, BoundToKnownAddress, Registered
<1>3. SwitchAsks' /\ Waited' /\ Leaving'
  BY DEF IInv, SwitchAsks, Waited, Leaving
<1> QED BY <1>1, <1>2, <1>3 DEF IInv

-----------------------------------------------------------------------------
(* The theorems. *)

LEMMA AccountStart == AccountInit => IInv
<1> SUFFICES ASSUME AccountInit PROVE IInv
  OBVIOUS
<1>1. /\ net \in [real : Nets, known : Nets]
      /\ bound = FALSE /\ calls = [h \in Handles |-> None] /\ tone = "off"
      /\ waits = <<>> /\ down = "none" /\ clean = TRUE
  BY DEF AccountInit
<1>2. PICK direct \in BOOLEAN, auto \in BOOLEAN, created \in BOOLEAN :
        acct = [InitSip(NewAcct(direct, auto, FALSE), created, net.known) EXCEPT !.row = TRUE,
                  !.switch = direct /\ created]
  BY DEF AccountInit
<1> DEFINE a == NewAcct(direct, auto, FALSE)
           r == InitSip(a, created, net.known)
<1>3. a \in AcctData /\ a.state = "UNKNOWN" /\ a.nua = "none" /\ a.busy = None /\ a.direct = direct
  <2>1. <<>> \in Seq(Requests)
    OBVIOUS
  <2> QED BY <2>1 DEF NewAcct, AcctData, States, Requests
<1> HIDE DEF a
<1>4. Inited(a, r, net.known)
  BY <1>1, <1>3, Inits
<1>5. acct = [r EXCEPT !.row = TRUE, !.switch = direct /\ created]
  BY <1>2 DEF a
<1> HIDE DEF r
<1>6. /\ acct \in AcctData /\ acct.state = r.state /\ acct.nua = r.nua /\ acct.reg = r.reg
      /\ acct.busy = None /\ acct.ip = r.ip /\ acct.direct = direct
      /\ acct.row /\ (acct.switch <=> direct /\ created)
  BY <1>3, <1>4, <1>5 DEF Inited, AcctData
<1>7. Fits(acct)
  BY <1>3, <1>4, <1>6 DEF Inited, Fits
<1>8. AccountTypeOK
  <2>1. waits \in Seq(Waiters) /\ Len(waits) <= MaxNested
    <3>1. Len(<<>>) = 0 /\ <<>> \in Seq(Waiters)
      OBVIOUS
    <3> QED BY <1>1, <3>1, AccountAssumption
  <2> QED BY <1>1, <1>6, <2>1 DEF AccountTypeOK, Waiters
<1>9. BusyIsACall /\ StateSettles /\ BoundToKnownAddress /\ Registered
  BY <1>1, <1>3, <1>4, <1>6 DEF Inited, BusyIsACall, StateSettles, BoundToKnownAddress, Registered
<1>10. SwitchAsks /\ Waited /\ Leaving
  <2>1. DOMAIN <<>> = {}
    OBVIOUS
  <2> QED BY <1>1, <1>4, <1>6, <1>7, <2>1 DEF Inited, SwitchAsks, Asked, Waited, Leaving
<1> QED BY <1>8, <1>9, <1>10 DEF IInv

LEMMA Step == IInv /\ [AccountNext]_accountVars => IInv'
<1> SUFFICES ASSUME IInv, [AccountNext]_accountVars PROVE IInv'
  OBVIOUS
<1>1. net \in [real : Nets, known : Nets] /\ tone \in Tones
  BY DEF IInv, AccountTypeOK, Tones
<1>2. ASSUME NEW h \in Handles, DialOut(h) \/ Invite(h) PROVE IInv'
  BY <1>2, Adding DEF DialOut, Invite
<1>3. ASSUME NEW h \in Handles, IState(h) PROVE IInv'
  <2>1. PICK state \in Moves(calls[h].state) : CallStateChanged(h, state)
    BY <1>3 DEF IState
  <2>2. state \in {"DIALING", "ALERTING", "ACTIVE", "DISCONNECTED"}
    BY DEF Moves
  <2> QED BY <1>3, <2>1, <2>2, StateChanging DEF IState
<1>4. ASSUME NEW h \in Handles, Answer(h) PROVE IInv'
  BY <1>4, StateChanging DEF Answer
<1>5. CASE PlayingDone
  BY <1>1, <1>5, Otherwise DEF PlayingDone, Tones
<1>6. CASE NetworkMoves
  <2>1. PICK ip \in Nets : net' = [net EXCEPT !.real = ip]
    BY <1>6 DEF NetworkMoves
  <2>2. net' \in [real : Nets, known : Nets] /\ net'.known = net.known
    BY <1>1, <2>1
  <2> QED BY <1>1, <1>6, <2>2, Otherwise DEF NetworkMoves
<1>7. CASE UNCHANGED accountVars
  BY <1>1, <1>7, Otherwise DEF accountVars
<1>8. ASSUME NEW auto \in BOOLEAN, SetCredentials(auto) PROVE IInv'
  BY <1>8, Setting
<1> QED BY <1>2, <1>3, <1>4, <1>5, <1>6, <1>7, <1>8, Answering, Refreshing, Switching, Shut,
           Resuming, Watching, RemovingAccount, LeavingOnline DEF AccountNext

\* For any handles, addresses and bounds the inductive invariant holds of every
\* state of an account.
THEOREM Invariance == AccountSpec => []IInv
BY AccountStart, Step, PTL DEF AccountSpec

\* For any number of calls and of restarts of the stack: an account that refuses
\* calls as busy has a call (sip_callback, remove_call, deinit_sip_account).
THEOREM BusyWithACall == AccountSpec => []BusyIsACall
<1>1. IInv => BusyIsACall
  BY DEF IInv
<1> QED BY <1>1, Invariance, PTL

\* For any number of addresses and of restarts inside restarts: the stack is bound
\* to the address that was found last (recreate_sip, setup_nua).
THEOREM BoundToKnown == AccountSpec => []BoundToKnownAddress
<1>1. IInv => BoundToKnownAddress
  BY DEF IInv
<1> QED BY <1>1, Invariance, PTL

\* For any number of functions that wait: an account nothing waits for is online or
\* offline or reports an error (deinit_sip_account, init_sip_account).
THEOREM Settles == AccountSpec => []StateSettles
<1>1. IInv => StateSettles
  BY DEF IInv
<1> QED BY <1>1, Invariance, PTL

\* For any number of requests and any order of the registrar's answers: an account
\* that shows as online, and needs a registrar, is registered (sip_r_register).
THEOREM OnlineRegistered == AccountSpec => []OnlineIsRegistered
<1>1. IInv => OnlineIsRegistered
  BY DEF IInv, Registered, OnlineIsRegistered
<1> QED BY <1>1, Invariance, PTL

\* For any number of requests: the switch of an account for which nothing is open is
\* where the state puts it, since a switch that is not has asked for its state last
\* (on_account_state_changed, on_online_switched, go_online).
THEOREM SwitchTells == AccountSpec => []SwitchTellsState
<1>1. IInv => SwitchTellsState
  <2>1. SUFFICES ASSUME IInv, acct.row, ~acct.direct, acct.sent = <<>>, waits = <<>>,
                        acct.nua # "shutting"
                 PROVE  acct.switch = (acct.state = "ONLINE")
    BY DEF SwitchTellsState
  <2>2. acct.nua \in {"none", "up"} /\ acct.switch \in BOOLEAN
    BY <2>1 DEF IInv, AccountTypeOK, AcctData, Waited
  <2>3. Fits(acct)
    BY <2>1, <2>2 DEF IInv, SwitchAsks, Asked
  <2> QED BY <2>1, <2>2, <2>3 DEF Fits
<1> QED BY <1>1, Invariance, PTL

-----------------------------------------------------------------------------
(* The memory of the program. *)

MemoryFields ==
  {"running", "providers", "modem", "accounts", "lookups", "online", "tels", "flags", "banner",
   "dialOn", "protocols", "opened", "addable", "overview", "queue", "handed", "asked"}

ProviderLists == {<<>>, <<"mm">>, <<"sip">>, <<"mm", "sip">>, <<"sip", "mm">>}

Shaped(d) ==
  /\ d = [x \in MemoryFields |-> d[x]]
  /\ d.providers \in ProviderLists
  /\ d.modem \in BOOLEAN
  /\ d.queue \in [Request -> Nat] /\ d.handed \in [Request -> Nat]

\* e is d but for what the manager and its listeners tell.
Told(e, d) ==
  /\ Shaped(e)
  /\ \A x \in MemoryFields \ {"flags", "banner", "dialOn", "protocols", "addable", "overview",
                              "queue", "handed"} : e[x] = d[x]

\* e is d as far as origins and requests go.
Unmoved(e, d) ==
  /\ Shaped(e)
  /\ \A x \in MemoryFields \ {"queue", "handed"} : e[x] = d[x]

\* notify::state leaves flags, banner and "dial" action as they should be.
LEMMA FlagsUpdated ==
  ASSUME NEW d, Shaped(d), d.banner = ~Able(d),
         NEW e, e = UpdateStateFlags(d)
  PROVE  /\ Told(e, d) /\ e.flags = FlagsOf(e) /\ e.banner = ~Able(e)
         /\ e.protocols = d.protocols /\ e.addable = d.addable /\ e.overview = d.overview
         /\ e.queue = d.queue /\ e.handed = d.handed
         /\ d.dialOn = Able(d) => e.dialOn = Able(e)
<1>1. CASE FlagsOf(d) = d.flags
  BY <1>1 DEF UpdateStateFlags, Told
<1>2. CASE FlagsOf(d) # d.flags
  <2>1. PICK F : F = FlagsOf(d)
    OBVIOUS
  <2>2. PICK a \in BOOLEAN : a = (F \intersect {"CELLULAR_MODEM", "VOIP_ACCOUNT"} # {})
    OBVIOUS
  <2>3. PICK f : f = [d EXCEPT !.flags = F]
    OBVIOUS
  <2>4. /\ Shaped(f) /\ f.flags = F
        /\ \A x \in MemoryFields \ {"flags"} : f[x] = d[x]
    BY <2>3 DEF Shaped, MemoryFields
  <2>5. Able(f) = a
    BY <2>2, <2>4 DEF Able
  <2>6. PICK g : g = [f EXCEPT !.banner = ~a]
    OBVIOUS
  <2>7. /\ Shaped(g) /\ g.banner = ~a /\ g.flags = F
        /\ \A x \in MemoryFields \ {"flags", "banner"} : g[x] = d[x]
    BY <2>4, <2>6 DEF Shaped, MemoryFields
  <2>8. Able(g) = a
    BY <2>2, <2>7 DEF Able
  <2>9. e = [g EXCEPT !.dialOn = a]
    BY <1>2, <2>1, <2>3, <2>5, <2>6, <2>8 DEF UpdateStateFlags, EnableDial, ShowBanner
  <2>10. /\ Shaped(e) /\ e.dialOn = a /\ e.banner = ~a /\ e.flags = F
         /\ \A x \in MemoryFields \ {"flags", "banner", "dialOn"} : e[x] = d[x]
    BY <2>7, <2>9 DEF Shaped, MemoryFields
  <2>11. Able(e) = a
    BY <2>2, <2>10 DEF Able
  <2>12. /\ e.providers = d.providers /\ e.modem = d.modem /\ e.accounts = d.accounts
         /\ e.protocols = d.protocols /\ e.addable = d.addable /\ e.overview = d.overview
         /\ e.queue = d.queue /\ e.handed = d.handed
    BY <2>10 DEF MemoryFields
  <2>13. FlagsOf(e) = F
    BY <2>1, <2>12 DEF FlagsOf
  <2>14. Told(e, d)
    BY <2>10 DEF Told
  <2> QED BY <2>10, <2>11, <2>12, <2>13, <2>14
<1> QED BY <1>1, <1>2

\* What was asked for is queued or handed over, once.
Counted(d) ==
  \A t \in Request : /\ d.handed[t] + d.queue[t] <= 1
                     /\ t \notin d.asked => d.handed[t] + d.queue[t] = 0

\* What is queued could not be dialled when an origin last came or went.
InTime(d) ==
  \A t \in Request : d.queue[t] > 0 => /\ useDefault /\ t \in Tel => ~d.modem
                                       /\ ~useDefault => ~HasOrigin(d)

\* A change of the origins dials what is queued, if it can be, and changes
\* nothing else.
LEMMA QueueDialled ==
  ASSUME NEW d, Shaped(d), Counted(d),
         NEW e, e = OriginCountChanged(d)
  PROVE  Unmoved(e, d) /\ Counted(e) /\ InTime(e)
<1>1. CASE ~HasOrigin(d)
  <2>1. e = d /\ ~d.modem
    BY <1>1 DEF OriginCountChanged, HasOrigin
  <2> QED BY <1>1, <2>1 DEF Unmoved, InTime
<1>2. CASE HasOrigin(d)
  <2>1. PICK able : able = [t \in Request |-> CanDial(d, t)]
    OBVIOUS
  <2>2. \A t \in Request : able[t] <=> CanDial(d, t)
    BY <2>1
  <2>3. PICK h : h = [t \in Request |-> d.handed[t] + (IF able[t] THEN d.queue[t] ELSE 0)]
    OBVIOUS
  <2>4. PICK q : q = [t \in Request |-> IF able[t] THEN 0 ELSE d.queue[t]]
    OBVIOUS
  <2>5. /\ h = [t \in Request |-> d.handed[t] + (IF CanDial(d, t) THEN d.queue[t] ELSE 0)]
        /\ q = [t \in Request |-> IF CanDial(d, t) THEN 0 ELSE d.queue[t]]
    BY <2>2, <2>3, <2>4
  <2>6. e = [d EXCEPT !.handed = h, !.queue = q]
    BY <1>2, <2>5 DEF OriginCountChanged, DialQueued, Shaped, MemoryFields
  <2>7. h \in [Request -> Nat] /\ q \in [Request -> Nat]
    BY <2>3, <2>4 DEF Shaped
  <2>8. Unmoved(e, d) /\ e.handed = h /\ e.queue = q
    BY <2>6, <2>7 DEF Unmoved, Shaped, MemoryFields
  <2>9. e.asked = d.asked /\ e.modem = d.modem /\ e.accounts = d.accounts
    BY <2>8 DEF Unmoved, MemoryFields
  <2>10. Counted(e)
    <3>1. \A t \in Request : d.handed[t] \in Nat /\ d.queue[t] \in Nat
      BY DEF Shaped
    <3>2. \A t \in Request : h[t] + q[t] = d.handed[t] + d.queue[t]
      BY <2>3, <2>4, <3>1
    <3> QED BY <2>8, <2>9, <3>2 DEF Counted
  <2>11. InTime(e)
    <3> SUFFICES ASSUME NEW t \in Request, e.queue[t] > 0
                 PROVE  /\ useDefault /\ t \in Tel => ~e.modem
                        /\ ~useDefault => ~HasOrigin(e)
      BY DEF InTime
    <3>1. ~able[t]
      BY <2>4, <2>8
    <3>2. ~CanDial(d, t)
      BY <2>2, <3>1
    <3>3. ASSUME useDefault, t \in Tel PROVE ~e.modem
      <4>1. ASSUME d.modem PROVE "modem" \in Suitable(d, t)
        BY <3>3, <4>1 DEF Suitable
      <4> QED BY <2>9, <3>2, <3>3, <4>1 DEF CanDial
    <3>4. useDefault
      BY <1>2, <3>2 DEF CanDial
    <3> QED BY <3>3, <3>4
  <2> QED BY <2>8, <2>10, <2>11
<1> QED BY <1>1, <1>2

\* The actions and the window fit.
Wired(d) == d.protocols = UpdateDialActions(d).protocols

Viewed(d) == d.opened /\ d.accounts # {} => d.overview /\ d.addable

\* Origins are of providers that are loaded.
OfLoaded(d) ==
  /\ "mm" \notin ToSet(d.providers) => ~d.modem
  /\ "sip" \notin ToSet(d.providers) => d.accounts = {} /\ d.lookups = {}

Fine(d) ==
  /\ Shaped(d) /\ OfLoaded(d)
  /\ d.flags = FlagsOf(d) /\ d.banner = ~Able(d)
  /\ Wired(d) /\ Viewed(d)
  /\ Counted(d) /\ InTime(d)

\* The dial actions of the protocols are those of the origins there are.
LEMMA ActionsUpdated ==
  ASSUME NEW d, Shaped(d),
         NEW e, e = UpdateDialActions(d)
  PROVE  /\ Shaped(e) /\ Wired(e)
         /\ \A x \in MemoryFields \ {"protocols"} : e[x] = d[x]
<1>1. PICK P : P = {p \in {"tel", "sip"} : \/ p = "tel" /\ (d.modem \/ d.tels # {})
                                           \/ p = "sip" /\ d.accounts # {}}
  OBVIOUS
<1>2. e = [d EXCEPT !.protocols = P]
  BY <1>1 DEF UpdateDialActions
<1>3. /\ Shaped(e) /\ e.protocols = P
      /\ \A x \in MemoryFields \ {"protocols"} : e[x] = d[x]
  BY <1>2 DEF Shaped, MemoryFields
<1>4. e.modem = d.modem /\ e.tels = d.tels /\ e.accounts = d.accounts
  BY <1>3 DEF MemoryFields
<1>5. P = {p \in {"tel", "sip"} : \/ p = "tel" /\ (e.modem \/ e.tels # {})
                                  \/ p = "sip" /\ e.accounts # {}}
  BY <1>1, <1>4
<1>6. UpdateDialActions(e) = [e EXCEPT !.protocols = P]
  BY <1>5 DEF UpdateDialActions
<1>7. UpdateDialActions(e).protocols = P
  BY <1>3, <1>6 DEF Shaped, MemoryFields
<1> QED BY <1>3, <1>7 DEF Wired

\* The accounts window shows accounts if there are any.
LEMMA OverviewUpdated ==
  ASSUME NEW d, Shaped(d), NEW gone,
         NEW e, e = UpdateOverview(d, gone)
  PROVE  /\ Shaped(e)
         /\ \A x \in MemoryFields \ {"addable", "overview"} : e[x] = d[x]
         /\ gone = 0 /\ "sip" \in ToSet(d.providers) /\ d.accounts # {} => e.addable /\ e.overview
<1>1. PICK a, o : e = [d EXCEPT !.addable = a, !.overview = o]
  BY DEF UpdateOverview
<1>2. /\ Shaped(e) /\ \A x \in MemoryFields \ {"addable", "overview"} : e[x] = d[x]
  BY <1>1 DEF Shaped, MemoryFields
<1>3. ASSUME gone = 0, "sip" \in ToSet(d.providers), d.accounts # {}
      PROVE  e.addable /\ e.overview
  <2>1. PICK seen : seen = {"sip"} \intersect ToSet(d.providers)
    OBVIOUS
  <2>2. "sip" \in seen /\ (seen # {}) = TRUE
    BY <1>3, <2>1
  <2>3. e = [d EXCEPT !.addable = seen # {},
                      !.overview = ("sip" \in seen /\ d.accounts # {}) \/ ("mm" \in seen /\ d.modem)]
    BY <1>3, <2>1 DEF UpdateOverview
  <2>4. (("sip" \in seen /\ d.accounts # {}) \/ ("mm" \in seen /\ d.modem)) = TRUE
    BY <1>3, <2>2
  <2>5. e = [d EXCEPT !.addable = TRUE, !.overview = TRUE]
    BY <2>2, <2>3, <2>4
  <2> QED BY <2>5 DEF Shaped, MemoryFields
<1> QED BY <1>2, <1>3

\* A change of the origins, of which everybody is told, leaves a memory that is
\* fine if what it does not touch was.
LEMMA OriginsTold ==
  ASSUME NEW d, Shaped(d), OfLoaded(d), d.banner = ~Able(d), Counted(d),
         NEW accountsToo \in BOOLEAN, NEW gone,
         \/ d.accounts = {}
         \/ accountsToo /\ gone = 0
         \/ ~accountsToo /\ Viewed(d),
         NEW e, e = OriginsChanged(d, accountsToo, gone)
  PROVE  Fine(e) /\ Told(e, d) /\ (d.dialOn = Able(d) => e.dialOn = Able(e))
<1>1. PICK f : f = UpdateStateFlags(d)
  OBVIOUS
<1>2. /\ Told(f, d) /\ f.flags = FlagsOf(f) /\ f.banner = ~Able(f)
      /\ f.protocols = d.protocols /\ f.addable = d.addable /\ f.overview = d.overview
      /\ f.queue = d.queue /\ f.handed = d.handed
      /\ d.dialOn = Able(d) => f.dialOn = Able(f)
  BY <1>1, FlagsUpdated
<1>3. PICK g : g = UpdateDialActions(f)
  OBVIOUS
<1>4. /\ Shaped(g) /\ Wired(g)
      /\ \A x \in MemoryFields \ {"protocols"} : g[x] = f[x]
  BY <1>2, <1>3, ActionsUpdated DEF Told
<1>5. PICK h : h = IF accountsToo THEN AccountsChanged(g, gone) ELSE g
  OBVIOUS
<1>6. /\ Shaped(h) /\ \A x \in MemoryFields \ {"addable", "overview"} : h[x] = g[x]
      /\ ~accountsToo => h = g
      /\ accountsToo /\ gone = 0 /\ g.opened /\ "sip" \in ToSet(g.providers) /\ g.accounts # {}
           => h.addable /\ h.overview
  BY <1>4, <1>5, OverviewUpdated DEF AccountsChanged
<1>7. e = OriginCountChanged(h)
  BY <1>1, <1>3, <1>5 DEF OriginsChanged
<1>8. /\ f.providers = d.providers /\ f.modem = d.modem /\ f.accounts = d.accounts
      /\ f.tels = d.tels /\ f.lookups = d.lookups /\ f.asked = d.asked /\ f.opened = d.opened
  BY <1>2 DEF Told, MemoryFields
<1>9. /\ g.providers = d.providers /\ g.modem = d.modem /\ g.accounts = d.accounts
      /\ g.tels = d.tels /\ g.lookups = d.lookups /\ g.asked = d.asked /\ g.opened = d.opened
      /\ g.flags = f.flags /\ g.banner = f.banner /\ g.dialOn = f.dialOn
      /\ g.addable = d.addable /\ g.overview = d.overview
      /\ g.queue = d.queue /\ g.handed = d.handed
  BY <1>2, <1>4, <1>8 DEF MemoryFields
<1>10. /\ h.providers = d.providers /\ h.modem = d.modem /\ h.accounts = d.accounts
       /\ h.tels = d.tels /\ h.lookups = d.lookups /\ h.asked = d.asked /\ h.opened = d.opened
       /\ h.flags = f.flags /\ h.banner = f.banner /\ h.dialOn = f.dialOn
       /\ h.protocols = g.protocols
       /\ h.queue = d.queue /\ h.handed = d.handed
  BY <1>6, <1>9 DEF MemoryFields
<1>11. Counted(h)
  BY <1>10 DEF Counted
<1>12. Unmoved(e, h) /\ Counted(e) /\ InTime(e)
  BY <1>6, <1>7, <1>11, QueueDialled
<1>13. /\ e.providers = d.providers /\ e.modem = d.modem /\ e.accounts = d.accounts
       /\ e.tels = d.tels /\ e.lookups = d.lookups /\ e.asked = d.asked /\ e.opened = d.opened
       /\ e.flags = f.flags /\ e.banner = f.banner /\ e.dialOn = f.dialOn
       /\ e.protocols = g.protocols /\ e.addable = h.addable /\ e.overview = h.overview
  BY <1>10, <1>12 DEF Unmoved, MemoryFields
<1>14. FlagsOf(e) = FlagsOf(f)
  BY <1>8, <1>13 DEF FlagsOf
<1>15. Able(e) = Able(f)
  BY <1>13 DEF Able
<1>16. Wired(e)
  <2>1. PICK w : w = UpdateDialActions(e)
    OBVIOUS
  <2>2. w.protocols = UpdateDialActions(g).protocols
    BY <1>4, <1>9, <1>12, <1>13, <2>1 DEF UpdateDialActions, Unmoved, Shaped, MemoryFields
  <2> QED BY <1>4, <1>13, <2>1, <2>2 DEF Wired
<1>17. Viewed(e)
  <2>1. CASE d.accounts = {}
    BY <1>13, <2>1 DEF Viewed
  <2>2. CASE d.accounts # {}
    <3>1. "sip" \in ToSet(d.providers)
      BY <2>2 DEF OfLoaded
    <3>2. CASE accountsToo /\ gone = 0
      BY <1>6, <1>9, <1>13, <3>1, <3>2 DEF Viewed
    <3>3. CASE ~accountsToo /\ Viewed(d)
      BY <1>6, <1>9, <1>13, <3>3 DEF Viewed
    <3> QED BY <2>2, <3>2, <3>3
  <2> QED BY <2>1, <2>2
<1>18. OfLoaded(e)
  BY <1>13 DEF OfLoaded
<1>19. Told(e, d)
  BY <1>2, <1>4, <1>6, <1>12 DEF Told, Unmoved, MemoryFields
<1> QED
  <2>1. Fine(e)
    BY <1>2, <1>12, <1>13, <1>14, <1>15, <1>16, <1>17, <1>18 DEF Fine, Unmoved
  <2> QED BY <1>2, <1>13, <1>15, <1>19, <2>1

-----------------------------------------------------------------------------
(* Plugins. *)

\* The list of providers, with a provider appended.
LEMMA ProviderListed ==
  ASSUME NEW s \in ProviderLists, NEW p \in {"mm", "sip"}, p \notin ToSet(s)
  PROVE  Append(s, p) \in ProviderLists /\ ToSet(Append(s, p)) = ToSet(s) \union {p}
<1>1. Append(<<>>, p) = <<p>> /\ \A a : Append(<<a>>, p) = <<a, p>>
  <2>1. ASSUME NEW a PROVE Append(<<a>>, p) = <<a, p>>
    <3>1. <<a>> \in Seq({a, p}) /\ Len(<<a>>) = 1 /\ <<a>>[1] = a
      OBVIOUS
    <3>2. PICK t : t = Append(<<a>>, p)
      OBVIOUS
    <3>3. t \in Seq({a, p}) /\ Len(t) = 2 /\ t[1] = a /\ t[2] = p
      BY <3>1, <3>2, AppendProperties
    <3>4. <<a, p>> \in Seq({a, p}) /\ Len(<<a, p>>) = 2 /\ <<a, p>>[1] = a /\ <<a, p>>[2] = p
      OBVIOUS
    <3>5. t = <<a, p>>
      BY <3>3, <3>4, SeqEqual
    <3> QED BY <3>2, <3>5
  <2>2. Append(<<>>, p) = <<p>>
    OBVIOUS
  <2> QED BY <2>1, <2>2
<1>2. /\ ToSet(<<>>) = {} /\ ToSet(<<"mm">>) = {"mm"} /\ ToSet(<<"sip">>) = {"sip"}
      /\ ToSet(<<"mm", "sip">>) = {"mm", "sip"} /\ ToSet(<<"sip", "mm">>) = {"mm", "sip"}
  BY DEF ToSet
<1> QED BY <1>1, <1>2 DEF ProviderLists

\* The list of providers, with a provider removed.
LEMMA ProviderUnlisted ==
  ASSUME NEW s \in ProviderLists, NEW at \in DOMAIN s
  PROVE  RemoveAt(s, at) \in ProviderLists /\ ToSet(RemoveAt(s, at)) = ToSet(s) \ {s[at]}
<1>1. /\ ToSet(<<>>) = {} /\ ToSet(<<"mm">>) = {"mm"} /\ ToSet(<<"sip">>) = {"sip"}
      /\ ToSet(<<"mm", "sip">>) = {"mm", "sip"} /\ ToSet(<<"sip", "mm">>) = {"mm", "sip"}
  BY DEF ToSet
<1>2. s # <<>> /\ at \in 1..Len(s)
  BY DEF ProviderLists
<1>3. ASSUME NEW p \in {"mm", "sip"}, s = <<p>>
      PROVE  RemoveAt(s, at) = <<>> /\ s[at] = p
  BY <1>2, <1>3 DEF RemoveAt
<1>4. ASSUME NEW p \in {"mm", "sip"}, NEW q \in {"mm", "sip"}, s = <<p, q>>
      PROVE  \/ at = 1 /\ RemoveAt(s, at) = <<q>> /\ s[at] = p
             \/ at = 2 /\ RemoveAt(s, at) = <<p>> /\ s[at] = q
  <2>1. at \in {1, 2} /\ Len(s) = 2
    BY <1>2, <1>4
  <2>2. SubSeq(s, 1, 0) = <<>> /\ SubSeq(s, 1, 1) = <<p>> /\ SubSeq(s, 2, 2) = <<q>> /\ SubSeq(s, 3, 2) = <<>>
    <3>1. s \in Seq({p, q}) /\ Len(s) = 2 /\ s[1] = p /\ s[2] = q
      BY <1>4
    <3>2. SubSeq(s, 1, 0) = <<>> /\ SubSeq(s, 3, 2) = <<>>
      BY <3>1
    <3>3. SubSeq(s, 1, 1) = <<p>>
      <4>1. PICK t : t = SubSeq(s, 1, 1)
        OBVIOUS
      <4>2. t \in Seq({p, q}) /\ Len(t) = 1 /\ t[1] = p
        BY <3>1, <4>1, SubSeqProperties
      <4>3. <<p>> \in Seq({p, q}) /\ Len(<<p>>) = 1 /\ <<p>>[1] = p
        OBVIOUS
      <4>4. t = <<p>>
        BY <4>2, <4>3, SeqEqual
      <4> QED BY <4>1, <4>4
    <3>4. SubSeq(s, 2, 2) = <<q>>
      <4>1. PICK t : t = SubSeq(s, 2, 2)
        OBVIOUS
      <4>2. t \in Seq({p, q}) /\ Len(t) = 1 /\ t[1] = q
        BY <3>1, <4>1, SubSeqProperties
      <4>3. <<q>> \in Seq({p, q}) /\ Len(<<q>>) = 1 /\ <<q>>[1] = q
        OBVIOUS
      <4>4. t = <<q>>
        BY <4>2, <4>3, SeqEqual
      <4> QED BY <4>1, <4>4
    <3> QED BY <3>2, <3>3, <3>4
  <2>3. /\ at = 1 => RemoveAt(s, at) = <<>> \o <<q>>
        /\ at = 2 => RemoveAt(s, at) = <<p>> \o <<>>
    <3>1. RemoveAt(s, 1) = SubSeq(s, 1, 0) \o SubSeq(s, 2, 2)
      BY <2>1 DEF RemoveAt
    <3>2. RemoveAt(s, 2) = SubSeq(s, 1, 1) \o SubSeq(s, 3, 2)
      BY <2>1 DEF RemoveAt
    <3> QED BY <2>2, <3>1, <3>2
  <2>4. <<>> \o <<q>> = <<q>> /\ <<p>> \o <<>> = <<p>>
    OBVIOUS
  <2> QED BY <1>4, <2>1, <2>3, <2>4
<1>5. CASE s \in {<<"mm">>, <<"sip">>}
  BY <1>1, <1>3, <1>5 DEF ProviderLists
<1>6. CASE s \in {<<"mm", "sip">>, <<"sip", "mm">>}
  BY <1>1, <1>4, <1>6 DEF ProviderLists
<1> QED BY <1>2, <1>5, <1>6 DEF ProviderLists

\* What plugins that come and go make of the memory d: no account is added, and
\* those whose password is looked up are of the file.
Kin(e, d) ==
  /\ e.accounts \subseteq d.accounts /\ e.lookups \subseteq d.lookups \union file
  /\ e.asked = d.asked /\ e.running = d.running /\ e.opened = d.opened
  /\ d.dialOn = Able(d) => e.dialOn = Able(e)

\* Loading a plugin.
LEMMA PluginLoads ==
  ASSUME NEW d, Fine(d), NEW p \in {"mm", "sip"},
         NEW e, e = LoadPlugin(d, p)
  PROVE  Fine(e) /\ Kin(e, d)
<1>1. CASE IsLoaded(d, p)
  BY <1>1 DEF LoadPlugin, Kin
<1>2. CASE ~IsLoaded(d, p)
  <2>1. PICK l : l = IF p = "sip" THEN file ELSE d.lookups
    OBVIOUS
  <2>2. PICK s : s = Append(d.providers, p)
    OBVIOUS
  <2>3. PICK f : f = [[d EXCEPT !.lookups = l] EXCEPT !.providers = s]
    OBVIOUS
  <2>4. s \in ProviderLists /\ ToSet(s) = ToSet(d.providers) \union {p}
    BY <1>2, <2>2, ProviderListed DEF IsLoaded, Fine, Shaped
  <2>5. /\ Shaped(f) /\ f.lookups = l /\ f.providers = s
        /\ \A x \in MemoryFields \ {"lookups", "providers"} : f[x] = d[x]
    BY <2>3, <2>4 DEF Fine, Shaped, MemoryFields
  <2>6. e = UpdateStateFlags(f)
    BY <1>2, <2>1, <2>2, <2>3 DEF LoadPlugin, ProviderAdded, ProvidersChanged, LoadAccounts, Fine, Shaped, MemoryFields
  <2>7. /\ f.modem = d.modem /\ f.accounts = d.accounts /\ f.tels = d.tels
        /\ f.asked = d.asked /\ f.opened = d.opened /\ f.running = d.running
        /\ f.flags = d.flags /\ f.banner = d.banner /\ f.dialOn = d.dialOn
        /\ f.protocols = d.protocols /\ f.addable = d.addable /\ f.overview = d.overview
        /\ f.queue = d.queue /\ f.handed = d.handed
    BY <2>5 DEF MemoryFields
  <2>8. Able(f) = Able(d) /\ f.banner = ~Able(f)
    BY <2>7 DEF Able, Fine
  <2>9. /\ Told(e, f) /\ e.flags = FlagsOf(e) /\ e.banner = ~Able(e)
        /\ e.protocols = f.protocols /\ e.addable = f.addable /\ e.overview = f.overview
        /\ e.queue = f.queue /\ e.handed = f.handed
        /\ f.dialOn = Able(f) => e.dialOn = Able(e)
    BY <2>5, <2>6, <2>8, FlagsUpdated
  <2>10. /\ e.modem = d.modem /\ e.accounts = d.accounts /\ e.tels = d.tels
         /\ e.asked = d.asked /\ e.opened = d.opened /\ e.running = d.running
         /\ e.lookups = l /\ e.providers = s
    BY <2>5, <2>7, <2>9 DEF Told, MemoryFields
  <2>11. OfLoaded(e)
    BY <2>1, <2>4, <2>10 DEF OfLoaded, Fine
  <2>12. Wired(e)
    BY <2>7, <2>9, <2>10 DEF Wired, UpdateDialActions, Fine, Told, Shaped, MemoryFields
  <2>13. Viewed(e) /\ Counted(e) /\ InTime(e)
    BY <2>7, <2>9, <2>10 DEF Viewed, Counted, InTime, HasOrigin, Fine
  <2>14. Kin(e, d)
    BY <2>1, <2>7, <2>8, <2>9, <2>10 DEF Kin
  <2> QED BY <2>9, <2>11, <2>12, <2>13, <2>14 DEF Fine, Told
<1> QED BY <1>1, <1>2

\* Unloading a plugin: its origins go with it.
LEMMA PluginUnloads ==
  ASSUME NEW d, Fine(d), NEW p \in {"mm", "sip"}, p = "sip" => d.lookups = {},
         NEW e, e = UnloadPlugin(d, p)
  PROVE  Fine(e) /\ Kin(e, d) /\ e.lookups = d.lookups
<1>1. CASE ~IsLoaded(d, p)
  BY <1>1 DEF UnloadPlugin, Kin
<1>2. CASE IsLoaded(d, p)
  <2>1. PICK at : at = CHOOSE i \in DOMAIN d.providers : d.providers[i] = p
    OBVIOUS
  <2>2. at \in DOMAIN d.providers /\ d.providers[at] = p
    BY <1>2, <2>1 DEF IsLoaded, ToSet
  <2>3. PICK s : s = RemoveAt(d.providers, at)
    OBVIOUS
  <2>4. s \in ProviderLists /\ ToSet(s) = ToSet(d.providers) \ {p}
    BY <2>2, <2>3, ProviderUnlisted DEF Fine, Shaped
  <2>5. PICK rest : rest = [d EXCEPT !.providers = s]
    OBVIOUS
  <2>6. /\ Shaped(rest) /\ rest.providers = s
        /\ \A x \in MemoryFields \ {"providers"} : rest[x] = d[x]
    BY <2>4, <2>5 DEF Fine, Shaped, MemoryFields
  <2>7. PICK bare : bare = IF p = "mm" THEN [rest EXCEPT !.modem = FALSE]
                           ELSE [rest EXCEPT !.accounts = {}, !.online = {}, !.tels = {}]
    OBVIOUS
  <2>8. /\ Shaped(bare) /\ bare.providers = s /\ bare.opened = d.opened /\ bare.asked = d.asked
        /\ bare.lookups = d.lookups /\ bare.running = d.running /\ bare.flags = d.flags
        /\ bare.banner = d.banner /\ bare.dialOn = d.dialOn /\ bare.protocols = d.protocols
        /\ bare.addable = d.addable /\ bare.overview = d.overview
        /\ bare.queue = d.queue /\ bare.handed = d.handed
        /\ p = "mm" => ~bare.modem /\ bare.accounts = d.accounts
        /\ p = "sip" => bare.modem = d.modem /\ bare.accounts = {}
    BY <2>6, <2>7 DEF Shaped, MemoryFields
  <2>9. OfLoaded(bare)
    BY <2>4, <2>8 DEF OfLoaded, Fine
  <2>10. Able(bare) = Able(d) /\ bare.banner = ~Able(bare) /\ Counted(bare)
    BY <2>8 DEF Able, Counted, Fine
  <2>11. PICK told : told = IF bare = rest THEN rest ELSE OriginsChanged(bare, p = "sip", at)
    OBVIOUS
  <2>12. /\ Shaped(told) /\ OfLoaded(told) /\ told.banner = ~Able(told)
         /\ Wired(told) /\ Viewed(told) /\ Counted(told) /\ InTime(told)
         /\ told.accounts \subseteq d.accounts /\ told.lookups = d.lookups
         /\ told.asked = d.asked /\ told.running = d.running /\ told.opened = d.opened
         /\ d.dialOn = Able(d) => told.dialOn = Able(told)
    <3>1. CASE bare = rest
      <4>1. told.modem = d.modem /\ told.accounts = d.accounts /\ told.tels = d.tels /\ told = bare
        BY <2>6, <2>11, <3>1 DEF MemoryFields
      <4>2. Wired(told)
        BY <2>8, <4>1 DEF Wired, UpdateDialActions, Fine, Shaped, MemoryFields
      <4>3. Viewed(told) /\ InTime(told)
        BY <2>8, <4>1 DEF Viewed, InTime, HasOrigin, Fine
      <4> QED BY <2>8, <2>9, <2>10, <4>1, <4>2, <4>3
    <3>2. CASE bare # rest
      <4>1. bare.accounts = {} \/ (p # "sip" /\ Viewed(bare))
        BY <2>8 DEF Viewed, Fine
      <4>2. PICK b \in BOOLEAN : b <=> p = "sip"
        OBVIOUS
      <4>5. told = OriginsChanged(bare, b, at)
        BY <2>11, <3>2, <4>2
      <4>3. Fine(told) /\ Told(told, bare) /\ (bare.dialOn = Able(bare) => told.dialOn = Able(told))
        BY <2>8, <2>9, <2>10, <4>1, <4>2, <4>5, OriginsTold
      <4>4. /\ told.accounts = bare.accounts /\ told.lookups = bare.lookups
            /\ told.asked = bare.asked /\ told.running = bare.running /\ told.opened = bare.opened
        BY <4>3 DEF Told, MemoryFields
      <4> QED BY <2>8, <2>10, <4>3, <4>4 DEF Fine
    <3> QED BY <3>1, <3>2
  <2>13. e = UpdateStateFlags(told)
    BY <1>2, <2>1, <2>3, <2>5, <2>7, <2>11 DEF UnloadPlugin, ProviderRemoved, ProvidersChanged
  <2>14. /\ Told(e, told) /\ e.flags = FlagsOf(e) /\ e.banner = ~Able(e)
         /\ e.protocols = told.protocols /\ e.addable = told.addable /\ e.overview = told.overview
         /\ e.queue = told.queue /\ e.handed = told.handed
         /\ told.dialOn = Able(told) => e.dialOn = Able(e)
    BY <2>12, <2>13, FlagsUpdated
  <2>15. /\ e.modem = told.modem /\ e.accounts = told.accounts /\ e.tels = told.tels
         /\ e.asked = told.asked /\ e.opened = told.opened /\ e.running = told.running
         /\ e.lookups = told.lookups /\ e.providers = told.providers
    BY <2>14 DEF Told, MemoryFields
  <2>16. OfLoaded(e) /\ Viewed(e) /\ Counted(e) /\ InTime(e)
    BY <2>12, <2>14, <2>15 DEF OfLoaded, Viewed, Counted, InTime, HasOrigin
  <2>17. Wired(e)
    BY <2>12, <2>14, <2>15 DEF Wired, UpdateDialActions, Told, Shaped, MemoryFields
  <2>18. Kin(e, d) /\ e.lookups = d.lookups
    BY <2>12, <2>14, <2>15 DEF Kin
  <2> QED BY <2>14, <2>16, <2>17, <2>18 DEF Fine, Told
<1> QED BY <1>1, <1>2

\* Every set of natural numbers has a least one.
LEMMA LeastNumber ==
  ASSUME NEW S, S \subseteq Nat, S # {}
  PROVE  \E x \in S : \A y \in S : x <= y
<1>1. \E x \in S : \A y \in S : ~ <<y, x>> \in OpToRel(<, Nat)
  BY NatLessThanWellFounded, WFMin
<1>2. ASSUME NEW x \in S, NEW y \in S, ~ <<y, x>> \in OpToRel(<, Nat) PROVE x <= y
  BY <1>2 DEF OpToRel
<1> QED BY <1>1, <1>2

\* Induction, for a set of natural numbers.
LEMMA Induction ==
  ASSUME NEW S, 0 \in S, \A n \in S : n \in Nat => n + 1 \in S
  PROVE  Nat \subseteq S
<1> SUFFICES ASSUME NEW n \in Nat \ S PROVE FALSE
  OBVIOUS
<1>1. PICK x \in Nat \ S : \A y \in Nat \ S : x <= y
  BY LeastNumber
<1>2. x # 0 /\ x - 1 \in Nat
  BY <1>1
<1>3. x - 1 \in S
  BY <1>1, <1>2
<1> QED BY <1>1, <1>2, <1>3

\* f is how LoadPlugins() proceeds through the first n of names.
Loads(f, d, names, failing, n) ==
  f = [m \in 0..n |-> IF m = 0 THEN d
                      ELSE IF names[m] \in failing THEN f[m - 1] ELSE LoadPlugin(f[m - 1], names[m])]

\* The memory after n of the names is that after n - 1, with one more loaded.
LEMMA LoadsOn ==
  ASSUME NEW d, NEW names, Len(names) \in Nat, NEW failing
  PROVE  \E f : Loads(f, d, names, failing, Len(names)) /\ LoadPlugins(d, names, failing) = f[Len(names)]
<1> DEFINE D == {n \in Nat : \E f : Loads(f, d, names, failing, n)}
<1>1. 0 \in D
  <2>1. Loads([m \in 0..0 |-> d], d, names, failing, 0)
    BY DEF Loads
  <2> QED BY <2>1
<1>2. ASSUME NEW n \in D PROVE n + 1 \in D
  <2>1. PICK f : Loads(f, d, names, failing, n)
    OBVIOUS
  <2>2. PICK x : x = IF names[n + 1] \in failing THEN f[n] ELSE LoadPlugin(f[n], names[n + 1])
    OBVIOUS
  <2>3. PICK g : g = [m \in 0..(n + 1) |-> IF m = n + 1 THEN x ELSE f[m]]
    OBVIOUS
  <2>4. \A m \in 0..n : f[m] = IF m = 0 THEN d ELSE IF names[m] \in failing THEN f[m - 1]
                                                ELSE LoadPlugin(f[m - 1], names[m])
    BY <2>1 DEF Loads
  <2>5. \A m \in 0..(n + 1) : g[m] = IF m = 0 THEN d ELSE IF names[m] \in failing THEN g[m - 1]
                                                      ELSE LoadPlugin(g[m - 1], names[m])
    <3> TAKE m \in 0..(n + 1)
    <3>1. CASE m = n + 1
      <4>1. m # 0 /\ m - 1 = n /\ g[m - 1] = f[n] /\ g[m] = x
        BY <2>3, <3>1
      <4> QED BY <2>2, <3>1, <4>1
    <3>2. CASE m = 0
      BY <2>3, <2>4, <3>2
    <3>3. CASE m # n + 1 /\ m # 0
      <4>1. g[m] = f[m] /\ g[m - 1] = f[m - 1] /\ m \in 0..n
        BY <2>3, <3>3
      <4> QED BY <2>4, <3>3, <4>1
    <3> QED BY <3>1, <3>2, <3>3
  <2>6. g = [m \in 0..(n + 1) |-> g[m]]
    BY <2>3
  <2>7. Loads(g, d, names, failing, n + 1)
    BY <2>5, <2>6 DEF Loads
  <2> QED BY <2>7
<1>3. Nat \subseteq D
  <2> HIDE DEF D
  <2> QED BY <1>1, <1>2, Induction
<1>4. \E f : Loads(f, d, names, failing, Len(names))
  BY <1>3
<1>5. PICK f : f = CHOOSE h : Loads(h, d, names, failing, Len(names))
  OBVIOUS
<1>6. LoadPlugins(d, names, failing) = f[Len(names)]
  BY <1>5 DEF LoadPlugins, Loads
<1> QED BY <1>4, <1>5, <1>6

\* Kin is transitive.
LEMMA KinToo ==
  ASSUME NEW d, NEW e, NEW f, Kin(e, d), Kin(f, e)
  PROVE  Kin(f, d)
BY DEF Kin

\* Loading the plugins of any list of names, some of which may fail.
LEMMA PluginsLoad ==
  ASSUME NEW d, Fine(d), NEW names \in Seq({"mm", "sip"}), NEW failing,
         NEW e, e = LoadPlugins(d, names, failing)
  PROVE  Fine(e) /\ Kin(e, d)
<1>1. Len(names) \in Nat /\ \A i \in 1..Len(names) : names[i] \in {"mm", "sip"}
  OBVIOUS
<1>2. PICK f : Loads(f, d, names, failing, Len(names)) /\ e = f[Len(names)]
  BY <1>1, LoadsOn
<1>3. \A m \in 0..Len(names) : f[m] = IF m = 0 THEN d ELSE IF names[m] \in failing THEN f[m - 1]
                                                       ELSE LoadPlugin(f[m - 1], names[m])
  BY <1>2 DEF Loads
<1> DEFINE D == {n \in Nat : n <= Len(names) => Fine(f[n]) /\ Kin(f[n], d)}
<1>4. 0 \in D
  <2>1. f[0] = d
    BY <1>1, <1>3
  <2> QED BY <2>1 DEF Kin
<1>5. ASSUME NEW n \in D PROVE n + 1 \in D
  <2> SUFFICES ASSUME n + 1 <= Len(names) PROVE Fine(f[n + 1]) /\ Kin(f[n + 1], d)
    OBVIOUS
  <2>1. /\ n \in Nat /\ Fine(f[n]) /\ Kin(f[n], d) /\ n + 1 \in 0..Len(names) /\ n + 1 # 0
        /\ (n + 1) - 1 = n /\ names[n + 1] \in {"mm", "sip"}
    BY <1>1
  <2>2. f[n + 1] = IF names[n + 1] \in failing THEN f[n] ELSE LoadPlugin(f[n], names[n + 1])
    BY <1>3, <2>1
  <2>3. CASE names[n + 1] \in failing
    BY <2>1, <2>2, <2>3
  <2>4. CASE names[n + 1] \notin failing
    <3>1. Fine(f[n + 1]) /\ Kin(f[n + 1], f[n])
      BY <2>1, <2>2, <2>4, PluginLoads
    <3> QED BY <2>1, <3>1, KinToo
  <2> QED BY <2>3, <2>4
<1>6. Nat \subseteq D
  <2> HIDE DEF D
  <2> QED BY <1>4, <1>5, Induction
<1> QED BY <1>1, <1>2, <1>6

\* Loading the plugins of a list of names, and unloading the others.
LEMMA PluginsSet ==
  ASSUME NEW d, Fine(d), NEW names \in Seq({"mm", "sip"}), NEW failing,
         "sip" \notin ToSet(names) => d.lookups = {},
         NEW e, e = SetPluginNames(d, names, failing)
  PROVE  Fine(e) /\ Kin(e, d)
<1>1. PICK f : f = IF "mm" \in ToSet(names) THEN d ELSE UnloadPlugin(d, "mm")
  OBVIOUS
<1>2. PICK g : g = IF "sip" \in ToSet(names) THEN f ELSE UnloadPlugin(f, "sip")
  OBVIOUS
<1>3. Plugins[1] = "mm" /\ Plugins[2] = "sip"
  BY DEF Plugins
<1>4. e = LoadPlugins(g, names, failing)
  BY <1>1, <1>2, <1>3 DEF SetPluginNames
<1>5. Fine(f) /\ Kin(f, d) /\ f.lookups = d.lookups
  <2>1. CASE "mm" \in ToSet(names)
    BY <1>1, <2>1 DEF Kin
  <2>2. CASE "mm" \notin ToSet(names)
    BY <1>1, <2>2, PluginUnloads
  <2> QED BY <2>1, <2>2
<1>6. Fine(g) /\ Kin(g, f)
  <2>1. CASE "sip" \in ToSet(names)
    BY <1>2, <1>5, <2>1 DEF Kin
  <2>2. CASE "sip" \notin ToSet(names)
    BY <1>2, <1>5, <2>2, PluginUnloads
  <2> QED BY <2>1, <2>2
<1>7. Fine(e) /\ Kin(e, g)
  BY <1>4, <1>6, PluginsLoad
<1> QED BY <1>5, <1>6, <1>7, KinToo

-----------------------------------------------------------------------------
(* What is asked for. *)

Remember(d, t) == [d EXCEPT !.asked = @ \union {t}]

\* What the user asks for is handed over, queued or given up.
LEMMA AskedOnce ==
  ASSUME NEW d, Fine(d), NEW t \in Request, t \notin d.asked,
         NEW f, f \in {d, HandOver(d, t), Dial(d, t)},
         NEW e, e = Remember(f, t)
  PROVE  /\ Fine(e) /\ e.accounts = d.accounts /\ e.lookups = d.lookups
         /\ e.running = d.running /\ e.opened = d.opened /\ e.dialOn = d.dialOn
         /\ Able(e) = Able(d)
<1>1. Shaped(d) /\ d.queue[t] = 0 /\ d.handed[t] = 0
  BY DEF Fine, Counted, Shaped
<1> DEFINE Put(h, q) == /\ h \in [Request -> Nat] /\ q \in [Request -> Nat]
                        /\ f = [d EXCEPT !.handed = h, !.queue = q]
                        /\ \A r \in Request \ {t} : h[r] = d.handed[r] /\ q[r] = d.queue[r]
                        /\ h[t] + q[t] <= 1 /\ (q[t] > 0 => ~CanDial(d, t))
<1>2. PICK h, q : Put(h, q)
  <2>1. CASE f = d
    <3>1. f = [d EXCEPT !.handed = d.handed, !.queue = d.queue]
      BY <1>1, <2>1 DEF Shaped, MemoryFields
    <3>9. Put(d.handed, d.queue)
      BY <1>1, <3>1 DEF Shaped
    <3> HIDE DEF Put
    <3> QED BY <3>9
  <2>2. CASE f = HandOver(d, t)
    <3>1. PICK h : h = [d.handed EXCEPT ![t] = @ + 1]
      OBVIOUS
    <3>2. h \in [Request -> Nat] /\ h[t] = 1 /\ \A r \in Request \ {t} : h[r] = d.handed[r]
      BY <1>1, <3>1 DEF Shaped
    <3>3. f = [d EXCEPT !.handed = h]
      BY <1>1, <2>2, <3>1 DEF HandOver, Shaped, MemoryFields
    <3>4. f = [d EXCEPT !.handed = h, !.queue = d.queue]
      BY <1>1, <3>3 DEF Shaped, MemoryFields
    <3>9. Put(h, d.queue)
      BY <1>1, <3>2, <3>4 DEF Shaped
    <3> HIDE DEF Put
    <3> QED BY <3>9
  <2>3. CASE f # HandOver(d, t) /\ f = Dial(d, t)
    <3>1. PICK q : q = [d.queue EXCEPT ![t] = @ + 1]
      OBVIOUS
    <3>2. q \in [Request -> Nat] /\ q[t] = 1 /\ \A r \in Request \ {t} : q[r] = d.queue[r]
      BY <1>1, <3>1 DEF Shaped
    <3>3. f = [d EXCEPT !.queue = q] /\ ~CanDial(d, t)
      BY <1>1, <2>3, <3>1 DEF Dial, Shaped, MemoryFields
    <3>4. f = [d EXCEPT !.handed = d.handed, !.queue = q]
      BY <1>1, <3>3 DEF Shaped, MemoryFields
    <3>5. PICK h : h = d.handed
      OBVIOUS
    <3>6. /\ h \in [Request -> Nat] /\ h[t] = 0 /\ \A r \in Request \ {t} : h[r] = d.handed[r]
          /\ f = [d EXCEPT !.handed = h, !.queue = q]
      BY <1>1, <3>4, <3>5 DEF Shaped
    <3>7. h[t] + q[t] = 1
      BY <3>2, <3>6
    <3>8. ~CanDial(d, t)
      BY <3>3
    <3>9. Put(h, q)
      <4>1. h \in [Request -> Nat] /\ q \in [Request -> Nat] /\ f = [d EXCEPT !.handed = h, !.queue = q]
        BY <3>2, <3>6
      <4>2. \A r \in Request \ {t} : h[r] = d.handed[r] /\ q[r] = d.queue[r]
        BY <3>2, <3>6
      <4>3. h[t] + q[t] <= 1 /\ (q[t] > 0 => ~CanDial(d, t))
        BY <3>7, <3>8
      <4> QED BY <4>1, <4>2, <4>3
    <3> HIDE DEF Put
    <3> QED BY <3>9
  <2> QED BY <2>1, <2>2, <2>3
<1>3. PICK a : a = d.asked \union {t}
  OBVIOUS
<1>4. e = [d EXCEPT !.handed = h, !.queue = q, !.asked = a]
  BY <1>1, <1>2, <1>3 DEF Remember, Shaped, MemoryFields
<1>5. /\ Shaped(e) /\ e.handed = h /\ e.queue = q /\ e.asked = a
      /\ \A x \in MemoryFields \ {"handed", "queue", "asked"} : e[x] = d[x]
  BY <1>1, <1>2, <1>4 DEF Shaped, MemoryFields
<1>6. /\ e.providers = d.providers /\ e.modem = d.modem /\ e.accounts = d.accounts
      /\ e.tels = d.tels /\ e.lookups = d.lookups /\ e.opened = d.opened
      /\ e.flags = d.flags /\ e.banner = d.banner /\ e.dialOn = d.dialOn
      /\ e.protocols = d.protocols /\ e.addable = d.addable /\ e.overview = d.overview
      /\ e.running = d.running
  BY <1>5 DEF MemoryFields
<1>7. OfLoaded(e) /\ e.flags = FlagsOf(e) /\ e.banner = ~Able(e) /\ Able(e) = Able(d) /\ Viewed(e)
  BY <1>6 DEF Fine, OfLoaded, FlagsOf, Able, Viewed
<1>8. Wired(e)
  BY <1>5, <1>6 DEF Wired, UpdateDialActions, Fine, Shaped, MemoryFields
<1>9. Counted(e)
  BY <1>2, <1>3, <1>5 DEF Fine, Counted
<1>10. InTime(e)
  <2> SUFFICES ASSUME NEW r \in Request, e.queue[r] > 0
               PROVE  /\ useDefault /\ r \in Tel => ~e.modem
                      /\ ~useDefault => ~HasOrigin(e)
    BY DEF InTime
  <2>1. CASE r # t
    BY <1>2, <1>5, <1>6, <2>1 DEF Fine, InTime, HasOrigin
  <2>2. CASE r = t
    <3>1. ~CanDial(d, t)
      BY <1>2, <1>5, <2>2
    <3>2. ASSUME useDefault, t \in Tel PROVE ~d.modem
      <4>1. ASSUME d.modem PROVE "modem" \in Suitable(d, t)
        BY <3>2, <4>1 DEF Suitable
      <4> QED BY <3>1, <3>2, <4>1 DEF CanDial
    <3>3. ~useDefault => ~HasOrigin(d)
      BY <3>1 DEF CanDial
    <3> QED BY <1>6, <2>2, <3>2, <3>3 DEF HasOrigin
  <2> QED BY <2>1, <2>2
<1> QED BY <1>5, <1>6, <1>7, <1>8, <1>9, <1>10 DEF Fine

\* What a command line makes of the memory d.
LEMMA Commanded ==
  ASSUME NEW d, Fine(d), NEW c \in Commands, Fresh(d, c), Unloadable(d, c), NEW failing,
         NEW e, e = CommandLine(d, c, failing)
  PROVE  /\ Fine(e)
         /\ e.accounts \subseteq d.accounts /\ e.lookups \subseteq d.lookups \union file
         /\ e.running = d.running /\ e.opened = d.opened
         /\ d.dialOn = Able(d) => e.dialOn = Able(e)
<1>1. /\ c.names \in {<<>>, <<"mm">>, <<"sip", "mm">>}
      /\ c.dial \in Request \union {"no"} /\ c.uri \in Request \union {"no"}
      /\ c.dial = "no" \/ c.uri = "no"
  BY DEF Commands
<1>2. c.names \in Seq({"mm", "sip"})
  <2>1. <<>> \in Seq({"mm", "sip"}) /\ <<"mm">> \in Seq({"mm", "sip"}) /\ <<"sip", "mm">> \in Seq({"mm", "sip"})
    OBVIOUS
  <2> QED BY <1>1, <2>1
<1>3. PICK f : f = IF c.names = <<>> THEN d ELSE SetPluginNames(d, c.names, failing)
  OBVIOUS
<1>4. Fine(f) /\ Kin(f, d)
  <2>1. CASE c.names = <<>>
    BY <1>3, <2>1 DEF Kin
  <2>2. CASE c.names # <<>>
    BY <1>2, <1>3, <2>2, PluginsSet DEF Unloadable
  <2> QED BY <2>1, <2>2
<1>5. PICK g : g = IF c.dial = "no" THEN f ELSE DialAction(f, c.dial)
  OBVIOUS
<1>6. PICK h : h = IF c.uri = "no" THEN g ELSE OpenUri(g, c.uri)
  OBVIOUS
<1>7. e = [h EXCEPT !.asked = @ \union ({c.dial, c.uri} \ {"no"})]
  BY <1>3, <1>5, <1>6 DEF CommandLine
<1>8. f.asked = d.asked /\ c.dial \notin d.asked /\ c.uri \notin d.asked
  BY <1>4 DEF Kin, Fresh
<1>9. CASE c.dial = "no" /\ c.uri = "no"
  <2>1. h = f /\ {c.dial, c.uri} \ {"no"} = {}
    BY <1>5, <1>6, <1>9
  <2>2. e = [f EXCEPT !.asked = @ \union {}]
    BY <1>7, <2>1
  <2>3. f.asked \union {} = f.asked
    OBVIOUS
  <2>4. e = f
    BY <1>4, <2>2, <2>3 DEF Fine, Shaped, MemoryFields
  <2> QED BY <1>4, <2>4 DEF Kin
<1>10. ASSUME NEW t \in Request, t \notin d.asked, h \in {f, Dial(f, t)}, {c.dial, c.uri} \ {"no"} = {t}
       PROVE  /\ Fine(e) /\ e.accounts = f.accounts /\ e.lookups = f.lookups
              /\ e.running = f.running /\ e.opened = f.opened /\ e.dialOn = f.dialOn
              /\ Able(e) = Able(f)
  <2>1. e = Remember(h, t)
    BY <1>7, <1>10 DEF Remember
  <2>2. t \notin f.asked /\ h \in {f, HandOver(f, t), Dial(f, t)} /\ Fine(f)
    BY <1>4, <1>8, <1>10
  <2> QED BY <2>1, <2>2, AskedOnce
<1>11. CASE c.dial # "no"
  <2>1. c.dial \in Request /\ c.uri = "no" /\ h = DialAction(f, c.dial) /\ {c.dial, c.uri} \ {"no"} = {c.dial}
    BY <1>1, <1>5, <1>6, <1>11
  <2>2. h \in {f, Dial(f, c.dial)}
    BY <2>1 DEF DialAction, CallNumber
  <2> QED BY <1>4, <1>8, <1>10, <2>1, <2>2 DEF Kin
<1>12. CASE c.uri # "no"
  <2>1. c.uri \in Request /\ c.dial = "no" /\ h = OpenUri(f, c.uri) /\ {c.dial, c.uri} \ {"no"} = {c.uri}
    BY <1>1, <1>5, <1>6, <1>12
  <2>2. h \in {f, Dial(f, c.uri)}
    BY <2>1 DEF OpenUri, CallNumber
  <2> QED BY <1>4, <1>8, <1>10, <2>1, <2>2 DEF Kin
<1> QED BY <1>9, <1>11, <1>12

\* A program that has not loaded anything yet.
LEMMA NothingYet ==
  ASSUME NEW d, d = NotRunning \/ d = [NotRunning EXCEPT !.running = TRUE]
  PROVE  Fine(d) /\ d.accounts = {} /\ d.lookups = {} /\ d.asked = {} /\ d.providers = <<>>
<1>2. /\ Shaped(d) /\ d.providers = <<>> /\ d.modem = FALSE /\ d.accounts = {} /\ d.lookups = {}
      /\ d.tels = {} /\ d.flags = {} /\ d.banner = TRUE /\ d.protocols = {}
      /\ d.opened = FALSE /\ d.asked = {}
      /\ d.queue = [t \in Request |-> 0] /\ d.handed = [t \in Request |-> 0]
  <2>1. CASE d = NotRunning
    BY <2>1 DEF NotRunning, Shaped, MemoryFields, ProviderLists
  <2>2. CASE d = [NotRunning EXCEPT !.running = TRUE]
    BY <2>2 DEF NotRunning, Shaped, MemoryFields, ProviderLists
  <2> QED BY <2>1, <2>2
<1>3. ToSet(d.providers) = {}
  BY <1>2 DEF ToSet
<1>4. FlagsOf(d) = {} /\ ~Able(d)
  BY <1>2, <1>3 DEF FlagsOf, Able
<1>5. Wired(d)
  <2>1. {p \in {"tel", "sip"} : \/ p = "tel" /\ (d.modem \/ d.tels # {})
                                \/ p = "sip" /\ d.accounts # {}} = {}
    BY <1>2
  <2>2. UpdateDialActions(d) = [d EXCEPT !.protocols = {}]
    BY <2>1 DEF UpdateDialActions
  <2> QED BY <1>2, <2>2 DEF Wired, Shaped, MemoryFields
<1>6. OfLoaded(d) /\ Viewed(d) /\ Counted(d) /\ InTime(d)
  BY <1>2 DEF OfLoaded, Viewed, Counted, InTime
<1> QED BY <1>2, <1>4, <1>5, <1>6 DEF Fine

\* A program that has started.
LEMMA Started ==
  ASSUME NEW failing, NEW e, e = Startup(failing)
  PROVE  /\ Fine(e) /\ e.running = TRUE /\ e.opened = FALSE /\ e.accounts = {}
         /\ e.lookups \subseteq file /\ e.asked = {} /\ e.dialOn = Able(e)
<1>1. PICK d : d = [NotRunning EXCEPT !.running = TRUE]
  OBVIOUS
<1>2. d.running = TRUE /\ d.opened = FALSE
  BY <1>1 DEF NotRunning
<1>3. Fine(d) /\ d.accounts = {} /\ d.lookups = {} /\ d.asked = {} /\ d.providers = <<>>
  BY <1>1, NothingYet
<1>4. PICK f : f = LoadPlugins(d, Autoload, failing)
  OBVIOUS
<1>5. Fine(f) /\ Kin(f, d)
  BY <1>3, <1>4, PluginsLoad, ApplicationAssumption
<1>6. e = EnableDial(f)
  BY <1>1, <1>3, <1>4 DEF Startup, SetDefaultPlugins
<1>7. PICK a : a = Able(f)
  OBVIOUS
<1>8. e = [f EXCEPT !.dialOn = a]
  BY <1>6, <1>7 DEF EnableDial
<1>9. /\ Shaped(e) /\ e.dialOn = a /\ \A x \in MemoryFields \ {"dialOn"} : e[x] = f[x]
  BY <1>5, <1>8 DEF Fine, Shaped, MemoryFields
<1>10. /\ e.providers = f.providers /\ e.modem = f.modem /\ e.accounts = f.accounts
       /\ e.tels = f.tels /\ e.lookups = f.lookups /\ e.opened = f.opened /\ e.running = f.running
       /\ e.flags = f.flags /\ e.banner = f.banner /\ e.asked = f.asked
       /\ e.protocols = f.protocols /\ e.addable = f.addable /\ e.overview = f.overview
       /\ e.queue = f.queue /\ e.handed = f.handed
  BY <1>9 DEF MemoryFields
<1>11. /\ OfLoaded(e) /\ e.flags = FlagsOf(e) /\ e.banner = ~Able(e) /\ Able(e) = a
       /\ Viewed(e) /\ Counted(e) /\ InTime(e)
  BY <1>5, <1>7, <1>10 DEF Fine, OfLoaded, FlagsOf, Able, Viewed, Counted, InTime, HasOrigin
<1>12. Wired(e)
  BY <1>5, <1>9, <1>10 DEF Wired, UpdateDialActions, Fine, Shaped, MemoryFields
<1>13. Fine(e)
  BY <1>9, <1>11, <1>12 DEF Fine
<1> QED BY <1>2, <1>3, <1>5, <1>9, <1>10, <1>11, <1>13 DEF Kin

\* What this says of a running program.
LEMMA FineTells ==
  ASSUME NEW d, Fine(d), d.dialOn = Able(d)
  PROVE  /\ d.flags = FlagsOf(d)
         /\ d.banner = ~HasOrigin(d) /\ d.dialOn = HasOrigin(d)
         /\ d.protocols = UpdateDialActions(d).protocols
         /\ d.opened /\ d.accounts # {} => d.overview /\ d.addable
<1>1. d.flags = FlagsOf(d) /\ d.modem \in BOOLEAN
  BY DEF Fine, Shaped
<1>2. ("CELLULAR_MODEM" \in d.flags <=> d.modem) /\ ("VOIP_ACCOUNT" \in d.flags <=> d.accounts # {})
  BY <1>1 DEF FlagsOf
<1>3. Able(d) = HasOrigin(d)
  BY <1>1, <1>2 DEF Able, HasOrigin
<1> QED BY <1>3 DEF Fine, Wired, Viewed

-----------------------------------------------------------------------------
(* A program that runs. *)

Running(d) == d.running = TRUE /\ Fine(d) /\ d.dialOn = Able(d)

\* A step of which neither the manager nor the box that dials is told.
LEMMA Similar ==
  ASSUME NEW d, Running(d), NEW e, Shaped(e),
         \A x \in MemoryFields \ {"accounts", "lookups", "online"} : e[x] = d[x],
         e.accounts = {} <=> d.accounts = {}, d.lookups = {} => e.lookups = {}
  PROVE  Running(e)
<1>1. /\ e.providers = d.providers /\ e.modem = d.modem /\ e.tels = d.tels
      /\ e.opened = d.opened /\ e.running = d.running /\ e.asked = d.asked
      /\ e.flags = d.flags /\ e.banner = d.banner /\ e.dialOn = d.dialOn
      /\ e.protocols = d.protocols /\ e.addable = d.addable /\ e.overview = d.overview
      /\ e.queue = d.queue /\ e.handed = d.handed
  BY DEF MemoryFields
<1>2. HasOrigin(e) = HasOrigin(d) /\ FlagsOf(e) = FlagsOf(d) /\ Able(e) = Able(d)
  BY <1>1 DEF HasOrigin, FlagsOf, Able
<1>3. OfLoaded(e) /\ Viewed(e) /\ Counted(e) /\ InTime(e)
  BY <1>1, <1>2 DEF Running, Fine, OfLoaded, Viewed, Counted, InTime
<1>4. Wired(e)
  <2>1. PICK P : P = {p \in {"tel", "sip"} : \/ p = "tel" /\ (d.modem \/ d.tels # {})
                                             \/ p = "sip" /\ d.accounts # {}}
    OBVIOUS
  <2>2. P = {p \in {"tel", "sip"} : \/ p = "tel" /\ (e.modem \/ e.tels # {})
                                    \/ p = "sip" /\ e.accounts # {}}
    BY <1>1, <2>1
  <2>3. UpdateDialActions(d) = [d EXCEPT !.protocols = P] /\ UpdateDialActions(e) = [e EXCEPT !.protocols = P]
    BY <2>1, <2>2 DEF UpdateDialActions
  <2>4. Shaped(d) /\ d.protocols = UpdateDialActions(d).protocols
    BY DEF Running, Fine, Wired
  <2>5. UpdateDialActions(d).protocols = P /\ UpdateDialActions(e).protocols = P
    BY <2>3, <2>4 DEF Shaped, MemoryFields
  <2> QED BY <1>1, <2>4, <2>5 DEF Wired
<1> QED BY <1>1, <1>2, <1>3, <1>4 DEF Running, Fine

\* f is d but for its origins.
Reshuffled(f, d) ==
  /\ Shaped(f) /\ OfLoaded(f)
  /\ \A x \in MemoryFields \ {"modem", "accounts", "lookups", "online", "tels"} : f[x] = d[x]

\* A step in which origins come or go, and all are told.
LEMMA Moved ==
  ASSUME NEW d, Running(d), NEW f, Reshuffled(f, d),
         NEW accountsToo \in BOOLEAN, accountsToo \/ f.accounts = d.accounts,
         NEW e, e = OriginsChanged(f, accountsToo, 0)
  PROVE  Running(e) /\ e.accounts = f.accounts /\ e.lookups = f.lookups
<1>1. /\ f.providers = d.providers /\ f.running = d.running /\ f.asked = d.asked /\ f.opened = d.opened
      /\ f.flags = d.flags /\ f.banner = d.banner /\ f.dialOn = d.dialOn
      /\ f.addable = d.addable /\ f.overview = d.overview
      /\ f.queue = d.queue /\ f.handed = d.handed
      /\ Shaped(f) /\ OfLoaded(f)
  BY DEF Reshuffled, MemoryFields
<1>2. Able(f) = Able(d) /\ f.banner = ~Able(f) /\ Counted(f) /\ f.dialOn = Able(f)
  BY <1>1 DEF Able, Counted, Running, Fine
<1>3. accountsToo \/ (~accountsToo /\ Viewed(f))
  BY <1>1 DEF Viewed, Running, Fine
<1>4. Fine(e) /\ Told(e, f) /\ (f.dialOn = Able(f) => e.dialOn = Able(e))
  BY <1>1, <1>2, <1>3, OriginsTold
<1>5. e.accounts = f.accounts /\ e.lookups = f.lookups /\ e.running = f.running
  BY <1>4 DEF Told, MemoryFields
<1> QED BY <1>1, <1>2, <1>4, <1>5 DEF Running

\* The same if it is the modem that comes or goes.
LEMMA MovedModem ==
  ASSUME NEW d, Running(d), NEW f, Reshuffled(f, d), f.accounts = d.accounts
  PROVE  LET e == OriginsChanged(f, FALSE, 0)
         IN  Running(e) /\ e.accounts = f.accounts /\ e.lookups = f.lookups
BY Moved

\* The same if accounts come or go.
LEMMA MovedAccounts ==
  ASSUME NEW d, Running(d), NEW f, Reshuffled(f, d)
  PROVE  LET e == OriginsChanged(f, TRUE, 0)
         IN  Running(e) /\ e.accounts = f.accounts /\ e.lookups = f.lookups
BY Moved

-----------------------------------------------------------------------------
(* The keyring. *)

Store(k) == [op |-> "store", key |-> k]

Clear(k) == [op |-> "clear", key |-> k]

\* Saving accounts asks to store the password of each, and clears none.
LEMMA AllStored ==
  ASSUME NEW S, IsFiniteSet(S), S \subseteq AccountData, NEW ops \in [KeyOp -> Nat],
         NEW q, q = StoresOf(S, ops)
  PROVE  /\ q \in [KeyOp -> Nat]
         /\ \A k \in Key : q[Clear(k)] = ops[Clear(k)]
         /\ \A a \in S : q[Store(a.key)] > 0
<1>1. ASSUME NEW k
      PROVE  Cardinality({a \in S : a.key = k}) \in Nat
  <2>1. PICK T : T = {a \in S : a.key = k}
    OBVIOUS
  <2>2. IsFiniteSet(T)
    BY <2>1, FS_Subset
  <2>3. Cardinality(T) \in Nat
    BY <2>2, FS_CardinalityType
  <2> QED BY <2>1, <2>3
<1>2. q \in [KeyOp -> Nat]
  <2>1. ASSUME NEW o \in KeyOp
        PROVE  ops[o] + (IF o.op = "store" THEN Cardinality({a \in S : a.key = o.key}) ELSE 0) \in Nat
    <3>1. Cardinality({a \in S : a.key = o.key}) \in Nat
      BY <1>1
    <3> QED BY <3>1
  <2> QED BY <2>1 DEF StoresOf
<1>3. ASSUME NEW k \in Key
      PROVE  q[Clear(k)] = ops[Clear(k)]
  <2>1. PICK o : o = Clear(k)
    OBVIOUS
  <2>2. o \in KeyOp /\ o.op = "clear"
    BY <2>1 DEF Clear, KeyOp
  <2>3. ops[o] \in Nat
    BY <2>2
  <2>4. q[o] = ops[o] + 0
    BY <2>2 DEF StoresOf
  <2> QED BY <2>1, <2>3, <2>4
<1>4. ASSUME NEW a \in S
      PROVE  q[Store(a.key)] > 0
  <2>1. PICK o, T : o = Store(a.key) /\ T = {b \in S : b.key = a.key}
    OBVIOUS
  <2>2. a.key \in Key
    BY DEF AccountData
  <2>3. o \in KeyOp /\ o.op = "store" /\ o.key = a.key
    BY <2>1, <2>2 DEF Store, KeyOp
  <2>4. IsFiniteSet(T) /\ T # {}
    <3>1. IsFiniteSet(T)
      BY <2>1, FS_Subset
    <3>2. a \in T
      BY <2>1
    <3> QED BY <3>1, <3>2
  <2>5. Cardinality(T) \in Nat /\ Cardinality(T) # 0
    BY <2>4, FS_CardinalityType, FS_EmptySet
  <2>6. q[o] = ops[o] + Cardinality({b \in S : b.key = o.key})
    BY <2>3 DEF StoresOf
  <2>7. q[o] = ops[o] + Cardinality(T)
    BY <2>1, <2>3, <2>6
  <2>8. ops[o] \in Nat
    BY <2>3
  <2>9. q[o] > 0
    BY <2>5, <2>7, <2>8
  <2> QED BY <2>1, <2>9
<1> QED BY <1>2, <1>3, <1>4

-----------------------------------------------------------------------------
(* The invariant. *)

MemoryFits == prog = NotRunning \/ Running(prog)

DataFits ==
  /\ file \subseteq AccountData
  /\ prog.accounts \subseteq AccountData /\ prog.lookups \subseteq AccountData
  /\ IsFiniteSet(prog.accounts)
  /\ keyOps \in [KeyOp -> Nat] /\ saves \in Nat

\* An account is in the file while its password is looked up, and stays there,
\* unless the file is written meanwhile.
FileFits ==
  /\ saves = 0 => \A a \in prog.accounts : a \in file \/ a.id \in overtaken
  /\ \A a \in prog.lookups : a \in file \/ a.id \in overtaken

\* The passwords of the accounts that are listed are in the keyring, or asked to
\* be stored, while no password is asked to be cleared that is not contested.
PasswordsFit ==
  /\ \A k \in Key : k \in contested \/ keyOps[Clear(k)] = 0
  /\ saves = 0 => \A a \in prog.accounts :
                    a.key \in contested \/ a.key \in ring \/ keyOps[Store(a.key)] > 0

AppInv == MemoryFits /\ DataFits /\ FileFits /\ PasswordsFit

\* The memory of the program when nothing of it changes.
LEMMA MemoryStays == MemoryFits /\ UNCHANGED <<prog, useDefault>> => MemoryFits'
BY DEF MemoryFits, Running, Fine, Shaped, OfLoaded, FlagsOf, Able, Wired,
       UpdateDialActions, Viewed, Counted, InTime, HasOrigin, NotRunning

\* The keyring serves any request.
LEMMA RingKeeps == AppInv /\ RingServes /\ UNCHANGED <<prog, useDefault>> => AppInv'
<1> SUFFICES ASSUME AppInv, RingServes, UNCHANGED <<prog, useDefault>>
             PROVE  AppInv'
  OBVIOUS
<1>1. PICK o \in KeyOp :
        /\ keyOps[o] > 0
        /\ ring' = IF o.op = "store" THEN ring \union {o.key} ELSE ring \ {o.key}
        /\ keyOps' = [keyOps EXCEPT ![o] = @ - 1]
  BY DEF RingServes
<1>2. /\ UNCHANGED <<file, saves, overtaken, contested>>
      /\ MemoryFits /\ DataFits /\ FileFits /\ PasswordsFit
  BY DEF RingServes, AppInv
<1>3. keyOps \in [KeyOp -> Nat] /\ keyOps' \in [KeyOp -> Nat]
  BY <1>1, <1>2 DEF DataFits
<1>4. MemoryFits'
  BY <1>2, MemoryStays
<1>5. DataFits' /\ FileFits'
  BY <1>2, <1>3 DEF DataFits, FileFits
<1>6. ASSUME NEW k \in Key
      PROVE  k \in contested' \/ keyOps'[Clear(k)] = 0
  <2>1. Clear(k) \in KeyOp
    BY DEF Clear, KeyOp
  <2>2. k \in contested \/ keyOps[Clear(k)] = 0
    BY <1>2 DEF PasswordsFit
  <2>3. Clear(k) = o => k \in contested
    BY <1>1, <2>2
  <2>4. Clear(k) # o => keyOps'[Clear(k)] = keyOps[Clear(k)]
    BY <1>1, <1>3, <2>1
  <2> QED BY <1>2, <2>2, <2>3, <2>4
<1>7. ASSUME saves' = 0, NEW a \in prog'.accounts
      PROVE  a.key \in contested' \/ a.key \in ring' \/ keyOps'[Store(a.key)] > 0
  <2>1. a.key \in Key /\ a \in prog.accounts /\ saves = 0
    BY <1>2, <1>7 DEF DataFits, AccountData
  <2>2. Store(a.key) \in KeyOp
    BY <2>1 DEF Store, KeyOp
  <2>3. a.key \in contested \/ a.key \in ring \/ keyOps[Store(a.key)] > 0
    BY <1>2, <2>1 DEF PasswordsFit
  <2>4. CASE Store(a.key) = o
    <3>1. o.op = "store" /\ o.key = a.key
      BY <2>4 DEF Store
    <3> QED BY <1>1, <3>1
  <2>5. CASE Store(a.key) # o /\ keyOps[Store(a.key)] > 0
    BY <1>1, <1>3, <2>2, <2>5
  <2>6. CASE Clear(a.key) = o
    <3>1. a.key \in contested
      BY <1>1, <1>2, <2>1, <2>6 DEF PasswordsFit
    <3> QED BY <1>2, <3>1
  <2>7. CASE Store(a.key) # o /\ Clear(a.key) # o /\ a.key \in ring
    <3>1. o.key # a.key
      BY <2>7 DEF KeyOp, Store, Clear
    <3> QED BY <1>1, <2>7, <3>1
  <2> QED BY <1>2, <2>3, <2>4, <2>5, <2>6, <2>7
<1>8. PasswordsFit'
  BY <1>6, <1>7 DEF PasswordsFit
<1> QED BY <1>4, <1>5, <1>8 DEF AppInv

\* Steps that ask the keyring for nothing, and add no account without password.
LEMMA NothingAsked ==
  ASSUME PasswordsFit, UNCHANGED storeVars,
         \A a \in prog'.accounts : a \in prog.accounts \/ a.key \in ring
  PROVE  PasswordsFit'
BY DEF PasswordsFit, storeVars

\* Steps that save the accounts that are listed then.
LEMMA AccountsSaved ==
  ASSUME IsFiniteSet(prog'.accounts), prog'.accounts \subseteq AccountData,
         NEW ops \in [KeyOp -> Nat], NEW lookups, SaveAccounts(prog'.accounts, lookups, ops)
  PROVE  keyOps' \in [KeyOp -> Nat] /\ PasswordsFit'
<1>1. PICK q, S : q = keyOps' /\ S = prog'.accounts
  OBVIOUS
<1>2. q = StoresOf(S, ops)
  BY <1>1 DEF SaveAccounts
<1>3. /\ q \in [KeyOp -> Nat]
      /\ \A k \in Key : q[Clear(k)] = ops[Clear(k)]
      /\ \A a \in S : q[Store(a.key)] > 0
  BY <1>1, <1>2, AllStored
<1>4. ASSUME NEW k \in Key
      PROVE  k \in contested' \/ keyOps'[Clear(k)] = 0
  <2>1. contested' = {c \in Key : ops[Clear(c)] > 0}
    BY DEF SaveAccounts, Clear
  <2>2. Clear(k) \in KeyOp
    BY DEF Clear, KeyOp
  <2>3. ops[Clear(k)] \in Nat
    BY <2>2
  <2> QED BY <1>1, <1>3, <2>1, <2>3
<1> QED BY <1>1, <1>3, <1>4 DEF PasswordsFit

\* What runs well after a step runs well in the state after it.
LEMMA FineNext ==
  ASSUME useDefault' = useDefault, Running(prog')
  PROVE  Running(prog)'
BY DEF Running, Fine, Shaped, OfLoaded, FlagsOf, Able, Wired, UpdateDialActions, Viewed, Counted, InTime, HasOrigin

\* The invariant holds before the program was ever started.
LEMMA AppStart == Init => AppInv
<1> SUFFICES ASSUME Init
             PROVE  AppInv
  OBVIOUS
<1>1. prog = NotRunning /\ file \in Stored /\ keyOps = NoOps /\ saves = 0
  BY DEF Init, StoreInit
<1>2. prog.accounts = {} /\ prog.lookups = {}
  BY <1>1 DEF NotRunning
<1>3. MemoryFits /\ FileFits
  BY <1>1, <1>2 DEF MemoryFits, FileFits
<1>4. DataFits
  BY <1>1, <1>2, ApplicationAssumption, FS_EmptySet DEF DataFits, NoOps
<1>5. PasswordsFit
  BY <1>1, <1>2 DEF PasswordsFit, NoOps, Clear, KeyOp
<1> QED BY <1>3, <1>4, <1>5 DEF AppInv

\* Steps after which no account is listed that was not, and none is looked up
\* that is not in the file.
LEMMA Fewer ==
  ASSUME AppInv, UNCHANGED storeVars, useDefault' = useDefault, Running(prog'),
         prog'.accounts \subseteq prog.accounts,
         prog'.lookups \subseteq prog.lookups \union file
  PROVE  AppInv'
<1>1. MemoryFits'
  BY FineNext DEF MemoryFits
<1>2. IsFiniteSet(prog'.accounts)
  BY FS_Subset DEF AppInv, DataFits
<1>3. DataFits' /\ FileFits'
  BY <1>2 DEF AppInv, DataFits, FileFits, storeVars
<1>4. PasswordsFit'
  BY NothingAsked DEF AppInv
<1> QED BY <1>1, <1>3, <1>4 DEF AppInv

\* A program that has anything in its memory runs.
LEMMA IsRunning ==
  ASSUME MemoryFits,
         \/ prog.running \/ prog.opened \/ prog.providers # <<>>
         \/ prog.accounts # {} \/ prog.lookups # {}
  PROVE  Running(prog)
BY DEF MemoryFits, NotRunning

\* One lemma for each action.
LEMMA StartKeeps == AppInv /\ Start => AppInv'
<1> SUFFICES ASSUME AppInv, Start
             PROVE  AppInv'
  OBVIOUS
<1>1. PICK failing \in {{}, {"mm"}, {"sip"}}, c \in Commands :
        /\ Fresh(NotRunning, c) /\ Unloadable(Startup(failing), c)
        /\ prog' = CommandLine(Startup(failing), c, failing)
  BY DEF Start
<1>2. PICK d : d = Startup(failing)
  OBVIOUS
<1>3. /\ Fine(d) /\ d.running = TRUE /\ d.accounts = {}
      /\ d.lookups \subseteq file /\ d.asked = {} /\ d.dialOn = Able(d)
  BY <1>2, Started
<1>4. Fresh(d, c)
  BY <1>3 DEF Fresh
<1>5. /\ Fine(prog') /\ prog'.accounts \subseteq d.accounts
      /\ prog'.lookups \subseteq d.lookups \union file
      /\ prog'.running = d.running /\ (d.dialOn = Able(d) => prog'.dialOn = Able(prog'))
  BY <1>1, <1>2, <1>3, <1>4, Commanded
<1>6. Running(prog') /\ prog'.accounts \subseteq prog.accounts /\ prog'.lookups \subseteq prog.lookups \union file
  BY <1>3, <1>5 DEF Running
<1> QED BY <1>6, Fewer DEF Start, storeVars

LEMMA CommandKeeps == AppInv /\ Command => AppInv'
<1> SUFFICES ASSUME AppInv, Command
             PROVE  AppInv'
  OBVIOUS
<1>1. PICK failing \in {{}, {"mm"}, {"sip"}}, c \in Commands :
        /\ Fresh(prog, c) /\ Unloadable(prog, c)
        /\ prog' = CommandLine(prog, c, failing)
  BY DEF Command
<1>2. Running(prog)
  BY IsRunning DEF AppInv, Command
<1>3. /\ Fine(prog') /\ prog'.accounts \subseteq prog.accounts
      /\ prog'.lookups \subseteq prog.lookups \union file
      /\ prog'.running = prog.running /\ (prog.dialOn = Able(prog) => prog'.dialOn = Able(prog'))
  BY <1>1, <1>2, Commanded DEF Running
<1>4. Running(prog')
  BY <1>2, <1>3 DEF Running
<1> QED BY <1>3, <1>4, Fewer DEF Command, storeVars

LEMMA QuitKeeps == AppInv /\ Quit => AppInv'
<1> SUFFICES ASSUME AppInv, Quit
             PROVE  AppInv'
  OBVIOUS
<1>1. /\ prog' = NotRunning /\ prog'.accounts = {} /\ prog'.lookups = {}
      /\ keyOps' = NoOps /\ saves' = 0 /\ UNCHANGED file
  BY DEF Quit, NotRunning, StoreLeft
<1>2. MemoryFits' /\ FileFits'
  BY <1>1 DEF MemoryFits, NotRunning, FileFits
<1>3. DataFits'
  BY <1>1, FS_EmptySet DEF AppInv, DataFits, NoOps
<1>4. PasswordsFit'
  BY <1>1 DEF PasswordsFit, NoOps, Clear, KeyOp
<1> QED BY <1>2, <1>3, <1>4 DEF AppInv

LEMMA DialKeeps ==
  ASSUME AppInv, NEW t \in Request, t \notin prog.asked,
         NEW f, f \in {prog, HandOver(prog, t), Dial(prog, t)},
         prog.running, prog' = Remember(f, t), UNCHANGED <<storeVars, useDefault>>
  PROVE  AppInv'
<1>1. Running(prog)
  BY IsRunning DEF AppInv
<1>2. /\ Fine(prog') /\ prog'.accounts = prog.accounts /\ prog'.lookups = prog.lookups
      /\ prog'.running = prog.running /\ prog'.dialOn = prog.dialOn /\ Able(prog') = Able(prog)
  <2>1. PICK d : d = prog
    OBVIOUS
  <2>2. Fine(d) /\ t \notin d.asked /\ f \in {d, HandOver(d, t), Dial(d, t)}
    BY <1>1, <2>1 DEF Running
  <2>3. ASSUME NEW e, e = Remember(f, t)
        PROVE  /\ Fine(e) /\ e.accounts = d.accounts /\ e.lookups = d.lookups
               /\ e.running = d.running /\ e.dialOn = d.dialOn /\ Able(e) = Able(d)
    BY <2>2, <2>3, AskedOnce
  <2> QED BY <2>1, <2>3
<1>3. Running(prog')
  BY <1>1, <1>2 DEF Running
<1> QED BY <1>2, <1>3, Fewer DEF storeVars

LEMMA UserDialsKeeps ==
  ASSUME AppInv, NEW t \in Request,
         UserDials(t) \/ \E i \in Account \union {"modem"} : DialWithOrigin(t, i)
  PROVE  AppInv'
<1>1. CASE UserDials(t)
  <2>1. PICK f \in {Dial(prog, t), DialSelected(prog, t)} : prog' = [f EXCEPT !.asked = @ \union {t}]
    BY <1>1 DEF UserDials
  <2>2. prog' = Remember(f, t) /\ f \in {prog, HandOver(prog, t), Dial(prog, t)}
    BY <2>1 DEF Remember, DialSelected
  <2> QED BY <1>1, <2>2, DialKeeps DEF UserDials, storeVars
<1>2. ASSUME NEW i \in Account \union {"modem"}, DialWithOrigin(t, i)
      PROVE  AppInv'
  <2>1. PICK f : f = IF IsOrigin(prog, i) THEN HandOver(prog, t) ELSE DialAction(prog, t)
    OBVIOUS
  <2>2. prog' = Remember(f, t)
    BY <1>2, <2>1 DEF DialWithOrigin, Remember
  <2>3. f \in {prog, HandOver(prog, t), Dial(prog, t)}
    BY <2>1 DEF DialAction, CallNumber
  <2> QED BY <1>2, <2>2, <2>3, DialKeeps DEF DialWithOrigin, storeVars
<1> QED BY <1>1, <1>2

LEMMA ModemKeeps == AppInv /\ ModemComesOrGoes => AppInv'
<1> SUFFICES ASSUME AppInv, ModemComesOrGoes
             PROVE  AppInv'
  OBVIOUS
<1>1. PICK f : f = [prog EXCEPT !.modem = ~@]
  OBVIOUS
<1>2. "mm" \in ToSet(prog.providers)
  BY DEF ModemComesOrGoes
<1>3. prog.providers # <<>>
  BY <1>2 DEF ToSet
<1>4. Running(prog)
  BY <1>3, IsRunning DEF AppInv
<1>5. /\ Shaped(f) /\ \A x \in MemoryFields \ {"modem"} : f[x] = prog[x]
  BY <1>1, <1>4 DEF Running, Fine, Shaped, MemoryFields
<1>6. f.accounts = prog.accounts /\ f.lookups = prog.lookups /\ f.providers = prog.providers
  BY <1>5 DEF MemoryFields
<1>7. Reshuffled(f, prog)
  BY <1>2, <1>4, <1>5, <1>6 DEF Reshuffled, OfLoaded, Running, Fine
<1>8. prog' = OriginsChanged(f, FALSE, 0)
  BY <1>1 DEF ModemComesOrGoes
<1>9. Running(prog') /\ prog'.accounts = f.accounts /\ prog'.lookups = f.lookups
  BY <1>4, <1>6, <1>7, <1>8, MovedModem
<1> QED BY <1>6, <1>9, Fewer DEF ModemComesOrGoes, storeVars

LEMMA LookedUpKeeps ==
  ASSUME AppInv, NEW a \in prog.lookups, LookedUp(a)
  PROVE  AppInv'
<1>1. Running(prog)
  BY IsRunning DEF AppInv
<1>2. PICK d : d = [prog EXCEPT !.lookups = @ \ {a}]
  OBVIOUS
<1>3. /\ Shaped(d) /\ d.lookups = prog.lookups \ {a} /\ d.accounts = prog.accounts
      /\ \A x \in MemoryFields \ {"lookups"} : d[x] = prog[x]
  BY <1>1, <1>2 DEF Running, Fine, Shaped, MemoryFields
<1>4. CASE prog' = d
  <2>1. Running(prog')
    BY <1>1, <1>3, <1>4, Similar
  <2> QED BY <1>3, <1>4, <2>1, Fewer DEF LookedUp, storeVars
<1>5. CASE prog' # d
  <2>1. PICK l : l = IF a.tel THEN {a.id} ELSE {}
    OBVIOUS
  <2>2. PICK f : f = [d EXCEPT !.accounts = @ \union {a}, !.tels = @ \union l]
    OBVIOUS
  <2>3. /\ Shaped(f) /\ f.accounts = prog.accounts \union {a} /\ f.lookups = prog.lookups \ {a}
        /\ f.providers = prog.providers /\ f.modem = prog.modem
        /\ \A x \in MemoryFields \ {"lookups", "accounts", "tels"} : f[x] = prog[x]
    BY <1>3, <2>2 DEF Shaped, MemoryFields
  <2>4. Reshuffled(f, prog)
    BY <1>1, <2>3 DEF Reshuffled, OfLoaded, Running, Fine
  <2>5. prog' = OriginsChanged(f, TRUE, 0)
    BY <1>2, <1>5, <2>1, <2>2 DEF LookedUp
  <2>6. Running(prog') /\ prog'.accounts = f.accounts /\ prog'.lookups = f.lookups
    BY <1>1, <2>4, <2>5, MovedAccounts
  <2>7. UNCHANGED <<storeVars, useDefault>> /\ a.key \in ring
    BY <1>2, <1>5 DEF LookedUp, PasswordFound
  <2>8. IsFiniteSet(prog'.accounts)
    <3>1. IsFiniteSet(prog.accounts \union {a})
      BY FS_AddElement DEF AppInv, DataFits
    <3> QED BY <2>3, <2>6, <3>1
  <2>9. MemoryFits'
    BY <2>6, <2>7, FineNext DEF MemoryFits
  <2>10. DataFits' /\ FileFits'
    BY <2>3, <2>6, <2>7, <2>8 DEF AppInv, DataFits, FileFits, storeVars
  <2>11. PasswordsFit'
    BY <2>3, <2>6, <2>7, NothingAsked DEF AppInv, storeVars
  <2> QED BY <2>9, <2>10, <2>11 DEF AppInv
<1> QED BY <1>4, <1>5

LEMMA OnlineKeeps ==
  ASSUME AppInv, NEW i \in Account, OnlineChanges(i)
  PROVE  AppInv'
<1>1. prog.accounts # {}
  BY DEF OnlineChanges, Ids
<1>2. Running(prog)
  BY <1>1, IsRunning DEF AppInv
<1>3. PICK o : o = IF i \in prog.online THEN prog.online \ {i} ELSE prog.online \union {i}
  OBVIOUS
<1>4. prog' = [prog EXCEPT !.online = o]
  BY <1>2, <1>3 DEF OnlineChanges, Running, Fine, Shaped, MemoryFields
<1>5. /\ Shaped(prog') /\ prog'.accounts = prog.accounts /\ prog'.lookups = prog.lookups
      /\ \A x \in MemoryFields \ {"online"} : prog'[x] = prog[x]
  BY <1>2, <1>4 DEF Running, Fine, Shaped, MemoryFields
<1>6. Running(prog')
  BY <1>2, <1>5, Similar
<1> QED BY <1>5, <1>6, Fewer DEF OnlineChanges, storeVars

LEMMA OverviewKeeps == AppInv /\ OpenOverview => AppInv'
<1> SUFFICES ASSUME AppInv, OpenOverview
             PROVE  AppInv'
  OBVIOUS
<1>1. Running(prog)
  BY IsRunning DEF AppInv, OpenOverview
<1>2. PICK d : d = [prog EXCEPT !.opened = TRUE]
  OBVIOUS
<1>3. Shaped(d) /\ \A x \in MemoryFields \ {"opened"} : d[x] = prog[x]
  BY <1>1, <1>2 DEF Running, Fine, Shaped, MemoryFields
<1>4. PICK e : e = prog'
  OBVIOUS
<1>5. e = UpdateOverview(d, 0)
  BY <1>2, <1>4 DEF OpenOverview
<1>6. /\ Shaped(e) /\ \A x \in MemoryFields \ {"addable", "overview"} : e[x] = d[x]
      /\ "sip" \in ToSet(d.providers) /\ d.accounts # {} => e.addable /\ e.overview
  BY <1>3, <1>5, OverviewUpdated
<1>7. /\ d.providers = prog.providers /\ d.accounts = prog.accounts
      /\ e.providers = prog.providers /\ e.modem = prog.modem /\ e.tels = prog.tels
      /\ e.accounts = prog.accounts /\ e.lookups = prog.lookups
      /\ e.running = prog.running /\ e.asked = prog.asked
      /\ e.flags = prog.flags /\ e.banner = prog.banner /\ e.dialOn = prog.dialOn
      /\ e.protocols = prog.protocols /\ e.queue = prog.queue /\ e.handed = prog.handed
  BY <1>3, <1>6 DEF MemoryFields
<1>8. HasOrigin(e) = HasOrigin(prog) /\ FlagsOf(e) = FlagsOf(prog) /\ Able(e) = Able(prog)
  BY <1>7 DEF HasOrigin, FlagsOf, Able
<1>9. OfLoaded(e) /\ Viewed(e) /\ Counted(e) /\ InTime(e)
  BY <1>1, <1>6, <1>7, <1>8 DEF Running, Fine, OfLoaded, Viewed, Counted, InTime
<1>10. Wired(e)
  BY <1>1, <1>6, <1>7 DEF Wired, UpdateDialActions, Running, Fine, Shaped, MemoryFields
<1>11. Running(e)
  BY <1>1, <1>6, <1>7, <1>8, <1>9, <1>10 DEF Running, Fine
<1> QED BY <1>4, <1>7, <1>11, Fewer DEF OpenOverview, storeVars

\* After accounts were saved the file holds the accounts there are.
LEMMA Saved ==
  ASSUME AppInv, MemoryFits', prog'.lookups = prog.lookups,
         prog'.accounts \subseteq AccountData, IsFiniteSet(prog'.accounts), saves' \in Nat,
         NEW ops \in [KeyOp -> Nat], SaveAccounts(prog'.accounts, prog.lookups, ops)
  PROVE  AppInv'
<1>1. keyOps' \in [KeyOp -> Nat] /\ PasswordsFit'
  BY AccountsSaved
<1>2. file' = prog'.accounts /\ overtaken' = Ids(prog.lookups)
  BY DEF SaveAccounts
<1>3. DataFits' /\ FileFits'
  BY <1>1, <1>2 DEF AppInv, DataFits, FileFits, Ids
<1> QED BY <1>1, <1>3 DEF AppInv

LEMMA LoginKeeps == AppInv /\ Login => AppInv'
<1> SUFFICES ASSUME AppInv, Login
             PROVE  AppInv'
  OBVIOUS
<1>1. Running(prog) /\ Edit
  BY IsRunning DEF AppInv, Login, Edit
<1>2. PICK n \in AccountData :
        /\ prog' = OriginsChanged([prog EXCEPT !.accounts = prog.accounts \union {n}], TRUE, 0)
        /\ StoreAdded(prog.accounts \union {n}, prog.lookups)
  BY DEF Login, AccountData
<1>4. PICK f : f = [prog EXCEPT !.accounts = prog.accounts \union {n}]
  OBVIOUS
<1>5. /\ Shaped(f) /\ f.accounts = prog.accounts \union {n} /\ f.lookups = prog.lookups
      /\ f.providers = prog.providers /\ f.modem = prog.modem
      /\ \A x \in MemoryFields \ {"accounts"} : f[x] = prog[x]
  BY <1>1, <1>4 DEF Running, Fine, Shaped, MemoryFields
<1>6. Reshuffled(f, prog)
  BY <1>1, <1>5 DEF Reshuffled, OfLoaded, Running, Fine, Edit
<1>7. prog' = OriginsChanged(f, TRUE, 0)
  BY <1>2, <1>4
<1>8. Running(prog') /\ prog'.accounts = f.accounts /\ prog'.lookups = f.lookups
  BY <1>1, <1>6, <1>7, MovedAccounts
<1>9. IsFiniteSet(prog'.accounts) /\ prog'.accounts \subseteq AccountData
  <2>1. IsFiniteSet(prog.accounts \union {n})
    BY FS_AddElement DEF AppInv, DataFits
  <2> QED BY <1>5, <1>8, <2>1 DEF AppInv, DataFits
<1>10. /\ SaveAccounts(prog'.accounts, prog.lookups, keyOps) /\ keyOps \in [KeyOp -> Nat]
       /\ saves' \in Nat
  BY <1>2, <1>5, <1>8 DEF StoreAdded, AppInv, DataFits
<1>11. MemoryFits'
  BY <1>1, <1>8, FineNext DEF Edit, MemoryFits
<1> QED BY <1>5, <1>8, <1>9, <1>10, <1>11, Saved

LEMMA ApplyKeeps ==
  ASSUME AppInv, NEW a \in prog.accounts, Apply(a)
  PROVE  AppInv'
<1>1. Running(prog) /\ Edit
  BY IsRunning DEF AppInv, Apply
<1>2. PICK n \in AccountData :
        prog' = [prog EXCEPT !.accounts = (prog.accounts \ {a}) \union {n}, !.online = @ \ {a.id}]
  <2>1. ASSUME NEW k \in Key, NEW tel \in BOOLEAN
        PROVE  [a EXCEPT !.key = k, !.tel = tel] \in AccountData
    BY DEF AccountData, AppInv, DataFits
  <2> QED BY <2>1 DEF Apply
<1>4. /\ Shaped(prog') /\ prog'.accounts = (prog.accounts \ {a}) \union {n}
      /\ prog'.lookups = prog.lookups
      /\ \A x \in MemoryFields \ {"accounts", "online"} : prog'[x] = prog[x]
  BY <1>1, <1>2 DEF Running, Fine, Shaped, MemoryFields
<1>5. Running(prog')
  BY <1>1, <1>4, Similar
<1>6. IsFiniteSet(prog'.accounts) /\ prog'.accounts \subseteq AccountData
  <2>1. PICK S : S = prog.accounts \ {a}
    OBVIOUS
  <2>2. IsFiniteSet(S)
    BY <2>1, FS_RemoveElement DEF AppInv, DataFits
  <2>3. IsFiniteSet(S \union {n})
    BY <2>2, FS_AddElement
  <2> QED BY <1>4, <2>1, <2>3 DEF AppInv, DataFits
<1>7. saves' \in Nat /\ saves' # 0 /\ UNCHANGED <<file, ring, keyOps, overtaken, contested>>
  BY DEF Apply, StoreWaits, AppInv, DataFits
<1>8. MemoryFits'
  BY <1>1, <1>5, FineNext DEF Edit, MemoryFits
<1>9. DataFits' /\ FileFits' /\ PasswordsFit'
  BY <1>4, <1>6, <1>7 DEF AppInv, DataFits, FileFits, PasswordsFit
<1> QED BY <1>8, <1>9 DEF AppInv

LEMMA AppliedKeeps == AppInv /\ Applied => AppInv'
<1> SUFFICES ASSUME AppInv, Applied
             PROVE  AppInv'
  OBVIOUS
<1>1. /\ UNCHANGED <<prog, useDefault>>
      /\ SaveAccounts(prog'.accounts, prog.lookups, keyOps) /\ keyOps \in [KeyOp -> Nat]
      /\ saves' \in Nat
  BY DEF Applied, StoreApplied, AppInv, DataFits
<1>2. MemoryFits'
  BY <1>1, MemoryStays DEF AppInv
<1>3. /\ prog'.accounts \subseteq AccountData /\ IsFiniteSet(prog'.accounts)
      /\ prog'.lookups = prog.lookups
  BY <1>1 DEF AppInv, DataFits
<1> QED BY <1>1, <1>2, <1>3, Saved

LEMMA DeleteKeeps ==
  ASSUME AppInv, NEW a \in prog.accounts, Delete(a)
  PROVE  AppInv'
<1>1. Running(prog) /\ Edit
  BY IsRunning DEF AppInv, Delete
<1>2. PICK f : f = [prog EXCEPT !.accounts = @ \ {a}, !.online = @ \ {a.id}, !.tels = @ \ {a.id}]
  OBVIOUS
<1>3. /\ Shaped(f) /\ f.accounts = prog.accounts \ {a} /\ f.lookups = prog.lookups
      /\ f.providers = prog.providers /\ f.modem = prog.modem
      /\ \A x \in MemoryFields \ {"accounts", "online", "tels"} : f[x] = prog[x]
  BY <1>1, <1>2 DEF Running, Fine, Shaped, MemoryFields
<1>4. Reshuffled(f, prog)
  BY <1>1, <1>3 DEF Reshuffled, OfLoaded, Running, Fine
<1>5. prog' = OriginsChanged(f, TRUE, 0)
  BY <1>2 DEF Delete
<1>6. Running(prog') /\ prog'.accounts = f.accounts /\ prog'.lookups = f.lookups
  BY <1>1, <1>4, <1>5, MovedAccounts
<1>7. IsFiniteSet(prog'.accounts) /\ prog'.accounts \subseteq AccountData
  <2>1. IsFiniteSet(prog.accounts \ {a})
    BY FS_RemoveElement DEF AppInv, DataFits
  <2> QED BY <1>3, <1>6, <2>1 DEF AppInv, DataFits
<1>8. PICK ops : ops = DeleteSecret(keyOps, a.key)
  OBVIOUS
<1>9. SaveAccounts(prog'.accounts, prog.lookups, ops) /\ saves' \in Nat
  BY <1>3, <1>6, <1>8 DEF Delete, StoreRemoved, AppInv, DataFits
<1>10. ops \in [KeyOp -> Nat]
  BY <1>8 DEF DeleteSecret, AppInv, DataFits
<1>11. MemoryFits'
  BY <1>1, <1>6, FineNext DEF Edit, MemoryFits
<1> QED BY <1>3, <1>6, <1>7, <1>9, <1>10, <1>11, Saved

LEMMA AppStep == AppInv /\ [Next]_vars => AppInv'
<1> SUFFICES ASSUME AppInv, [Next]_vars
             PROVE  AppInv'
  OBVIOUS
<1>1. CASE RingServes /\ UNCHANGED <<prog, useDefault>>
  BY <1>1, RingKeeps
<1>2. CASE UNCHANGED vars
  <2>1. MemoryFits'
    BY <1>2, MemoryStays DEF vars, AppInv
  <2>2. DataFits' /\ FileFits' /\ PasswordsFit'
    BY <1>2 DEF vars, storeVars, AppInv, DataFits, FileFits, PasswordsFit
  <2> QED BY <2>1, <2>2 DEF AppInv
<1> QED BY <1>1, <1>2, StartKeeps, CommandKeeps, QuitKeeps, ModemKeeps, UserDialsKeeps, LookedUpKeeps,
           OnlineKeeps, OverviewKeeps, LoginKeeps, ApplyKeeps, AppliedKeeps, DeleteKeeps DEF Next

\* The window and the actions tell what is there, whatever is loaded, unloaded,
\* plugged in and edited (notify::state and items-changed).
THEOREM StateToldHolds == Spec => []StateTold
<1>1. AppInv => StateTold
  <2> SUFFICES ASSUME AppInv, prog.running
               PROVE  StateTold
    BY DEF StateTold
  <2>1. Running(prog)
    BY IsRunning DEF AppInv
  <2> QED BY <2>1, FineTells DEF Running, StateTold
<1> QED BY <1>1, AppStart, AppStep, PTL DEF Spec

\* What the user asked for is dialled once, as soon as an origin comes that can
\* (calls_new_call_box_dial(), origin_count_changed_cb() and dial_queued_cb()).
THEOREM DialledInTimeHolds == Spec => []DialledInTime
<1>1. AppInv => DialledInTime
  <2> SUFFICES ASSUME AppInv
               PROVE  DialledInTime
    OBVIOUS
  <2>1. Fine(prog)
    BY NothingYet DEF AppInv, MemoryFits, Running
  <2> QED BY <2>1 DEF Fine, Counted, InTime, DialledInTime
<1> QED BY <1>1, AppStart, AppStep, PTL DEF Spec

\* The file holds every account that is listed, once no form is left that has yet
\* to save: whatever is edited, looked up, loaded and saved in any order, and
\* whenever the program ends.  Those excepted whose password was looked up when
\* the file was last written (save_accounts_to_disk(), on_origin_pw_looked_up()).
THEOREM ListedIsStoredHolds == Spec => []ListedIsStored
<1>1. AppInv => ListedIsStored
  BY DEF AppInv, FileFits, ListedIsStored
<1> QED BY <1>1, AppStart, AppStep, PTL DEF Spec

\* The keyring has the password of every account that is listed once no form is
\* left that has yet to save and the keyring has done what it was asked, in any
\* order, though removing an account clears the password for all with the same
\* host and user.  Those excepted that were being cleared when passwords were last
\* stored (remove_origin(), origin_to_keyfile(), save_accounts_to_disk()).
THEOREM PasswordKeptHolds == Spec => []PasswordKept
<1>1. AppInv => PasswordKept
  <2> SUFFICES ASSUME AppInv, saves = 0, keyOps = NoOps, NEW a \in prog.accounts
               PROVE  a.key \in ring \union contested
    BY DEF PasswordKept
  <2>1. a.key \in Key
    BY DEF AppInv, DataFits, AccountData
  <2>2. Store(a.key) \in KeyOp
    BY <2>1 DEF Store, KeyOp
  <2>3. keyOps[Store(a.key)] = 0
    BY <2>2 DEF NoOps
  <2> QED BY <2>3 DEF AppInv, PasswordsFit
<1> QED BY <1>1, AppStart, AppStep, PTL DEF Spec
=============================================================================
