------------------------------- MODULE CallsMm ------------------------------
(***************************************************************************)
(* The ModemManager provider, its origin and its calls                     *)
(* (src/plugins/provider/mm/).                                             *)
(*                                                                         *)
(* The origin learns of its calls by listing them, once when it is made    *)
(* and after every call-added signal.  A listing is a round trip, and then *)
(* another for the proxy of each call it names, before add_call() runs: in *)
(* between the service makes, ends and deletes calls.                      *)
(*                                                                         *)
(* Every listing, and every deletion, refers to its origin, so that an     *)
(* origin without modem lives on until the last of them is over.           *)
(***************************************************************************)
EXTENDS CallsModem, Functions

VARIABLES
  mm,           \* CallsMMProvider.mm is set
  leaked        \* an object manager whose handlers run and that no field refers to

mmVars == <<mm, leaked>>

Listing(o, what) == [kind |-> what, origin |-> o, answered |-> FALSE, answer |-> {}]
Listings  == {r \in pending : r.kind \in Path \union {"all"}}
Creations == {r \in pending : r.kind = "manager"}

Creation(cancelled) == [kind |-> "manager", origin |-> 0, cancelled |-> cancelled]

-----------------------------------------------------------------------------
(* The provider *)

\* add_origin(): constructed() of the new origin lists its calls.
WithOrigin(os) == Append(os, [NewOrigin EXCEPT !.voice = TRUE])

\* interface_added_cb(), object_added_cb(), by any object manager there is.
AddOrigin ==
  /\ mm \/ leaked
  /\ svcUp /\ modem = "voice"
  /\ Listed = {}                     \* mm_provider_contains()
  /\ Len(origins) < MaxOrigins
  /\ LET os == WithOrigin(origins)
     IN  Settle(pending \union {Listing(Len(os), "all")}, asked, os, objs)
  /\ UNCHANGED <<plugin, serviceVars, mmVars>>

\* mm_appeared_cb(): a manager that is still being created is cancelled.
MmAppears ==
  /\ ~svcUp /\ Unused
  /\ svcUp' = TRUE
  /\ pending' = (pending \ Creations)
                  \union {Creation(TRUE) : r \in Creations} \union {Creation(FALSE)}
  /\ UNCHANGED <<plugin, modem, net, asked, origins, objs, mmVars>>

\* mm_vanished_cb(), which cancels nothing.
MmVanishes ==
  /\ svcUp /\ Unused
  /\ svcUp' = FALSE /\ modem' = "none"
  /\ mm' = FALSE
  /\ Settle(pending, asked, Unlist(origins), objs)
  /\ UNCHANGED <<plugin, net, leaked>>

\* mm_manager_new_cb().  The origins follow by AddOrigin: add_mm_objects() and
\* the signals of the new object manager do the same.
ManagerCreated(r) ==
  /\ r \in Creations
  /\ pending' = pending \ {r}
  /\ mm' = ~r.cancelled
  /\ leaked' = (leaked \/ mm)
  /\ UNCHANGED <<plugin, serviceVars, asked, origins, objs>>

MmModemArrives ==
  /\ svcUp /\ modem = "none" /\ Unused
  /\ modem' = "voice"
  /\ UNCHANGED <<plugin, svcUp, net, asked, pending, origins, objs, mmVars>>

\* object_removed_cb(), interface_removed_cb(): remove_modem_object()
MmModemLeaves ==
  /\ modem = "voice"
  /\ modem' = "none"
  /\ CallsLost
  /\ Settle(pending, asked, Unlist(origins), objs)
  /\ UNCHANGED <<plugin, svcUp, mmVars>>

-----------------------------------------------------------------------------
(* The origin's calls *)

(* calls_mm_call_new() and add_call() of calls that their proxies report in *)
(* the states seen.  They are added in the order number gives them.  A dead *)
(* call has a proxy, too, mostly without properties.                        *)

TableWith(o, number) ==
  [p \in Path |-> IF p \in DOMAIN number THEN Len(objs) + number[p] ELSE origins[o].table[p]]

NewCalls(o, number, seen) ==
  [k \in 1..Cardinality(DOMAIN number) |->
     LET p == CHOOSE q \in DOMAIN number : number[q] = k
     IN  NewObj(o, p, CallStateOf(p, seen[p]))]

\* The table holds another call when p is added.
Secondary(o, number, p) ==
  \E q \in Path \ {p} : Keyed(o, q) \/ (q \in DOMAIN number /\ number[q] < number[p])

AskedWith(o, number, seen) ==
  LET added == DOMAIN number
  IN  {Request("start", p, 0) : p \in {q \in added : seen[q] = "UNKNOWN" /\ Live(q) /\ q \in Outgoing}}
      \union {Request("delete", p, o) : p \in {q \in added : seen[q] = "TERMINATED"}}
      \union {Request("hangup", p, 0) : p \in {q \in added : Secondary(o, number, q)}}

ProxyStates(p) == IF Exists(p) THEN {net[p]} ELSE {"UNKNOWN", "TERMINATED"}

\* Mutant: a call that the table lacks is left to the listing of all calls.
WantedOnce(p) ==
  {Listing(o, p) : o \in {q \in Listed : ~Keyed(q, p) /\ ~\E r \in Listings : r.origin = q}}

\* call_added_cb() of the origins that hear the service: the listing it asks for.
Wanted(p) == {Listing(o, p) : o \in {q \in Listed : ~Keyed(q, p)}}

\* The service lists the calls it has, of which call_added_list_calls_cb()
\* takes only the one that was added.
ListAnswered(r) ==
  /\ r \in Listings /\ ~r.answered
  /\ r.origin \in Listed
  /\ pending' = (pending \ {r})
                  \union {[r EXCEPT !.answered = TRUE, !.answer = {p \in Path : Exists(p) /\ r.kind \in {p, "all"}}]}
  /\ UNCHANGED <<plugin, serviceVars, asked, origins, objs, mmVars>>

ListFails(r) ==
  /\ r \in Listings /\ ~r.answered
  /\ r.origin \notin Listed
  /\ Settle(pending \ {r}, asked, origins, objs)
  /\ UNCHANGED <<plugin, serviceVars, mmVars>>

\* list_calls_cb() and call_added_list_calls_cb().  Whether the origin knows a
\* call by now is not looked at.
ListDone(r) ==
  /\ r \in Listings /\ r.answered
  /\ Len(objs) + Cardinality(r.answer) <= MaxObjs
  /\ \E number \in Bijection(r.answer, 1..Cardinality(r.answer)), seen \in [r.answer -> NetState] :
       /\ \A p \in r.answer : seen[p] \in ProxyStates(p)
       /\ Settle(pending \ {r}, asked \union AskedWith(r.origin, number, seen),
                 [origins EXCEPT ![r.origin].table = TableWith(r.origin, number)],
                 objs \o NewCalls(r.origin, number, seen))
  /\ UNCHANGED <<plugin, serviceVars, mmVars>>

\* state_changed_cb() of the calls of a path and call_state_changed_cb() of
\* their origins, which delete what is disconnected.
Disconnecting(p) ==
  {i \in DOMAIN objs : objs[i].path = p /\ objs[i].state # "DISCONNECTED" /\ origins[objs[i].origin].alive}

\* Mutant: the remote side's hang-up is taken as the end of the call.
StateChangedKeeps(p, s, handled) ==
  /\ net' = [net EXCEPT ![p] = s]
  /\ Settle(pending, asked \ handled, origins, FollowNet(objs, p, CallStateOf(p, s)))

StateChanged(p, s, handled) ==
  /\ net' = [net EXCEPT ![p] = s]
  /\ Settle(pending,
            (asked \ handled)
              \union (IF s = "TERMINATED"
                        THEN {Request("delete", p, objs[i].origin) : i \in Disconnecting(p)} ELSE {}),
            origins, FollowNet(objs, p, CallStateOf(p, s)))

\* call_deleted_cb() of the origins that know the call.
CallDeleted(p, handled) ==
  LET heard == {o \in Listed : Keyed(o, p)}
  IN  /\ net' = [net EXCEPT ![p] = "GONE"]
      /\ Settle(pending, asked \ handled, Unkey(origins, heard, p), DropCall(objs, origins, heard, p))

-----------------------------------------------------------------------------
(* Requests and the service *)

\* dial(): only one call at a time.
MmDial(o) ==
  /\ o \in Listed
  /\ TableSize(origins[o].table) = 0
  /\ Cardinality(asked) < MaxAsked
  /\ asked' = asked \union {Request("create", "none", 0)}
  /\ UNCHANGED <<plugin, serviceVars, pending, origins, objs, mmVars>>

\* calls_mm_call_answer() and calls_mm_call_hang_up()
MmAsk(op, i) ==
  /\ objs[i].state # "DISCONNECTED" /\ Exists(objs[i].path)
  /\ Cardinality(asked) < MaxAsked
  /\ op = "accept" => objs[i].state = "INCOMING"
  /\ asked' = asked \union {Request(op, objs[i].path, 0)}
  /\ UNCHANGED <<plugin, serviceVars, pending, origins, objs, mmVars>>

MmCallArrives(p) ==
  /\ modem = "voice"
  /\ net[p] = "NONE" /\ p \notin Outgoing
  /\ net' = [net EXCEPT ![p] = Arriving]
  /\ pending' = pending \union Wanted(p)
  /\ UNCHANGED <<plugin, svcUp, modem, asked, origins, objs, mmVars>>

MmNetChanges(p) ==
  \E s \in NetNext[net[p]] \ Unseen :
    /\ StateChanged(p, s, {})
    /\ UNCHANGED <<plugin, svcUp, modem, mmVars>>

CreateHandled(r) ==
  /\ r \in asked /\ r.op = "create" /\ modem = "voice"
  /\ \E p \in Outgoing :
       /\ net[p] = "NONE"
       /\ net' = [net EXCEPT ![p] = "UNKNOWN"]
       /\ pending' = pending \union Wanted(p)
  /\ asked' = asked \ {r}
  /\ UNCHANGED <<plugin, svcUp, modem, origins, objs, mmVars>>

CallHandled(r) ==
  /\ r \in asked
  /\ \/ r.op = "start"  /\ net[r.path] = "UNKNOWN"    /\ StateChanged(r.path, "DIALING", {r})
     \/ r.op = "accept" /\ net[r.path] = "RINGING_IN" /\ StateChanged(r.path, "ACTIVE", {r})
     \/ r.op = "hangup" /\ Live(r.path)               /\ StateChanged(r.path, "TERMINATED", {r})
     \/ r.op = "delete" /\ Exists(r.path)             /\ CallDeleted(r.path, {r})
  /\ UNCHANGED <<plugin, svcUp, modem, mmVars>>

Possible(r) ==
  CASE r.op = "create" -> modem = "voice" /\ \E p \in Outgoing : net[p] = "NONE"
    [] r.op = "start"  -> net[r.path] = "UNKNOWN"
    [] r.op = "accept" -> net[r.path] = "RINGING_IN"
    [] r.op = "hangup" -> Live(r.path)
    [] r.op = "delete" -> Exists(r.path)

RequestRefused(r) ==
  /\ ~Possible(r)
  /\ RequestFails(r)
  /\ UNCHANGED mmVars

-----------------------------------------------------------------------------
MmInit == mm = FALSE /\ leaked = FALSE

\* The answers of the service and the completions of the program.
MmAnswers ==
  \/ AddOrigin
  \/ \E r \in pending : ManagerCreated(r) \/ ListAnswered(r) \/ ListFails(r) \/ ListDone(r)
  \/ \E r \in asked : CreateHandled(r) \/ CallHandled(r) \/ RequestRefused(r)

\* What the user, the service and the network do by themselves.
MmEvents ==
  \/ MmAppears \/ MmVanishes \/ MmModemArrives \/ MmModemLeaves
  \/ \E o \in DOMAIN origins : MmDial(o)
  \/ \E i \in DOMAIN objs, op \in {"accept", "hangup"} : MmAsk(op, i)
  \/ \E p \in Path : MmCallArrives(p) \/ MmNetChanges(p)

MmNext == MmAnswers \/ MmEvents
=============================================================================
