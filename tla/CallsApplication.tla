-------------------------- MODULE CallsApplication --------------------------
(***************************************************************************)
(* The application from its start to its end: command lines and actions    *)
(* (src/calls-application.c), the plugins (src/calls-plugin-manager.c,     *)
(* src/calls-plugin.c), what the manager makes of providers and origins    *)
(* that come and go (src/calls-manager.c), the banner of the main window,  *)
(* the accounts window (src/calls-account-overview.c) and the box that     *)
(* dials, now or later (src/calls-new-call-box.c).                         *)
(*                                                                         *)
(* There are two plugins: "mm" with at most one modem, which only calls    *)
(* telephone numbers, and "sip" with the accounts of CallsSipProvider.     *)
(* A step is a callback of the main loop.  GObject signals run their       *)
(* handlers inside it, so a callback is a function from the memory of the  *)
(* program to its memory, composed of those of the handlers.               *)
(* Abstracted: calls (CallsManager), how an account gets online            *)
(* (CallsSipAccount), windows, notifications, and what a number looks like.*)
(***************************************************************************)
EXTENDS CallsSipProvider

CONSTANTS
  Request,     \* what the user wants to call
  Tel,         \* those of Request that are telephone numbers; the others are SIP
  Autoload,    \* the autoload-plugins setting, without names of no plugin
  MaxStarts,   \* bound: times the program is started
  MaxEdits,    \* bound: edits of the accounts
  MaxCommands  \* bound: command lines that load or unload plugins

ASSUME ApplicationAssumption ==
  /\ Tel \subseteq Request /\ "no" \notin Request
  /\ Autoload \in Seq({"mm", "sip"})
  /\ Stored \subseteq SUBSET AccountData
  /\ MaxStarts \in Nat /\ MaxEdits \in Nat /\ MaxCommands \in Nat

VARIABLES
  prog,        \* the memory of the running program
  useDefault,  \* the auto-use-default-origins setting
  starts, edits, commands

vars == <<storeVars, prog, useDefault, starts, edits, commands>>

Plugins == <<"mm", "sip">>     \* CallsPluginManager.plugins, as found on disk

NotRunning ==
  [running   |-> FALSE,
   providers |-> <<>>,         \* CallsPluginManager.providers
   modem     |-> FALSE,        \* the modem is an origin of its provider
   accounts  |-> {},           \* the origins of the SIP provider
   lookups   |-> {},           \* accounts whose password is being looked up
   online    |-> {},           \* ids of accounts that are ONLINE
   tels      |-> {},           \* ids in origins_by_protocol["tel"]
   flags     |-> {},           \* CallsManager.state_flags
   banner    |-> TRUE,         \* permanent_error_banner is revealed
   dialOn    |-> TRUE,         \* the "dial" action is enabled
   protocols |-> {},           \* the dial-<protocol> actions that are enabled
   opened    |-> FALSE,        \* the accounts window was created
   addable   |-> FALSE,        \* its button to add an account
   overview  |-> FALSE,        \* it shows the accounts, not its introduction
   queue     |-> [t \in Request |-> 0],   \* times t is in CallsNewCallBox.dial_queue
   handed    |-> [t \in Request |-> 0],   \* history: times t was given to an origin
   asked     |-> {}]           \* history: what the user wanted to call

-----------------------------------------------------------------------------
(* The box that dials. *)

HasOrigin(d) == d.modem \/ d.accounts # {}

\* calls_manager_get_suitable_origins(): those of the protocol of t.
Suitable(d, t) ==
  IF t \in Tel THEN d.tels \union (IF d.modem THEN {"modem"} ELSE {}) ELSE Ids(d.accounts)

\* get_origin(): the first suitable origin that is a modem or an online
\* account, or else whatever the user selected, suitable or not.
CanDial(d, t) ==
  IF useDefault THEN Suitable(d, t) \intersect (d.online \union {"modem"}) # {}
                ELSE HasOrigin(d)

HandOver(d, t) == [d EXCEPT !.handed[t] = @ + 1]

\* dial_queued_cb() for each target: those before it make no difference to what
\* can be dialled, so their order is abstracted.
DialQueued(d) ==
  [d EXCEPT !.handed = [t \in Request |-> @[t] + (IF CanDial(d, t) THEN d.queue[t] ELSE 0)],
            !.queue = [t \in Request |-> IF CanDial(d, t) THEN 0 ELSE @[t]]]

\* Mutant: the queue is not looked at when a modem arrives.
OriginCountChangedQuiet(d) == IF d.accounts # {} THEN DialQueued(d) ELSE d

\* origin_count_changed_cb()
OriginCountChanged(d) == IF HasOrigin(d) THEN DialQueued(d) ELSE d

\* calls_new_call_box_dial()
Dial(d, t) ==
  IF CanDial(d, t) THEN HandOver(d, t) ELSE [d EXCEPT !.queue[t] = @ + 1]

-----------------------------------------------------------------------------
(* The manager and those who listen to it. *)

FlagsOf(d) ==
  {f \in {"CELLULAR_PROVIDER", "CELLULAR_MODEM", "VOIP_PROVIDER", "VOIP_ACCOUNT"} :
     \/ f = "CELLULAR_PROVIDER" /\ "mm" \in ToSet(d.providers)
     \/ f = "CELLULAR_MODEM"    /\ d.modem
     \/ f = "VOIP_PROVIDER"     /\ "sip" \in ToSet(d.providers)
     \/ f = "VOIP_ACCOUNT"      /\ d.accounts # {}}

Able(d) == d.flags \intersect {"CELLULAR_MODEM", "VOIP_ACCOUNT"} # {}

\* state_changed_cb() of the main window
ShowBanner(d) == [d EXCEPT !.banner = ~Able(d)]

\* manager_state_changed_cb() of the application
EnableDial(d) == [d EXCEPT !.dialOn = Able(d)]

\* update_state_flags(), and those who are told by notify::state.
UpdateStateFlags(d) ==
  IF FlagsOf(d) = d.flags THEN d
  ELSE EnableDial(ShowBanner([d EXCEPT !.flags = FlagsOf(d)]))

\* update_protocol_dial_actions()
UpdateDialActions(d) ==
  [d EXCEPT !.protocols = {p \in {"tel", "sip"} :
                             \/ p = "tel" /\ (d.modem \/ d.tels # {})
                             \/ p = "sip" /\ d.accounts # {}}]

\* update_state() of the accounts window.  `gone` is 0, or the position of the
\* SIP provider that was removed: the window's list of providers still has it
\* then, and finds at its place the next provider, or none.
UpdateOverview(d, gone) ==
  LET seen == IF gone = 0 THEN {"sip"} \intersect ToSet(d.providers)
                          ELSE {d.providers[i] : i \in {gone} \intersect DOMAIN d.providers}
  IN  [d EXCEPT !.addable = seen # {},
                !.overview = ("sip" \in seen /\ d.accounts # {}) \/ ("mm" \in seen /\ d.modem)]

\* on_accounts_changed() of the accounts window, once that is there.
AccountsChanged(d, gone) == IF d.opened THEN UpdateOverview(d, gone) ELSE d

\* Mutant: the flags wait for the providers to change.
OriginsChangedUnflagged(d, accountsToo, gone) ==
  LET e == UpdateDialActions(d)
  IN  OriginCountChanged(IF accountsToo THEN AccountsChanged(e, gone) ELSE e)

\* items-changed of origins_flat: on_origins_changed() of the manager, then the
\* accounts window if it is about accounts, and the box that dials.
OriginsChanged(d, accountsToo, gone) ==
  LET e == UpdateDialActions(UpdateStateFlags(d))
  IN  OriginCountChanged(IF accountsToo THEN AccountsChanged(e, gone) ELSE e)

\* on_providers_changed() of the manager ends with the flags in any case.
ProvidersChanged(d) == UpdateStateFlags(d)

-----------------------------------------------------------------------------
(* Plugins. *)

IsLoaded(d, p) == p \in ToSet(d.providers)

\* on_plugin_loaded() of the plugin manager puts the provider on its list, or
\* takes it off.  Its origins leave the manager's list with it.
ProviderAdded(d, p) == ProvidersChanged([d EXCEPT !.providers = Append(@, p)])

ProviderRemoved(d, p) ==
  LET at   == CHOOSE i \in DOMAIN d.providers : d.providers[i] = p
      rest == [d EXCEPT !.providers = RemoveAt(@, at)]
      bare == IF p = "mm" THEN [rest EXCEPT !.modem = FALSE]
                          ELSE [rest EXCEPT !.accounts = {}, !.online = {}, !.tels = {}]
  IN  ProvidersChanged(IF bare = rest THEN rest ELSE OriginsChanged(bare, p = "sip", at))

\* calls_plugin_load(): the extension is created before its provider is listed,
\* and starts without origins.
LoadPlugin(d, p) ==
  IF IsLoaded(d, p) THEN d
  ELSE ProviderAdded([d EXCEPT !.lookups = IF p = "sip" THEN LoadAccounts ELSE @], p)

\* calls_plugin_unload()
UnloadPlugin(d, p) == IF IsLoaded(d, p) THEN ProviderRemoved(d, p) ELSE d

\* calls_plugin_manager_load_plugin() for each, where the plugins of `failing` do
\* not load.
LoadPlugins(d, names, failing) ==
  LET loaded[n \in 0..Len(names)] ==
        IF n = 0 THEN d
        ELSE IF names[n] \in failing THEN loaded[n - 1] ELSE LoadPlugin(loaded[n - 1], names[n])
  IN  loaded[Len(names)]

\* set_default_plugins_action()
SetDefaultPlugins(d, failing) ==
  IF d.providers # <<>> THEN d ELSE LoadPlugins(d, Autoload, failing)

\* set_plugin_names_action(): of the plugins found, first those not named go.
SetPluginNames(d, names, failing) ==
  LET Without(e, p) == IF p \in ToSet(names) THEN e ELSE UnloadPlugin(e, p)
  IN  LoadPlugins(Without(Without(d, Plugins[1]), Plugins[2]), names, failing)

-----------------------------------------------------------------------------
(* What the user may ask for, once per request. *)

\* call_number(), of a number in which extract_dial_string() finds one.
CallNumber(d, t) == Dial(d, t)

\* The "dial" action, which does nothing while it is disabled.
DialAction(d, t) == IF d.dialOn THEN CallNumber(d, t) ELSE d

\* activate() with a URI: open_tel_uri() or open_sip_uri(), enabled or not.
OpenUri(d, t) == IF t \in Tel THEN CallNumber(d, t) ELSE Dial(d, t)

\* command_line(): plugins, then the number to dial, then a URI.
Commands ==
  {c \in [names: {<<>>, <<"mm">>, <<"sip", "mm">>},
          dial: Request \union {"no"}, uri: Request \union {"no"}] :
     c.dial = "no" \/ c.uri = "no"}

CommandLine(d, c, failing) ==
  LET loaded == IF c.names = <<>> THEN d ELSE SetPluginNames(d, c.names, failing)
      dialled == IF c.dial = "no" THEN loaded ELSE DialAction(loaded, c.dial)
      opened == IF c.uri = "no" THEN dialled ELSE OpenUri(dialled, c.uri)
  IN  [opened EXCEPT !.asked = @ \union ({c.dial, c.uri} \ {"no"})]

Fresh(d, c) == c.dial \notin d.asked /\ c.uri \notin d.asked

\* A SIP provider unloaded while passwords are looked up for it is freed before
\* the answers, which still refer to it, and so does a form that has yet to save:
\* both left out.
Unloadable(d, c) ==
  c.names # <<>> /\ "sip" \notin ToSet(c.names) => d.lookups = {} /\ saves = 0

\* startup(): start_proper(), the plugins, and the "dial" action.
Startup(failing) ==
  EnableDial(SetDefaultPlugins([NotRunning EXCEPT !.running = TRUE], failing))

\* The program starts, and handles the command line that started it.
Start ==
  /\ ~prog.running /\ starts < MaxStarts
  /\ \E failing \in {{}, {"mm"}, {"sip"}}, c \in Commands :
       /\ Fresh(NotRunning, c)
       /\ LET d == Startup(failing)
          IN  Unloadable(d, c) /\ prog' = CommandLine(d, c, failing)
  /\ starts' = starts + 1
  /\ UNCHANGED <<storeVars, useDefault, edits, commands>>

\* A later command line, or an activation of set-plugin-names over D-Bus.
Command ==
  /\ prog.running /\ commands < MaxCommands
  /\ \E failing \in {{}, {"mm"}, {"sip"}}, c \in Commands :
       /\ Fresh(prog, c) /\ Unloadable(prog, c)
       /\ prog' = CommandLine(prog, c, failing)
  /\ commands' = commands + 1
  /\ UNCHANGED <<storeVars, useDefault, starts, edits>>

\* address_activate_cb(): the selected origin dials, or else nothing happens.
DialSelected(d, t) == IF HasOrigin(d) THEN HandOver(d, t) ELSE d

\* From the entry of the box, the dial pad, a contact or the history.
UserDials(t) ==
  /\ prog.running /\ t \notin prog.asked
  /\ \E d \in {Dial(prog, t), DialSelected(prog, t)} :
       prog' = [d EXCEPT !.asked = @ \union {t}]
  /\ UNCHANGED <<storeVars, useDefault, starts, edits, commands>>

\* calls_manager_get_origin_by_id()
IsOrigin(d, i) == i \in Ids(d.accounts) \/ (i = "modem" /\ d.modem)

\* on_dial_protocol_activated(), with the id of an origin or one that is gone.
DialWithOrigin(t, i) ==
  /\ prog.running /\ t \notin prog.asked
  /\ (IF t \in Tel THEN "tel" ELSE "sip") \in prog.protocols
  /\ prog' = [(IF IsOrigin(prog, i) THEN HandOver(prog, t) ELSE DialAction(prog, t))
                EXCEPT !.asked = @ \union {t}]
  /\ UNCHANGED <<storeVars, useDefault, starts, edits, commands>>

\* The program ends, is ended, or crashes.
Quit ==
  /\ prog.running
  /\ prog' = NotRunning /\ StoreLeft
  /\ UNCHANGED <<useDefault, starts, edits, commands>>

-----------------------------------------------------------------------------
(* Origins come and go. *)

ModemComesOrGoes ==
  /\ "mm" \in ToSet(prog.providers)
  /\ prog' = OriginsChanged([prog EXCEPT !.modem = ~@], FALSE, 0)
  /\ UNCHANGED <<storeVars, useDefault, starts, edits, commands>>

\* on_origin_pw_looked_up(): if there is no password, or the keyring does not
\* give it away, the account is left out.
LookedUp(a) ==
  /\ a \in prog.lookups
  /\ LET d == [prog EXCEPT !.lookups = @ \ {a}]
         e == [d EXCEPT !.accounts = @ \union {a},
                        !.tels = @ \union (IF a.tel THEN {a.id} ELSE {})]
     IN  \/ prog' = d
         \/ PasswordFound(a) /\ prog' = OriginsChanged(e, TRUE, 0)
  /\ UNCHANGED <<storeVars, useDefault, starts, edits, commands>>

\* The state of an account changes, which neither the manager nor the box that
\* dials listens to.
OnlineChanges(i) ==
  /\ i \in Ids(prog.accounts)
  /\ prog' = [prog EXCEPT !.online = IF i \in @ THEN @ \ {i} ELSE @ \union {i}]
  /\ UNCHANGED <<storeVars, useDefault, starts, edits, commands>>

-----------------------------------------------------------------------------
(* The accounts window and its form. *)

\* show_accounts(): calls_account_overview_init() ends in update_state().
OpenOverview ==
  /\ prog.running /\ ~prog.opened
  /\ prog' = UpdateOverview([prog EXCEPT !.opened = TRUE], 0)
  /\ UNCHANGED <<storeVars, useDefault, starts, edits, commands>>

Edit ==
  /\ prog.opened /\ "sip" \in ToSet(prog.providers)
  /\ edits < MaxEdits /\ edits' = edits + 1
  /\ UNCHANGED <<useDefault, starts, commands>>

\* on_login_clicked(): the new account may not call telephone numbers, whatever
\* the form says.
Login ==
  /\ Edit /\ prog.addable
  /\ \E i \in Account \ Ids(file \union prog.accounts \union prog.lookups), k \in Key :
       LET added == prog.accounts \union {[id |-> i, key |-> k, tel |-> FALSE]}
       IN  /\ prog' = OriginsChanged([prog EXCEPT !.accounts = added], TRUE, 0)
           /\ StoreAdded(added, prog.lookups)

\* on_apply_clicked(): set_credentials() takes the account offline, and waits for
\* that in the main loop (deinit_sip_account).  Meanwhile anything may happen,
\* further edits included.  origins_by_protocol is not told of can_tel.
Apply(a) ==
  /\ Edit /\ a \in prog.accounts
  /\ \E k \in Key, tel \in BOOLEAN :
       LET edited == (prog.accounts \ {a}) \union {[a EXCEPT !.key = k, !.tel = tel]}
       IN  prog' = [prog EXCEPT !.accounts = edited, !.online = @ \ {a.id}]
  /\ StoreWaits

\* The wait is over, and save_accounts_to_disk() follows.  If the account was
\* deleted meanwhile, the wait goes on in freed memory, and ends here or in Quit.
Applied ==
  /\ StoreApplied(prog.accounts, prog.lookups)
  /\ UNCHANGED <<prog, useDefault, starts, edits, commands>>

\* on_delete_clicked()
Delete(a) ==
  /\ Edit /\ a \in prog.accounts
  /\ LET left == [prog EXCEPT !.accounts = @ \ {a}, !.online = @ \ {a.id}, !.tels = @ \ {a.id}]
     IN  prog' = OriginsChanged(left, TRUE, 0)
  /\ StoreRemoved(prog.accounts \ {a}, prog.lookups, a)

-----------------------------------------------------------------------------
Init ==
  /\ StoreInit
  /\ prog = NotRunning
  /\ useDefault \in BOOLEAN
  /\ starts = 0 /\ edits = 0 /\ commands = 0

Next ==
  \/ Start \/ Command \/ Quit
  \/ ModemComesOrGoes
  \/ \E t \in Request : UserDials(t) \/ \E i \in Account \union {"modem"} : DialWithOrigin(t, i)
  \/ \E a \in prog.lookups : LookedUp(a)
  \/ \E i \in Account : OnlineChanges(i)
  \/ OpenOverview \/ Login \/ Applied
  \/ \E a \in prog.accounts : Apply(a) \/ Delete(a)
  \/ RingServes /\ UNCHANGED <<prog, useDefault, starts, edits, commands>>

Spec == Init /\ [][Next]_vars

-----------------------------------------------------------------------------
\* Once the forms that were applied have saved, every account the user sees is in
\* the file as it is in memory, so that the next start finds it, whatever was
\* edited and looked up meanwhile (save_accounts_to_disk).  Not so, until accounts
\* are saved again, if they were saved between the start and the answer of the
\* keyring: the file was then written without the account.
ListedIsStored ==
  saves = 0 => \A a \in prog.accounts : a \in file \/ a.id \in overtaken

\* Once forms have saved and the keyring is done, in whatever order, it has the
\* password of every account the user sees, though accounts may share a host and
\* a user (remove_origin).  Not so, until accounts are saved again, if the keyring
\* was still clearing a password when it was asked to store one for that host and
\* user, which nothing orders.
PasswordKept ==
  saves = 0 /\ keyOps = NoOps => {a.key : a \in prog.accounts} \subseteq ring \union contested

\* What the user asked for once is queued or given to an origin, once at most,
\* however often origins come and go meanwhile (dial_queued_cb); and it is queued
\* only as long as nothing that joined since could take it: no modem for a
\* number, and nothing at all if the user selects the origin
\* (origin_count_changed_cb: "Queue for dialing when an origin appears").
DialledInTime ==
  /\ \A t \in Request : prog.handed[t] + prog.queue[t] <= 1
  /\ \A t \in Request : prog.queue[t] > 0 =>
       /\ useDefault /\ t \in Tel => ~prog.modem
       /\ ~useDefault => ~HasOrigin(prog)

\* Whatever is loaded, unloaded, plugged in and edited, the window and the actions
\* tell what is there (notify::state, items-changed): the banner, the "dial"
\* actions, and the accounts window, in which every account can be reached.
StateTold ==
  prog.running =>
    /\ prog.flags = FlagsOf(prog)
    /\ prog.banner = ~HasOrigin(prog) /\ prog.dialOn = HasOrigin(prog)
    /\ prog.protocols = UpdateDialActions(prog).protocols
    /\ prog.opened /\ prog.accounts # {} => prog.overview /\ prog.addable
=============================================================================
