# GNOME Calls in TLA+

A model of the core of GNOME Calls, the phone application in `src/`: what
becomes of a call between the modem or SIP account that announces it and
everything that shows it, rings for it and remembers it. The modules are
translated from the C sources; each definition's lines are listed in
`PROJECT.json` under `map`.

## The system

Calls is one process with one GLib main loop. Nothing runs in parallel; what
overlaps are callbacks. A GObject signal runs its handlers inside the callback
that emits it, while timeouts, D-Bus answers, libfeedback and libgom
completions are callbacks of their own. So one action of a model is one
callback with every handler it triggers, and the interleavings are those of
callbacks.

| Component | State it keeps | Operations | Talks to |
| --- | --- | --- | --- |
| Origins and calls (`calls-origin.c`, `calls-call.c`, providers) | list of calls, state and hang-up flag of a call | announce, change state, remove, hang up, answer | manager through `call-added`, `call-removed`, `notify::state` |
| Manager (`calls-manager.c`) | origins of all providers, table call -> UI data | add call, delayed removal (3 s), origins join and leave, hang up on all | listeners through `ui-call-added`, `ui-call-removed` |
| UI call data (`calls-ui-call-data.c`) | state, silenced, ui-active, 100 ms and 500 ms timeouts | follow the call, silence, become active | listeners through `notify::*`, `state-changed` |
| Ringer (`calls-ringer.c`) | ring state, target state, freeze of notifications | react to calls, to answers and to `feedback-ended` | libfeedback, asynchronously |
| Call window (`calls-call-window.c`) | displayed calls, visibility, session inhibitor | add, remove, close | application, which hangs up when it hides |
| D-Bus manager (`calls-dbus-manager.c`) | one exported object per call, its hints | export, unexport, forward methods | other programs |
| Notifier (`calls-notifier.c`) | calls not answered yet | report a missed call | desktop |
| Record store (`calls-record-store.c`) and history | database handle, list of records, data attached to calls | open, migrate, load, record, stamp, delete | libgom, asynchronously |
| Application (`calls-application.c`), plugin manager | windows, flags of the shutdown | start, quit, load and unload plugins | all of the above |
| Plugin manager (`calls-plugin-manager.c`, `calls-plugin.c`) | plugins found, providers loaded | load, unload, settings key | manager through its list of providers |
| SIP account (`calls-sip-origin.c`), its row, network watch | account state, stack, registration, call handles | register, invite, restart, tear down | sofia-sip, registrar, switch of the row |
| SIP provider and form (`calls-sip-provider.c`, `calls-sip-account-widget.c`) | list of accounts | load, add, change, remove, save | key file, keyring (asynchronously), accounts window |
| SIP call and crypto context | state, keys of both ends | dial, answer, hang up, negotiate | sofia-sip, media |
| SIP media (`calls-sip-media-*.c`) | pool of pipelines, codecs, elements playing | link, start, stop, follow the bus | GStreamer |
| ModemManager, oFono, dummy providers | modems, calls, tones, USSD state | list, add, delete, follow the service | D-Bus services, manager |
| USSD dialog (`calls-main-window.c`) | buttons, content, the session's origin | send a code, reply, cancel | the modem's origin |
| Contacts (`calls-contacts-provider.c`, `-box.c`, `calls-best-match.c`) | idle jobs, list, match of a number | add, remove, look up | libfolks |
| Settings, emergency numbers, other widgets | none of their own | lookups | GSettings, GTK |

### What is hard

* **Overlapping requests of the ringer.** The calls can change while a trigger
  or an end is in flight. The ringer then has two or more operations open, a
  target that was set after they were issued, and a freeze of `notify::state`
  that only certain paths lift. A feedback also ends by itself, and the reason
  it reports decides whether the ringer tries again.
* **Two delays.** A ringing call is inactive for the UI for 100 ms, a dropped
  call stays in the table for 3 s. In between, other calls come and go, and
  every listener must follow both.
* **Reactions inside signals.** Removing the last displayed call hides the
  window, which hangs up on all calls, before the removal was told to everyone.
* **Asynchronous database.** A call can be added, answered and ended before its
  first save is answered, while the database is being migrated or loaded, after
  a failure, or right before the program ends.
* **Two views of a SIP dialogue.** sofia-sip answers and acknowledges by itself;
  the program hears of it by events, acts by the state it has reached, and
  meanwhile the other end's answer, CANCEL or BYE may be on the way. Two ends
  derive one key pair from two lists, each with the roles of local and remote
  swapped.
* **A wait inside the main loop.** To restart its SIP stack an account shuts it
  down and iterates the main loop until that is done; what the loop dispatches
  may restart the same account, any number of times inside each other.
* **Late answers of a registrar.** The user switches an account on and off while
  answers to earlier requests are on the way; the switch asks for a state when
  it is set by a state.
* **Messages of a pipeline.** Its elements come up one by one, those that
  encrypt only if they were asked for before it was linked, and tell so later.
* **Listings in flight.** The calls of a modem are listed asynchronously, again
  at every new call, while calls end, the modem leaves or the service restarts.
* **What is on disk and what is in memory.** Accounts are written as a whole
  while others are still being read, and their passwords are shared, stored and
  deleted asynchronously.
* **Things that come later.** Numbers dialled at start-up wait for an origin;
  the banner, the actions and the accounts window follow plugins, providers and
  accounts that come and go, each by signals of its own.

`PROJECT.json` lists each of these under `hazards`, at its line, with the
properties that cover it or the reason why none does.

### What makes the components correct

* Ringer: no update is lost, listeners know its state, it believes in no sound
  that is not there, and with a well-behaved service it does what the calls ask.
* Manager and front ends: the table is accounted for, the front ends agree after
  every callback, each ringing call that is told to have ended is reported once,
  dropped calls go away.
* Record store: one record per call with the right stamps; the wait of the
  shutdown ends.
* SIP call and media: encryption follows the policy, the keys of both ends fit,
  both ends use one codec, talk and end together; what plays is what was agreed,
  and a stopped pipeline stays so.
* SIP account: it shows as online only if it is registered, its switch tells its
  state, it is bound to the address the computer has, and takes calls again when
  the ones it had are over.
* Cellular providers: every call the service has is told or about to be, one
  that ended is deleted there, and the manager sees calls that keep to its
  contract; tones and USSD answers keep their order.
* Application and SIP provider: what is shown of accounts, and their passwords,
  is stored once forms and keyring are done, up to two races of the code that
  lose an account or a password (see "Also met"); what was dialled early is
  dialled once, and what the windows tell is there.
* Contacts: who has a number is listed, who left is not, and a call is named
  after the first contact that its number finds.

## Modules

| Module | Models | Extends |
| --- | --- | --- |
| `CallsOrigin` | contract of origins and calls | |
| `CallsManager` | manager and UI call data, over the contract | `CallsOrigin` |
| `CallsFrontEnds` | manager, call window, D-Bus objects, notifier | `CallsManager` |
| `CallsFrontEndsProofs` | theorems about it | `CallsFrontEnds` |
| `CallsRinger` | ringer and feedback service, with arbitrary calls | |
| `CallsRingerCalls` | manager and ringer; implements `CallsRinger` | `CallsManager`, instance of `CallsRinger` |
| `CallsRingerProofs` | theorems about `CallsRinger` | `CallsRinger` |
| `CallsRingerCallsProofs` | theorems about `CallsRingerCalls` | `CallsRingerCalls`, instance of `CallsRingerProofs` |
| `CallsRecordStore` | record store, history, database | |
| `CallsRecordStoreProofs` | theorems about it | `CallsRecordStore` |
| `CallsSdpCrypto` | crypto context of a SIP call, as operators | |
| `CallsSipCall` | one SIP call between two ends, sofia-sip in between | `CallsSdpCrypto` |
| `CallsSipCallProofs` | theorems about both | `CallsSipCall` |
| `MCSipCall` | descriptions a foreign end sends in the runs | `CallsSipCall` |
| `CallsMedia` | codecs and pipelines of both ends of a SIP call | |
| `CallsSrtp` | crypto lines of a media description, written and read | |
| `CallsMediaProofs` | theorems about both | `CallsMedia`, `CallsSrtp` |
| `MCMedia` | either of the two | both |
| `CallsModem` | what the cellular providers share: service, origins, calls | |
| `CallsMm`, `CallsOfono`, `CallsDummy` | the three providers | `CallsModem` |
| `CallsModems` | one of them, loaded; implements `CallsOrigin` | all three, instance of `CallsOrigin` |
| `CallsUssd` | USSD sessions and their dialog | |
| `CallsContacts` | provider and list of contacts, best match of a number | |
| `CallsModemsProofs` | theorems about the last three | `CallsModems`, `CallsUssd`, `CallsContacts` |
| `MCModems` | either of the three | `CallsModems`, `CallsUssd`, `CallsContacts` |
| `CallsSipAccount` | a SIP account, its row, registration and restarts | |
| `CallsSipProvider` | where accounts and passwords are kept, as operators | |
| `CallsApplication` | start-up, plugins, manager flags, dialling, accounts window | `CallsSipProvider` |
| `CallsApplicationProofs` | theorems about the application and the account | `CallsApplication`, `CallsSipAccount` |
| `MCApplication` | the application, or one account | `CallsApplication`, `CallsSipAccount` |

### CallsRinger

The variables `state`, `target` and `frozen` are the fields `state`,
`target_state` and `freeze_state_notify`; `notified` is what listeners last saw.
The calls are two booleans, what `have_incoming_call()` and
`have_active_call()` return, and `CallsSignal` may change them to anything at
any time. The service is a queue of operations, the set of feedbacks that play,
and the set of `feedback-ended` signals not delivered yet. `TargetStateStep`,
`SetRingState`, `SetTargetState` and `UpdateRing` are the functions of the same
names; they take the queue so that a callback can remove the answered operation
and append the next in one step. The constants say what the service may do:
the reason it gives for feedback the client ended, the reasons it gives
otherwise, whether it fails, whether a signal always comes before a later
answer.

### CallsOrigin and CallsManager

`callState`, `calls` and `hungUp` belong to the origins, `table`, `ui` and
`removals` to the manager. An origin announces a call in any state, moves it on,
and drops it, after it ended or not: ModemManager and the dummy drop all calls
of an origin that goes away. Individual answers and hang-ups only ask the
origin, which reacts by moving the call on, so they are not actions of their
own. `removals` is the queue of 3 s timeouts; since all take the same time they
run in the order they were scheduled, and a 100 ms timeout of a call never
outlives a later 3 s timeout of the same call (guard of `RemoveDelayed`).

The reaction of listeners is written over `Added`, `Removed`, `Moved`, `Shown`
and `Hushed`, the changes that the manager and the UI data signal in a step.

### CallsFrontEnds and CallsRingerCalls

Two compositions over the same manager, apart because their states multiply and
they do not interact. In `CallsFrontEnds`, `WindowListens`, `BusListens` and
`NotifierListens` are the handlers, and `HiddenHangsUp` is the application's
reaction to a hidden window. `CallsRingerCalls` replaces the two booleans of
`CallsRinger` by the expressions over the table that the code computes, and has
`Ringer!Spec` as a property: that module is its abstract specification.

### CallsRecordStore

`watched`, `start` and `record` are the handler and the two pieces of data the
store attaches to a call; `adapter`, `repository`, `busy` and `list` are its
fields. `ops` is the queue of the database, `rows` its contents. Each completion
callback is an action with its success and its failure. `Restart` ends the
program at any point and starts it again.

### CallsSdpCrypto and CallsSipCall

A crypto context is a record of its two lists, its state and the negotiated tag;
the operators are the functions of `calls-sdp-crypto-context.c` and give the next
context. The lists hold the attributes that parse: an attribute of a suite the
code does not know fails to parse and is dropped, and session parameters are
skipped by the parser. `garbled` says that a description had attributes that were
dropped, since an account without encryption refuses those too.

`CallsSipCall` runs this code at both ends of a call, or at one end against a
foreign user agent. `callState`, `ctx` and `media` are the state of the call, its
context and its pipeline; `policy` is the account's setting. `IState` is
`sip_i_state()`, `Dial`, `Answer` and `HangUp` are the call's operations, `HangUp`
in any state as the user or another call's end may ask for it. `dialog`,
`events`, `wire` and `reported` belong to sofia-sip, modelled from how it is
used: a `nua_` call takes effect on the dialogue at once, what comes back is an
event, messages to an end stay in order and none is lost (sofia-sip repeats
them), answers are acknowledged by themselves, a CANCEL does something only while
the INVITE is unanswered, and `nua_i_invite` and the first `nua_i_state` are
queued in one step. A foreign end follows the same dialogue and puts any
description into its INVITE, its responses and its answer.

Left out: a second call, which is refused with 486 (it is in
`CallsSipAccount`); an INVITE without an offer; a re-INVITE (`Refresh` of
`CallsMedia`); a description without an address.

### CallsSipAccount

`acct` is the `CallsSipOrigin`: `state`, `nua` (its stack, up, shutting down or
shut), `reg` (the register handle), `busy` (`op->call_handle`), `sent` (requests
the registrar has not answered) and the switch of its row. `waits` is the stack
of functions that wait in `deinit_sip_account()`: the user's changes, the
network watch, a removal. Actions are the events of sofia-sip (`Invite`,
`IState`, `Answered`, `ShutdownAnswered`), of the user (`DialOut`, `Switched`,
`SetCredentials`, `RemoveAccount`) and of the network (`NetworkMoves`,
`WatchNetwork`); `Resume` is the return of the innermost wait. `ChangeState`
and `Notify` are signal and handler in one, since the switch that is set by a
state calls `go_online()` at once. A wait does not nest in a wait of the same
GLib source (`WatchNetwork`). The account may be removed while functions wait for
it; `dispose()` then waits inside them, and the model ends once it is through
(`GONE`), because they would go on in freed memory.

### CallsSipProvider and CallsApplication

The key file (`file`) and the keyring (`ring`) survive the program. `keyOps` counts
the requests to store and to clear a password that the keyring has not done yet:
the code waits for none of them, so `RingServes` does any of them next. `prog` is
the memory of the running program,
a record, because most callbacks run handlers of four other objects inside
themselves: each handler is an operator from memory to memory with the name it
has in C, and an action composes them. `LoadPlugins`, `UnloadPlugin` and the
handlers of `items-changed` are called in the order in which the code connects
them. Plugins may fail to load; the SIP plugin is not unloaded while passwords
are looked up for it or a form waits, as that touches freed memory (`Unloadable`).

`on_apply_clicked()` is two steps. `Apply` changes the account in memory, and
`set_credentials()` then runs the main loop until the SIP stack is shut down; in
`Applied` the accounts there are by then are saved. In between (`saves` > 0)
everything else may happen: other edits and applied forms, answers of the
keyring, command lines, and the end of the program. Accounts may be edited while
passwords are looked up. Two histories remember when the code loses something:
`overtaken`, the accounts that were being looked up when the file was last
written, and `contested`, the passwords that were being cleared when passwords
were last stored.

### CallsMedia and CallsSrtp

`pipe[p].state` is the state of a pipeline, `linked` whether it was linked with
encryption, `playing` its map of playing elements; `runs` is what its elements do
and `bus` what they have not been heard to say. A real pipeline has a dozen
elements; the ones that differ in when they are there and when they fail are
kept. In `CallsSrtp` a line is its fields; `Parse`, `Valid` and `PrintAttribute`
read, check and write attributes, and the run sends a line forth and back.

### CallsModem, CallsMm, CallsOfono, CallsDummy, CallsModems

A call has a path at the service, its state there (`net`), and any number of call
objects in the program (`objs`), one per time an origin learnt of it. Requests
that change something at the service are in `asked`, all others in `pending`:
listings, proxies being made, tones. The actions of `CallsMm` and `CallsOfono`
are the callbacks of the two providers with their names; an origin without modem
lives as long as something in flight refers to it (`Settle`), and drops its
calls only then. `CallsModems` states what the three have in common and maps
them to `CallsOrigin`: call objects are calls, origins on the list are origins.

### CallsUssd and CallsContacts

`CallsUssd` has the messages between program and service in two queues, since
D-Bus keeps their order, and the dialog with its three buttons. With oFono, the
program makes up the state of the session; with ModemManager it is told.

In `CallsContacts` an idle job is the set of contacts it has still to handle, a
step is one contact of one job. The view of a number reports what it found later,
and nothing if that is what it found before.

## Runs

| Run | Instance | Shows |
| --- | --- | --- |
| `ringer` | 3 open operations, any reason, failures, any order | `SettledOnTarget`, `SettledIsNotified`, `RingingIsAudible` |
| `ringer_calls` | 2 calls, 1 origin, reason NATURAL | `SettledAsWanted`, `RingsWhenWanted`, and implements `CallsRinger` (`DrivesRinger`) |
| `ringer_endless` | 2 open operations, EXPLICIT for ended feedback | violates `FallsSilent` |
| `front_ends` | 2 calls, 1 origin | `TableAccounts`, `FrontEndsAgree`, `MissedReported`, `DroppedDisappears` |
| `record_store` | 2 calls, 1 failure, 1 restart | `BusyCountsOpening`, `RecordsFaithful`, `ShutdownProceeds` |
| `record_delete` | 1 call | violates `DeletedIsErased` |
| `sip_call` | all policies; both ends this program, or one foreign | `ForcedIsEncrypted`, `KeysBelongTogether`, `EndsAgree`, `TalkTogether`, `EndsTogether` |
| `sip_refused` | a foreign end without a common codec | violates `RefusedEnds` |
| `modems` | 2 calls, 2 origins; 2 USSD codes; 2 contacts | `NoCallMissed`, `EndedIsDeleted`, `TonesInOrder`, implements `CallsOrigin` (`ImplementsOrigin`); `ButtonsFollow`; `ContactsShown`, `NameIsKnown` |
| `media` | 2 codecs, 3 pipelines, 2 refreshments; 2 keys per line | `EncryptedAsAgreed`, `SameCodec`, `PlayingIsTrue`, `PendingEnds`, `StopIsFinal`; `AttributesReadBack` |
| `application` | 2 accounts, 2 passwords, 2 starts, 2 edits; an account with 2 calls, 2 addresses, 2 nested restarts | `ListedIsStored`, `PasswordKept`, `DialledInTime`, `StateTold`; `BusyIsACall`, `SwitchTellsState`, `OnlineIsRegistered`, `BoundToKnownAddress`, `StateSettles` |
| `stack_destroyed` | an account with 2 nested restarts | violates `DestroyedAfterShutdown` |

Components that share no state are checked in one run if they ask for one
instance: `modems`, `media` and `application` start with a choice of what they
study (`studied`), and the rest stays as it is. Of `application` there are three
parts: what it dials, without applied forms and with a keyring that is idle; how it
keeps its accounts, with nothing to dial; and one account.

Bounds. Three open operations of the ringer are enough for one of each kind plus
one more whose target is outdated; the proofs remove this bound. `ringer_calls` allows
20, more than its calls ever open. Two calls give
every pair the code distinguishes: one active and one ringing, one ending while
the other arrives, two removals scheduled. Calls are used once, as call objects
are. One origin may leave and come back as a new one. `FirstStates` lists the
states in which calls are announced. One failure at any operation and one restart
reach every error path of the store and a load of what was saved before it. The
descriptions of `MCForeignMedia` are one for each way in which an offer or an
answer is refused, ignored, fails to negotiate or succeeds; the length of a SIP
call is bounded by its dialogue, so `sip_call` needs no bound.

Of the modem's two paths one is dialled and one comes in; two origins are a
modem that came back, two objects a call that was listed twice. `Unseen` leaves
out states of a call that the program handles as others. Modems come, and
services restart, before the first call, and a modem may leave at any time. Two
codes and one reply reach each order of two answers. Of three pipelines, the
third is the one in reserve; the elements of one of them run (`Lively`), since
pipelines do not interact. Two accounts may share a password or not; two starts
and two edits lose and find what one of them stored, in each order of an applied
form, its save, an edit inside its wait, the answers of the keyring and the end
of the program. Two nested waits show everything that a third could: each only
sees the one inside it. Handles of calls are interchangeable, and symmetric in
`application`, which checks no temporal property. The runs with `CHECK_DEADLOCK
FALSE` have a finite supply of calls, requests or reports and stop when it is
used up.

Fairness. The main loop runs its timeouts (`Removal`, `DelaySetActive`), and the
services answer what they are asked (`Answer`) and deliver the signals they sent
(`FeedbackEnded`). The soft ring has a timeout of 15 s, so that feedback ends by
itself; the other has none. In `CallsSipCall` the main loop delivers the events
of sofia-sip (`IState`) and the network its messages (`Receive`); `sip_refused`
adds a user who goes on hanging up, to show that this does not help. In
`CallsMedia` GStreamer brings up the elements of a pipeline, if the devices work,
and the main loop dispatches what they say. No fairness is assumed of the user,
the network, or an origin.

### Disagreements found

* `ringer_endless`: two triggers are in flight, first for the soft event and
  then for the other, when a call is hung up and the next rings. The answer to
  the first makes the ringer end it; the answer to the second makes it RINGING;
  the `feedback-ended` of the first, EXPLICIT, then sets state and target to
  INACTIVE. The sound has no timeout and no later change of the calls ends it.
* `record_delete`: a record of a call made in this session is deleted from the
  list and not from the database.
* `sip_refused`: the callee's answer names no common codec, or breaks the policy.
  `sip_i_state()` "hangs up" while the call is still DIALING or ALERTING, which
  sends a CANCEL; the INVITE is answered, so nothing happens, and the call keeps
  that state. The user sees a call that rings and cannot be ended, the peer one
  that is up.
* `stack_destroyed`: while `recreate_sip()` waits for the shutdown of the stack,
  the loop it iterates runs `recreate_sip()` of the same account, for the network
  or for the user. The inner one ends first and makes a new stack; the outer one
  then destroys that, which was never shut down.

### Also met

Behaviour that the models contain and no property calls wrong, or that they
leave out:

* The call window that hides because its last call was removed hangs up on all
  calls, also on one that is less than 100 ms old and not displayed yet
  (`calls-application.c:608`).
* `calls_record_store_is_busy()` does not count saves (`calls-record-store.c:502`,
  and the comment at line 811).
* A call dropped while ringing, by an origin that goes away, is not reported as
  missed unless its end is told within the 3 s for which it is kept, and rings on
  for that long (`calls-notifier.c:122`): `MissedReported` is about calls that are
  told to have ended. A call that is announced before it rings is not reported
  either.
* A call of ModemManager may be announced twice, with two objects, if two
  listings overlap (`list_calls_cb()` and `call_added_list_calls_cb()`); an
  origin that left its provider announces calls while a listing keeps it alive;
  an object manager created twice is leaked.
* oFono: calls and origins of a modem are not found again after a restart of the
  service, because `modems` is not emptied; the interfaces looked at are those of
  the moment the proxy was asked for; after a code that failed the session counts
  as active (`calls-ofono-origin.c:236`), so the next one is preceded by a cancel.
* A late error of an earlier USSD code closes the dialog of the next; the dialog
  closed while its first code is in flight leaves the session open
  (`calls-main-window.c:181`).
* Accounts are saved from memory: any save while passwords are looked up drops
  those accounts from the file, until accounts are saved again (`overtaken` in
  `ListedIsStored`), and so does one after a password was not found.
* Removing an account clears the password for all accounts with its host and user
  and then stores it again for those that are left, and waits for neither: if the
  keyring clears last, they lose it (`contested` in `PasswordKept`).
* What a form applied is lost if the program ends while the form waits for the
  SIP stack (`calls-sip-account-widget.c:493`).
* A new account may not call telephone numbers
  whatever the form says, and a later change of that is not told to the manager.
* A number dialled while no account is online stays queued until the list of
  origins changes. `--dial` at a cold start is ignored, as the action is not
  enabled yet unless an origin is there.
* The accounts window is not updated when the SIP plugin is loaded or unloaded
  without accounts.
* After a shutdown that failed, an account keeps its stack and has no register
  handle: it ignores its switch.
* Crypto lines: of the ten suites the code can name it reads four, and writes
  two of the others under names no standard has (`AES_196_`); an attribute with
  several keys can be written and read but not decrypted with, and the index
  (MKI) of a single key is dropped.
* A call whose answer is refused because the preferred codecs changed after the
  offer ends like that of `sip_refused`.
* Contacts: a window opened while additions are queued lists a contact twice; it
  also lists contacts without a number; a removal that overtakes an addition
  leaves a removed contact on the list; a contact that gets its first number
  later is not listed; the name shown stays if the country code changes and the
  number then finds nobody.

## Proofs

Every theorem is about all values of the constants, which for the bounds of the
runs means: without them. The constants' assumptions are the named `ASSUME` of
the modules, which say their types and, where it is noted here, one thing more.

`CallsRingerProofs` proves, for all values of the constants and so for any number
of open operations, `TypeOK`, `RingingIsAudible`, `SettledOnTarget` and
`SettledIsNotified`, and, for a service that never fails and never reports
NOT_FOUND or EXPLICIT, `SettledAsWanted`. The only assumption is
`ServiceAssumption`, the types of the constants.

None of these is inductive: that a ringer at rest is on its target depends on
what is in flight while it is not. The invariant `IInv` says so: a ringer off
its target and not in ERROR has asked for the step that brings it closer, and
that request, or the signal that follows it, is still to come (`Progressing`); a
held back notification means that a restart is under way
(`FrozenIsRestarting`); otherwise listeners are up to date
(`UnfrozenIsNotified`); a ringing state has its feedback or its end in flight
(`RingingIsAudible`). There is one lemma per action, which rest on two lemmas
about `TargetStateStep` and `SetRingState` and three about queues.
`FollowsCalls` adds that the target is what the calls ask for, which needs the
restriction on the service and nothing else.

`CallsRingerCallsProofs` proves that manager and ringer together implement
`CallsRinger` (`DrivesRinger`): a callback of the manager after which a call was
added or removed, or changed a property the ringer listens to, is an
`update_ring()` with what the calls then ask for, and any other changes neither
`have_incoming_call()` nor `have_active_call()` (`QuietStep`). So the theorems about
`CallsRinger` hold of the ringer behind the manager; `SettledAsWanted` is one of
them, for a service as in `FollowsCalls` (`NaturalService`).

`CallsSipCallProofs` proves, for all policies, foreign ends and descriptions of
any length, `TypeOK`, `ForcedIsEncrypted` and `KeysBelongTogether`. It assumes
`CallAssumption`: the types of the constants, that a foreign end does not use a
key of this program, and that no description is the mark for having none. The
first part is about the context alone: `Agreed`, that a negotiated context has a
line for its tag in both lists, of one suite, is kept by the three operations
that change a context (it rests on `LeastIn` and `ByTagIn`, what a search by tag
returns). `KeysBelongTogether` is not inductive, because keys reach the pipeline
through the context, and the context through messages: `IInv` adds `Agreed` for
both contexts and, in `TypeOK`, whose keys a message, an event and a context may
hold. One lemma per action follows, over `StackTypes`, `NuaTypes` and
`HangUpTypes` for the steps of sofia-sip and `MediaUntouched` and
`MediaReplaced` for those of the program.

The second part is about two ends of this program: `EndsAgree` and `TalkTogether`,
for all policies of the two. There is then one offer and one answer, and
`PairInv` follows them. An end's context is one of those on the way from none to
negotiated (`ContextsFit`); what is on the wire, and which events sofia-sip still
holds back, fits the state of both dialogues (`DialogsFit`, `ToCallee`, `ToCaller`,
`CalleeHears`, `CallerHears`); and a pipeline that plays does so with the keys of its
context, and the caller's only once the callee has answered (`PipesFit`). What the
operators of `CallsSdpCrypto` make of that offer and answer is worked out once,
in lemmas about concrete contexts. `TalkTogether` needs the events: that an end is
ACTIVE while the other is not means that one of them has something to hear.

`CallsFrontEndsProofs` proves `TableAccounts`, `FrontEndsAgree` and
`MissedReported`, for any number of calls and origins. The first two are
inductive once the UI data is known to follow the call (`InTable`): which calls
the window shows depends on it. `MissedReported` needs what the notifier
remembers (`Remembered`): of the calls on the table, those that were announced as
ringing and of which nothing was told since are the ones on its list that are
INCOMING. Lemmas about the queue
of removals say that it holds each dropped call once.

`CallsMediaProofs` proves `EncryptedAsAgreed`, `PlayingIsTrue` and `StopIsFinal`,
for any number of pipelines and refreshments. `IInv` says who owns which pipeline
(`Owned`), that a call leaves its pipeline alone until its media is activated
(`Followed`), and of each pipeline that its elements run only while it plays or
is to play (`Quiet`), that what the bus still holds, and what the map of playing
elements says, is true of the elements (`Told`), and that the elements which
encrypt are linked only if they were asked for (`Asked`). `MediaAssumption`: there
is at least one pipeline. `Others` moves all this to the pipelines that a step
does not touch.

`SameCodec` needs `CodecsFit`: as long as the preference is what it was when the
offer was looked at, each end has those codecs of its peer's description which are
preferred, in the peer's order, and its pipeline the first of them. Both ends
choose from descriptions that were filtered once and twice; that the second time
changes nothing (`KeptTwice`) is proved by induction over the length of the
prefix looked at. The library's induction theorems take an operator as parameter, so
`Induction` states the principle for a set of numbers, from `WFMin`.

`AttributesReadBack` needs that an attribute which was read is `Sound`: its suite is
one of those the code reads, and its keys have an identifier if and only if there
are several. What is written of such a key is read as that key (`KeyReadsBack`),
what can be read is `Sound` (`ReadIsSound`), and so is what this program generates.
`LinesReadBack` begins with any line, not only with those of the run.
`SrtpAssumption`: there may be a key, and the 4 bytes of a generated identifier are
allowed.

`CallsApplicationProofs` first proves the five properties of an account, for any handles
and calls and any depth of nested restarts. What makes them inductive is
`SwitchAsks`, that a switch which does not fit the state has its request as the
last one on the way; `Waited`, that a stack that is down is waited for; and
`Leaving`, that only an account that was removed is disposed of.
`AccountAssumption`: `None` is neither a handle nor a call, and one wait is
possible.

It then proves the four properties of the application, for any requests, autoload
list, file to begin with, and number of starts, edits and command lines. A callback
is a function of the program's memory; a memory is `Fine` if flags, banner, actions
and accounts window tell what is there, accounts and modem belong to a provider that
is loaded, and each request is queued or handed over once (`Counted`) and not longer
than needed (`InTime`). `OriginsTold` shows that a change of the origins leaves a
fine memory although the one it starts from is not, since those who are told repair
it one after the other; `PluginsLoad`, that loading any list of plugins, some of
which fail, keeps it fine, by `Induction` over the length of the list. `StateTold` and
`DialledInTime` are parts of what `Fine` says, but for the "dial" action, which only
a program that has started has right (`Running`). For `ListedIsStored`, `FileFits`
adds the accounts whose password is looked up, which a restart or a plugin
reads from the file: they are in it until it is written (`overtaken`). `PasswordKept`
needs `PasswordsFit`: unless it is contested, no password has a request to clear
it, so that nothing undoes the request to store it, which each save makes for every
account there is (`AllStored`), even with the keyring free to choose. Both hold for
any number of forms that wait. `ApplicationAssumption`: types, and that only plugins
there are get loaded.

`CallsRecordStoreProofs` proves `BusyCountsOpening`, for any number of calls,
failures and restarts. `IInv` says that of the operations which open the database
at most one is in the queue, which is what `busy` counts, and none while there is
no handle: `open_repo()` then opens it anew and counts from zero. Each answer is
either the last of the opening or asks for the next (`Proceeding`); all other
steps only save or delete (`Saving`).

It also proves `RecordsFaithful`, if no call is over when it is added
(`"DISCONNECTED" \notin FirstStates`, which the theorem assumes): such a call would
get no stamp, as no change of its state is to come. `FInv` says, as long as nothing
failed, what a quiet database will hold: the last save in the queue of a call is
of its record as it is now (`SavesLatest`), a record of which no save is queued is
stored (`StoredOrAsked`), and there is one row of each (`RowsOnce`).

`CallsModemsProofs` proves the properties of the run `modems`. `ModemAssumption`:
there are finitely many paths, none has the name of a kind of request, and there
may be an origin.

`NoCallMissed`, `EndedIsDeleted`, `TonesInOrder` and the refinement of `CallsOrigin`
rest on `ModemsInv`, which holds for each provider, and any number of calls,
origins, objects and tones. It adds that an entry of an origin's table is a call
object of that origin and path which is not dropped (`Fit`), that the service has
calls only while the modem has voice (`NetFits`), and that a call object is not
over before its call is (`ObjsFollow`): the states of objects only move on because
those of calls do. `PendingFits` says what may be in flight; that an origin of oFono
without its voice interface is still to be told of it (`VoiceKnown`) is what keeps
the calls there from being missed. There is one lemma per callback; `Settled` says
once what the end of each does, which disposes of origins nothing refers to any
more, and `StillTold` and `OfonoStillTold` when a call that some request will tell
of is still told of. `TonesInOrder` is inductive. For the refinement
(`ContractKept`), a step may add objects and move them on (`Later`), and brings no
origin back to the list (`Aging`).

`ButtonsFollow` needs `UssdInv`, which says what the messages under way will tell:
with ModemManager, the last state on the way is the session's (`Told`), and the
buttons of a dialog are those of the state the program believes in or those of a
question, left as they are while the session goes on (`Shows`). With oFono, where
states are made up from answers, an open dialog belongs to a code that was dialled
after each cancel under way, or is about to close (`Overtaken`), so that what its
answer makes of the state is not undone. `UssdTold` handles all steps of service
and network at once, by what they send.

`ContactsShown` and `NameIsKnown` hold for any address book, matching and countries.
`Expected` says that a contact which should be on the list is there or in a job's
hands, `Unwanted` that one which left is off it or about to be taken off,
`JobsKnown` that a job which would put it back was overtaken, and `MatchKnown` that
the name told is that of the last view.

Only model-checked: liveness (`RingsWhenWanted`, `DroppedDisappears`,
`ShutdownProceeds`, `EndsTogether`, `PendingEnds`), as the prover handles neither
fairness nor `ENABLED`.

## Not modelled

* Emergency numbers, settings and utilities are lookups in tables, files and
  GSettings. Of the network watch, the netlink messages; of the D-Bus methods,
  what only forwards to a call.
* Widgets, except where they hold a state of their own: the call window, the
  banner, the USSD dialog, the switch and the form of an account, the box that
  queues what it cannot dial yet, the list of contacts.
* DTMF, names, avatars, messages of modems, the search of contacts, favourites.
* What several modems, or several pipelines of GStreamer, do to each other: the
  code keeps nothing that they share but lists.
* Reference counts and freed memory: hazards that consist in a leaked or dangling
  reference are listed without a property.
* Key files that cannot be written and keyrings that refuse to store.

## Plan

Done: the ringer; manager and front ends; record store; SIP call and encryption;
SIP account and network; ModemManager, oFono and dummy providers and USSD; media;
application, plugins and SIP provider; contacts; and the proofs above. What is
left, in this order:

1. A SIP call inside an account: `CallsSipCall` and `CallsSipAccount` meet in
   `op->call_handle` and in `remove_calls()`, and are apart only because their
   states multiply.
2. The choice of an origin for a number of a country, with several modems.
