---------------------------- MODULE CallsContacts ---------------------------
(***************************************************************************)
(* Contacts: the provider (src/calls-contacts-provider.c), the list of the *)
(* contacts box (src/calls-contacts-box.c), and the best match of one      *)
(* telephone number (src/calls-best-match.c) as a call shows its name.     *)
(*                                                                         *)
(* The address book (folks) reports changes; what is reported is handled   *)
(* one contact at a time, by idle jobs that take turns with everything     *)
(* else the main loop does.  Which job's turn it is, and in which order    *)
(* a job takes its contacts, is left open.  The number's view of the       *)
(* address book is folks' too: it says later what it found, and only if    *)
(* that is something else than before.                                     *)
(*                                                                         *)
(* A contact is the rank of its name; an object that left does not return. *)
(* Abstracted: the search, the favourites, avatars, and SIP addresses,     *)
(* which are not looked up.                                                *)
(***************************************************************************)
EXTENDS Naturals, FiniteSets

CONSTANTS
  Contact,      \* ranks of the contacts' names
  Country,      \* country codes a modem reports
  Matching,     \* which contacts' numbers are the number looked up, by country
  MaxReports    \* bound: how often the address book reports changes

ASSUME ContactsAssumption ==
  /\ Contact \subseteq Nat \ {0} /\ IsFiniteSet(Contact)
  /\ "" \in Country
  /\ Matching \in [Country -> SUBSET Contact]
  /\ MaxReports \in Nat

Nobody == 0

VARIABLES
  book,        \* the aggregator's individuals
  gone,        \* individuals that left it
  numbered,    \* individuals that have a telephone number
  reports,     \* history: number of changes so far
  toAdd,       \* left in jobs that call folks_add_contact()
  toRemove,    \* left in jobs that call folks_remove_contact()
  toShow,      \* left in the box's own job
  followed,    \* individuals whose notify::phone-numbers is connected
  box,         \* the contacts box exists
  listed,      \* its contacts_list, which is sorted: how often each is on it
  steady,      \* history: had a number whenever asked, since they were reported
  overtaken,   \* history: removed while another job was still to handle them
  country,     \* country-code of the settings and of the best match
  found,       \* individuals the best match's view has reported
  matched,     \* matched_individual
  shown,       \* the name the call's displays were last told
  replaced     \* history: the view is new and has reported nothing yet

providerVars == <<book, gone, numbered, reports, toAdd, toRemove, toShow, followed, box,
                  listed, steady, overtaken>>
matchVars    == <<country, found, matched, shown, replaced>>
contactsVars == <<providerVars, matchVars>>

-----------------------------------------------------------------------------
(* The provider. *)

Queued == toAdd \union toRemove \union toShow

\* contacts_provider_added() and contacts_provider_removed() of the box: the
\* former does not look whether the contact is there, the latter takes it off
\* as often as it is.
BoxAdds(i)    == listed' = IF box THEN [listed EXCEPT ![i] = @ + 1] ELSE listed
BoxRemoves(i) == listed' = [listed EXCEPT ![i] = 0]

\* folks_individuals_changed_cb(): the individuals that left and those that
\* came are queued in two jobs.
Changed ==
  /\ reports < MaxReports
  /\ \E left \in SUBSET book, came \in SUBSET (Contact \ (book \union gone)) :
       \E with \in SUBSET came :
         /\ left \union came # {}
         /\ book' = (book \ left) \union came
         /\ gone' = gone \union left
         /\ numbered' = numbered \union with
         /\ steady' = steady \union with
         /\ toRemove' = toRemove \union left
         /\ toAdd' = toAdd \union came
         /\ overtaken' = overtaken \union (left \intersect (toAdd \union toShow))
  /\ reports' = reports + 1
  /\ UNCHANGED <<toShow, followed, box, listed, matchVars>>

\* Mutant: the first contact a job meets without a number ends the job.
AddContactStops(i) ==
  /\ i \in toAdd
  /\ IF i \in numbered THEN toAdd' = toAdd \ {i} /\ followed' = followed \union {i} /\ BoxAdds(i)
     ELSE toAdd' = {} /\ UNCHANGED <<followed, listed>>
  /\ UNCHANGED <<book, gone, numbered, reports, toRemove, toShow, box, steady, overtaken, matchVars>>

\* do_on_idle() of folks_add_contact()
AddContact(i) ==
  /\ i \in toAdd
  /\ toAdd' = toAdd \ {i}
  /\ IF i \in numbered THEN followed' = followed \union {i} /\ BoxAdds(i)
     ELSE UNCHANGED <<followed, listed>>
  /\ UNCHANGED <<book, gone, numbered, reports, toRemove, toShow, box, steady, overtaken, matchVars>>

\* folks_remove_contact()
Dropped(i) == followed' = followed \ {i} /\ BoxRemoves(i)

\* do_on_idle() of folks_remove_contact()
RemoveContact(i) ==
  /\ i \in toRemove
  /\ toRemove' = toRemove \ {i}
  /\ Dropped(i)
  /\ UNCHANGED <<book, gone, numbered, reports, toAdd, toShow, box, steady, overtaken, matchVars>>

\* do_on_idle() of the box's own job
ShowContact(i) ==
  /\ i \in toShow
  /\ toShow' = toShow \ {i}
  /\ BoxAdds(i)
  /\ UNCHANGED <<book, gone, numbered, reports, toAdd, toRemove, followed, box, steady,
                 overtaken, matchVars>>

\* folks_individual_property_changed_cb(): a contact that is followed leaves
\* with its last number.  One that gets its first number later is not followed.
NumbersChange(i) ==
  /\ i \in book
  /\ reports < MaxReports
  /\ reports' = reports + 1
  /\ IF i \in numbered THEN numbered' = numbered \ {i} ELSE numbered' = numbered \union {i}
  /\ steady' = steady \ {i}
  /\ IF i \in followed /\ i \in numbered THEN Dropped(i) ELSE UNCHANGED <<followed, listed>>
  /\ UNCHANGED <<book, gone, toAdd, toRemove, toShow, box, overtaken, matchVars>>

\* calls_contacts_box_init(): the window is created when it is first asked for,
\* and the box takes what is there for itself.
OpenBox ==
  /\ ~box
  /\ box' = TRUE
  /\ toShow' = book
  /\ UNCHANGED <<book, gone, numbered, reports, toAdd, toRemove, followed, listed, steady,
                 overtaken, matchVars>>

-----------------------------------------------------------------------------
(* The best match of one number, and the call that shows it. *)

Matches == {i \in book \intersect numbered : i \in Matching[country]}

\* calls_best_match_get_name(); folks sorts what a view found by name.
First(s) == IF s = {} THEN Nobody ELSE CHOOSE i \in s : \A k \in s : i <= k

\* notify_name(), which has the data of the call notify its display-name.
NotifyName == shown' = matched'

\* Mutant: a match that was made is kept while there is another.
UpdateBestMatchKeeps ==
  IF matched # Nobody /\ found' # {} THEN UNCHANGED <<matched, shown>>
  ELSE matched' = First(found') /\ NotifyName

\* update_best_match()
UpdateBestMatch ==
  IF First(found') = matched THEN UNCHANGED <<matched, shown>>
  ELSE matched' = First(found') /\ NotifyName

\* "individuals-changed-detailed" of the view
ViewReports ==
  /\ found # Matches
  /\ found' = Matches
  /\ UpdateBestMatch
  /\ replaced' = FALSE
  /\ UNCHANGED <<providerVars, country>>

\* calls_best_match_set_phone_number(): a new view, which has found nobody yet;
\* the match that was made from the old one stays.
NewView ==
  /\ found' = {}
  /\ replaced' = TRUE
  /\ UNCHANGED <<matched, shown>>

\* update_country_code_cb() of the manager, which passes over an origin that has
\* none.  The setting is bound to every best match.
CountryChanges ==
  /\ \E c \in Country \ {"", country} : country' = c
  /\ NewView
  /\ UNCHANGED providerVars

-----------------------------------------------------------------------------
(* The provider is created with the address book not loaded; the number was *)
(* looked up, and its view found nobody.                                    *)
ProviderInit ==
  /\ book = {} /\ gone = {} /\ numbered = {} /\ reports = 0
  /\ toAdd = {} /\ toRemove = {} /\ toShow = {}
  /\ followed = {} /\ box = FALSE /\ listed = [i \in Contact |-> 0]
  /\ steady = {} /\ overtaken = {}

\* calls_contacts_provider_lookup_id(), which makes one best match of a number.
MatchInit ==
  /\ country = "" /\ found = {} /\ matched = Nobody /\ shown = Nobody /\ replaced = FALSE

ContactsInit == ProviderInit /\ MatchInit

ContactsNext ==
  \/ Changed
  \/ \E i \in Contact : AddContact(i) \/ RemoveContact(i) \/ ShowContact(i) \/ NumbersChange(i)
  \/ OpenBox
  \/ ViewReports
  \/ CountryChanges

ContactsSpec == ContactsInit /\ [][ContactsNext]_contactsVars

-----------------------------------------------------------------------------
ContactsTypeOK ==
  /\ book \subseteq Contact /\ gone \subseteq Contact \ book
  /\ numbered \subseteq Contact /\ followed \subseteq Contact
  /\ Queued \subseteq Contact
  /\ box \in BOOLEAN /\ replaced \in BOOLEAN
  /\ listed \in [Contact -> Nat]
  /\ country \in Country
  /\ found \subseteq Contact /\ {matched, shown} \subseteq Contact \union {Nobody}

\* Once the idle jobs are through, however their turns mixed with the changes
\* of the address book and the opening of the window: every contact that had a
\* number since it was reported is on the list, and one that left is not,
\* unless it left before the jobs that add it were through with it
\* (folks_individuals_changed_cb, contacts_provider_added, calls_contacts_box_init).
ContactsShown ==
  box /\ Queued = {} =>
    /\ \A i \in book \intersect steady : listed[i] > 0
    /\ \A i \in gone \ overtaken : listed[i] = 0

\* Once the view of the number has reported all it finds, the name its calls
\* show is the first of the contacts it found; and nobody's when it found
\* nobody and was not made anew (update_best_match, on_notify_name,
\* calls_best_match_set_phone_number).
NameIsKnown ==
  found = Matches /\ ~(replaced /\ found = {}) => shown = First(Matches)
=============================================================================
