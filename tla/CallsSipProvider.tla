-------------------------- MODULE CallsSipProvider --------------------------
(***************************************************************************)
(* How the SIP provider (plugins/provider/sip/calls-sip-provider.c) and    *)
(* the account form (calls-sip-account-widget.c) keep the accounts: their  *)
(* data in a key file that is written as a whole, their passwords in the   *)
(* keyring, under host and user.                                           *)
(*                                                                         *)
(* The operators below are the bodies of the functions that change what is *)
(* stored; the list of accounts in memory is their argument.  Abstracted:  *)
(* what an account consists of, except whether it may call telephone       *)
(* numbers and the host and user its password is kept under; the order of  *)
(* accounts; direct mode, which has no form; a file that cannot be written *)
(* and a keyring that refuses to store.                                    *)
(***************************************************************************)
EXTENDS SequencesExt, FiniteSets, Naturals

CONSTANTS
  Account,     \* ids of accounts
  Key,         \* pairs of host and user
  Stored       \* bound: the contents of the file to begin with

VARIABLES
  file,        \* the accounts in sip-account.cfg
  ring,        \* keys with a password in the keyring
  keyOps,      \* how often the keyring was asked for what it has not done yet
  saves,       \* forms that were applied, and have yet to save the accounts
  overtaken,   \* history: ids of accounts whose password was being looked up
               \* when the file was last written
  contested    \* history: keys that were being cleared when passwords were
               \* last stored

storeVars == <<file, ring, keyOps, saves, overtaken, contested>>

AccountData == [id: Account, key: Key, tel: BOOLEAN]

KeyOp == [op: {"store", "clear"}, key: Key]

NoOps == [o \in KeyOp |-> 0]

Ids(accounts) == {a.id : a \in accounts}

\* What earlier runs of the program left.
StoreInit ==
  /\ file \in Stored
  /\ ring = {a.key : a \in file}
  /\ keyOps = NoOps /\ saves = 0 /\ overtaken = {} /\ contested = {}

-----------------------------------------------------------------------------
(* Reading. *)

\* constructed() and load_accounts(): the passwords of all accounts of the
\* file are looked up, and the data of each waits for its own.
LoadAccounts == file

\* on_origin_pw_looked_up() adds no account without a password.
PasswordFound(a) == a.key \in ring

-----------------------------------------------------------------------------
(* Writing. *)

\* origin_to_keyfile() also stores the password of each account it writes.
StoresOf(accounts, ops) ==
  [o \in KeyOp |-> ops[o] + (IF o.op = "store" THEN Cardinality({a \in accounts : a.key = o.key})
                                               ELSE 0)]

\* Mutant: only the passwords of accounts that are new or were edited are stored.
SaveChanged(accounts, lookups, ops) ==
  /\ file' = accounts
  /\ keyOps' = StoresOf(accounts \ file, ops)
  /\ overtaken' = Ids(lookups)
  /\ contested' = {k \in Key : ops[[op |-> "clear", key |-> k]] > 0}
  /\ UNCHANGED ring

\* save_accounts_to_disk(): the file then holds the accounts in memory, and
\* none of those whose password is still looked up, or was not found.
SaveAccounts(accounts, lookups, ops) ==
  /\ file' = accounts
  /\ keyOps' = StoresOf(accounts, ops)
  /\ overtaken' = Ids(lookups)
  /\ contested' = {k \in Key : ops[[op |-> "clear", key |-> k]] > 0}
  /\ UNCHANGED ring

\* add_origin() of an account that is to be stored.
StoreAdded(accounts, lookups) == SaveAccounts(accounts, lookups, keyOps) /\ UNCHANGED saves

\* origin_pw_delete_secret()
DeleteSecret(ops, k) ==
  [o \in KeyOp |-> ops[o] + (IF o = [op |-> "clear", key |-> k] THEN 1 ELSE 0)]

\* remove_origin(): the password goes, also from other accounts with the same
\* host and user, for which saving asks to store it again.
StoreRemoved(accounts, lookups, a) ==
  SaveAccounts(accounts, lookups, DeleteSecret(keyOps, a.key)) /\ UNCHANGED saves

\* on_apply_clicked() until it waits: set_credentials() has changed the account
\* in memory, and deinit_sip_account() runs the main loop.
StoreWaits == saves' = saves + 1 /\ UNCHANGED <<file, ring, keyOps, overtaken, contested>>

\* Mutant: the accounts were saved before one was changed, and not after.
StoreAppliedEarly(accounts, lookups) ==
  saves > 0 /\ saves' = saves - 1 /\ UNCHANGED <<file, ring, keyOps, overtaken, contested>>

\* on_apply_clicked() after that, for the accounts there are by now.  A password
\* kept under a former key stays there.
StoreApplied(accounts, lookups) ==
  saves > 0 /\ saves' = saves - 1 /\ SaveAccounts(accounts, lookups, keyOps)

\* secret_password_store() and secret_password_clear() are not waited for, and
\* their requests and answers cross: the keyring does any of them next.
RingServes ==
  /\ \E o \in KeyOp :
       /\ keyOps[o] > 0
       /\ ring' = IF o.op = "store" THEN ring \union {o.key} ELSE ring \ {o.key}
       /\ keyOps' = [keyOps EXCEPT ![o] = @ - 1]
  /\ UNCHANGED <<file, saves, overtaken, contested>>

\* The program ends.  What was not stored by then is lost.
StoreLeft ==
  /\ keyOps' = NoOps /\ saves' = 0 /\ overtaken' = {} /\ contested' = {}
  /\ UNCHANGED <<file, ring>>

-----------------------------------------------------------------------------
StoreTypeOK ==
  /\ file \subseteq AccountData
  /\ ring \subseteq Key
  /\ keyOps \in [KeyOp -> Nat] /\ saves \in Nat
  /\ overtaken \subseteq Account /\ contested \subseteq Key
=============================================================================
