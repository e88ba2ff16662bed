----------------------------- MODULE UserAccess -----------------------------
(***************************************************************************)
(* Who may call the API: the accounts an administrator creates, closes and *)
(* restores (core/users/users.service.ts), the guard that turns a Firebase *)
(* token into a user and keeps the answer five minutes                     *)
(* (core/auth/firebase-auth.guard.ts), and the record of the devices they  *)
(* use (core/auth/user-device.service.ts).                                 *)
(*                                                                         *)
(* A request waits between reading the account and caching it, a change of *)
(* access between writing the account and purging the cache; both are      *)
(* calls of two or more steps.                                             *)
(*                                                                         *)
(* Left out: names, e-mails (an account is its e-mail and its Firebase     *)
(* uid), the login history, the lists.                                     *)
(***************************************************************************)
EXTENDS Callers, FiniteSets

CONSTANTS Accounts,       \* people who may be given an account
          Legacy,         \* those whose account predates Firebase: no uid yet
          Fingerprints    \* devices, as their browser fingerprint

VARIABLES account,      \* core.users
          firebase,     \* the account at Firebase (external)
          context,      \* userCache of the guard: accounts whose context it keeps
          device,       \* active rows of user_devices, <<account, fingerprint>>
          reported      \* shared devices notifyHrSharedDevice was called for, <<account, other
                        \* account, fingerprint, whether human resources heard of it>>

accessVars == <<account, firebase, context, device, reported>>

AccountRow == [exists: BOOLEAN, active: BOOLEAN, deleted: BOOLEAN, linked: BOOLEAN]

\* what is left to do: write the new account, close the door at Firebase and purge,
\* answer the request, look for the owners of the device, insert it
AccessCall ==
  {Idle}
  \cup [at: {"insert"}, who: Accounts]
  \cup [at: {"door"}, who: Accounts, open: BOOLEAN]
  \cup [at: {"answer", "owners"}, who: Accounts, print: Fingerprints]
  \cup [at: {"register"}, who: Accounts, print: Fingerprints, others: SUBSET Accounts]

AccessTypeOK ==
  /\ account \in [Accounts -> AccountRow]
  /\ firebase \in [Accounts -> {"none", "enabled", "disabled"}]
  /\ context \in SUBSET Accounts
  /\ device \in SUBSET (Accounts \X Fingerprints)
  /\ reported \in SUBSET (Accounts \X Accounts \X Fingerprints \X BOOLEAN)
  /\ focus = "access" => call \in [Clients -> AccessCall]

AccessInit ==
  /\ account = [u \in Accounts |-> [exists |-> u \in Legacy, active |-> u \in Legacy,
                                    deleted |-> FALSE, linked |-> FALSE]]
  /\ firebase = [u \in Accounts |-> IF u \in Legacy THEN "enabled" ELSE "none"]
  /\ context = {}
  /\ device = {}
  /\ reported = {}

-----------------------------------------------------------------------------
(* UsersService *)

\* setFirebaseDisabled: best effort, and only for a linked account
SetFirebase(u, open) ==
  \/ /\ account[u].linked
     /\ firebase' = [firebase EXCEPT ![u] = IF open THEN "enabled" ELSE "disabled"]
  \/ UNCHANGED firebase

\* softDelete, restore, and update with isActive: deleted_at follows is_active
BeginSetActive(c, u, open) ==
  /\ MayStart(c, "access")
  /\ account[u].exists
  /\ account' = [account EXCEPT ![u].active = open, ![u].deleted = ~open]
  /\ Goto(c, [at |-> "door", who |-> u, open |-> open])
  /\ UNCHANGED <<firebase, context, device, reported>>

\* Firebase, then the event user.access.changed
FinishSetActive(c) ==
  /\ call[c].at = "door"
  /\ SetFirebase(call[c].who, call[c].open)
  /\ context' = IF account[call[c].who].linked THEN context \ {call[c].who} ELSE context
  /\ Return(c)
  /\ UNCHANGED <<account, device, reported>>

\* bulkActionForTenant: one UPDATE, nothing else; "deactivate" leaves deleted_at alone
BulkAction(us, open, stamp) ==
  /\ MayRun("access")
  /\ open => stamp
  /\ account' = [u \in Accounts |->
       IF u \in us /\ account[u].exists
       THEN [account[u] EXCEPT !.active = open, !.deleted = IF stamp THEN ~open ELSE @]
       ELSE account[u]]
  /\ UNCHANGED <<firebase, context, device, reported, call>>

Closed(u) == account[u].exists /\ (account[u].deleted \/ ~account[u].active)

\* createForTenant: a closed account is opened again, otherwise Firebase comes first
BeginCreateAccount(c, u) ==
  /\ MayStart(c, "access")
  /\ IF Closed(u)
     THEN /\ account' = [account EXCEPT ![u].active = TRUE, ![u].deleted = FALSE]
          /\ Goto(c, [at |-> "door", who |-> u, open |-> TRUE])
          /\ UNCHANGED firebase
     ELSE /\ firebase' = [firebase EXCEPT ![u] = "enabled"]
          /\ Goto(c, [at |-> "insert", who |-> u])
          /\ UNCHANGED account
  /\ UNCHANGED <<context, device, reported>>

\* the unique index on the Firebase uid refuses a second row
InsertAccount(c) ==
  /\ call[c].at = "insert"
  /\ account' = IF account[call[c].who].exists THEN account
                ELSE [account EXCEPT ![call[c].who] =
                        [exists |-> TRUE, active |-> TRUE, deleted |-> FALSE, linked |-> TRUE]]
  /\ Return(c)
  /\ UNCHANGED <<firebase, context, device, reported>>

-----------------------------------------------------------------------------
(* FirebaseAuthGuard.canActivate, then checkDevice *)

\* Is u let in on what the guard knows now, without reading the account?
LetInFromCache(u) == u \in context

\* an account known by its e-mail only is linked to the uid of the token
BeginRequest(c, u, f) ==
  /\ MayStart(c, "access")
  /\ firebase[u] # "none"
  /\ ~LetInFromCache(u)
  /\ account[u].exists
  /\ account' = [account EXCEPT ![u].linked = TRUE]
  /\ IF account[u].active
     THEN Goto(c, [at |-> "answer", who |-> u, print |-> f])
     ELSE UNCHANGED call
  /\ UNCHANGED <<firebase, context, device, reported>>

\* the context is kept; checkDevice runs on after the answer
AnswerRequest(c) ==
  /\ call[c].at = "answer"
  /\ context' = context \cup {call[c].who}
  /\ Goto(c, [at |-> "owners", who |-> call[c].who, print |-> call[c].print])
  /\ UNCHANGED <<account, firebase, device, reported>>

\* (mutant) the other owners of a device are not looked for
NoOwners(u, f) == {}

\* the other accounts with an active row for the device
OtherOwners(u, f) == {v \in Accounts \ {u}: <<v, f>> \in device}

FindOwners(c) ==
  /\ call[c].at = "owners"
  /\ IF <<call[c].who, call[c].print>> \in device
     THEN Return(c)
     ELSE Goto(c, [at |-> "register", who |-> call[c].who, print |-> call[c].print,
                   others |-> OtherOwners(call[c].who, call[c].print)])
  /\ UNCHANGED accessVars

\* notifyHrSharedDevice is best effort: without an administrator of human resources or an
\* organization it returns, and checkDevice swallows its errors; the row is kept, so that
\* the next request finds the device "known" and the report is never made again
SharedBy(u, others, f, heard) == {<<u, v, f, heard>>: v \in others}

\* the partial unique index makes a second insertion fail: "known", nobody is told
RegisterDevice(c, heard) ==
  /\ call[c].at = "register"
  /\ LET u == call[c].who
         f == call[c].print
     IN IF <<u, f>> \in device
        THEN UNCHANGED <<device, reported>>
        ELSE /\ device' = device \cup {<<u, f>>}
             /\ reported' = reported \cup SharedBy(u, call[c].others, f, heard)
  /\ Return(c)
  /\ UNCHANGED <<account, firebase, context>>

RevokeDevice(u, f) ==
  /\ MayRun("access")
  /\ <<u, f>> \in device
  /\ device' = device \ {<<u, f>>}
  /\ UNCHANGED <<account, firebase, context, reported, call>>

\* userCacheTtlMs is over
ExpireContext(u) ==
  /\ focus = "access"
  /\ u \in context
  /\ context' = context \ {u}
  /\ UNCHANGED <<account, firebase, device, reported, call>>

-----------------------------------------------------------------------------
AccessNext ==
  \/ \E c \in Clients:
       \/ \E u \in Accounts, open \in BOOLEAN: BeginSetActive(c, u, open)
       \/ \E u \in Accounts: BeginCreateAccount(c, u)
       \/ \E u \in Accounts, f \in Fingerprints: BeginRequest(c, u, f)
       \/ FinishSetActive(c) \/ InsertAccount(c)
       \/ AnswerRequest(c) \/ FindOwners(c)
       \/ \E heard \in BOOLEAN: RegisterDevice(c, heard)
  \/ \E us \in SUBSET Accounts \ {{}}, open, stamp \in BOOLEAN: BulkAction(us, open, stamp)
  \/ \E u \in Accounts, f \in Fingerprints: RevokeDevice(u, f)
  \/ \E u \in Accounts: ExpireContext(u)

-----------------------------------------------------------------------------
(* Properties *)

\* Was a report of the two accounts made, with either as the newcomer, heard or not?
Reported(u, v, f) ==
  \E heard \in BOOLEAN: <<u, v, f, heard>> \in reported \/ <<v, u, f, heard>> \in reported

\* One call after the other, when two accounts hold the same device, whichever came first
\* and whatever was revoked between, the second did not register it unnoticed: checkDevice
\* found the first and called notifyHrSharedDevice for the pair, whose one report may have
\* failed (user-device.service.ts:74-113).
SharedDeviceNoticed ==
  Quiet => \A d, e \in device: d[1] # e[1] /\ d[2] = e[2] => Reported(d[1], e[1], d[2])
=============================================================================
