------------------------------- MODULE KeyServer -------------------------------
(***************************************************************************)
(* The public keys and the key backups that the server keeps: PushPubKey,  *)
(* GetPubKeys and the warning of SetChanEncryptionMethod about members     *)
(* without a key (server/api.go, pubkey.go), the backup functions of       *)
(* privkey_backup.go and the show_backup command of plugin.go.             *)
(* Every request is a goroutine, and a step is one call of the plugin API; *)
(* no lock orders two requests.  A pushed key and its backup are named by  *)
(* the request that carries them.                                          *)
(***************************************************************************)
EXTENDS FiniteSets, Integers

CONSTANTS Request,   \* requests the server handles
          User,      \* users, all of them members of one channel
          Page,      \* those among its first MaxUsersPerTeam members
          Nil,       \* an absent value
          MaxReloads \* bound on the changes of the GPG key server setting

ASSUME NilAssumption == Nil \notin Request
ASSUME PageAssumption == Page \subseteq User
ASSUME BoundsAssumption == MaxReloads \in Nat

VARIABLES
  pubkey,    \* [User -> Request \cup {Nil}]: pubkey:<user> in the store
  backup,    \* [User -> Request \cup {Nil}]: backup_gpg:<user> in the store
  enabled,   \* GPGBackupEnabled: the GPGKeyServer setting is not empty
  reloads,   \* how often the setting changed
  deleted,   \* the users whose account is deactivated
  pc,        \* [Request -> Label]
  req,       \* [Request -> Call or NoCall]
  reply,     \* [Request -> {"pending", "ok", "error", "lost"}]
  todo,      \* [Request -> SUBSET User]: what the loop of a query has to visit
  answer,    \* [Request -> SUBSET (User \X (Request \cup {Nil}))]: query results
  local,     \* [Request -> Request \cup {Nil}]: the backup read back to be mailed
  mails,     \* the mails sent: <<request, user, content>>
  published, \* the requests whose newPubkey event was sent
  before,    \* history: [Request -> [User -> key]], the keys when it arrived
  clean      \* history: the pushes that saw the backups enabled and that no other
             \* push of the same user overlapped

storeVars == <<pubkey, backup>>
settingVars == <<enabled, reloads, deleted>>
queryVars == <<todo, answer>>
histVars == <<before, clean>>
vars == <<storeVars, settingVars, pc, req, reply, queryVars, local, mails,
          published, histVars>>

MaybeKey == Request \cup {Nil}
Call == [op : {"push"}, user : User, backup : BOOLEAN]
          \cup [op : {"show"}, user : User] \cup [op : {"get", "keyless"}]
NoCall == [op |-> "idle"]
Label == {"idle", "setkey", "publish", "enabled", "delete", "store", "user",
          "read", "mail", "list", "visit", "deleted", "show", "done"}

Init == /\ pubkey = [u \in User |-> Nil]
        /\ backup = [u \in User |-> Nil]
        /\ enabled \in BOOLEAN /\ reloads = 0
        /\ deleted \in SUBSET User
        /\ pc = [r \in Request |-> "idle"]
        /\ req = [r \in Request |-> NoCall]
        /\ reply = [r \in Request |-> "pending"]
        /\ todo = [r \in Request |-> {}]
        /\ answer = [r \in Request |-> {}]
        /\ local = [r \in Request |-> Nil]
        /\ mails = {}
        /\ published = {}
        /\ before = [r \in Request |-> [u \in User |-> Nil]]
        /\ clean = {}

Running == {r \in Request : pc[r] \notin {"idle", "done"}}
Goto(r, label) == pc' = [pc EXCEPT ![r] = label] /\ UNCHANGED reply
Finish(r, status) == /\ pc' = [pc EXCEPT ![r] = "done"]
                     /\ reply' = [reply EXCEPT ![r] = status]

\* The pushes of user u that run.
Pushing(u) == {r \in Running : req[r].op = "push" /\ req[r].user = u}

FirstLabel == [push |-> "setkey", get |-> "visit", keyless |-> "list", show |-> "show"]

\* A request with a valid body arrives; an invalid key or body gets a 400.
Arrive(r, call) ==
  /\ pc[r] = "idle"
  /\ req' = [req EXCEPT ![r] = call]
  /\ before' = IF call.op \in {"get", "keyless"} THEN [before EXCEPT ![r] = pubkey]
               ELSE before
  /\ clean' = IF call.op # "push" THEN clean
              ELSE IF Pushing(call.user) = {} THEN clean \cup {r}
              ELSE clean \ Pushing(call.user)
  /\ \/ Goto(r, FirstLabel[call.op])
     \/ call.op = "push" /\ Finish(r, "error")
  /\ todo' = [todo EXCEPT ![r] = IF call.op = "get" THEN User ELSE {}]
  /\ UNCHANGED <<storeVars, settingVars, answer, local, mails, published>>

------------------------------------------------------------------------------
\* PushPubKey.

\* Faults: the user's id is stored in place of the key; the event is forgotten.
SetUserPubKeyToUser(r) ==
  /\ pc[r] = "setkey"
  /\ pubkey' = [pubkey EXCEPT ![req[r].user] = req[r].user] /\ Goto(r, "publish")
  /\ UNCHANGED <<backup, settingVars, req, queryVars, local, mails, published, histVars>>
SetUserPubKeySilently(r) ==
  /\ pc[r] = "setkey"
  /\ pubkey' = [pubkey EXCEPT ![req[r].user] = r] /\ Goto(r, "enabled")
  /\ UNCHANGED <<backup, settingVars, req, queryVars, local, mails, published, histVars>>

\* SetUserPubKey: KVSet, or a 500.
SetUserPubKey(r) ==
  /\ pc[r] = "setkey"
  /\ \/ pubkey' = [pubkey EXCEPT ![req[r].user] = r] /\ Goto(r, "publish")
     \/ UNCHANGED pubkey /\ Finish(r, "error")
  /\ UNCHANGED <<backup, settingVars, req, queryVars, local, mails, published, histVars>>

\* PublishWebSocketEvent("newPubkey") to everybody but the user.
Publish(r) ==
  /\ pc[r] = "publish"
  /\ published' = published \cup {r}
  /\ Goto(r, "enabled")
  /\ UNCHANGED <<storeVars, settingVars, req, queryVars, local, mails, histVars>>

\* Fault: a push without a backup leaves the old one, and mails it.
CheckEnabledNoDelete(r) ==
  /\ pc[r] = "enabled"
  /\ \/ ~enabled /\ Finish(r, "ok") /\ clean' = clean \ {r}
     \/ /\ enabled /\ UNCHANGED clean
        /\ Goto(r, IF req[r].backup THEN "store" ELSE "user")
  /\ UNCHANGED <<storeVars, settingVars, req, queryVars, local, mails, published, before>>

\* GPGBackupEnabled: without a key server the backups are left as they are.
CheckEnabled(r) ==
  /\ pc[r] = "enabled"
  /\ \/ ~enabled /\ Finish(r, "ok") /\ clean' = clean \ {r}
     \/ /\ enabled /\ UNCHANGED clean
        /\ Goto(r, IF req[r].backup THEN "store" ELSE "delete")
  /\ UNCHANGED <<storeVars, settingVars, req, queryVars, local, mails, published, before>>

\* DeleteGPGBackup, for a push without a backup.
DeleteGPGBackup(r) ==
  /\ pc[r] = "delete"
  /\ \/ backup' = [backup EXCEPT ![req[r].user] = Nil] /\ Finish(r, "ok")
     \/ UNCHANGED backup /\ Finish(r, "error")
  /\ UNCHANGED <<pubkey, settingVars, req, queryVars, local, mails, published, histVars>>

\* StoreGPGBackup.
StoreGPGBackup(r) ==
  /\ pc[r] = "store"
  /\ \/ backup' = [backup EXCEPT ![req[r].user] = r] /\ Goto(r, "user")
     \/ UNCHANGED backup /\ Finish(r, "error")
  /\ UNCHANGED <<pubkey, settingVars, req, queryVars, local, mails, published, histVars>>

\* SendGPGBackup looks up the user's mail address ...
GetMailAddress(r) ==
  /\ pc[r] = "user"
  /\ Goto(r, "read") \/ Finish(r, "error")
  /\ UNCHANGED <<storeVars, settingVars, req, queryVars, local, mails, published, histVars>>

\* ... reads the stored backup, where an absent one is the empty string ...
GetGPGBackup(r) ==
  /\ pc[r] = "read"
  /\ \/ local' = [local EXCEPT ![r] = backup[req[r].user]] /\ Goto(r, "mail")
     \/ UNCHANGED local /\ Finish(r, "error")
  /\ UNCHANGED <<storeVars, settingVars, req, queryVars, mails, published, histVars>>

\* ... and mails it.
SendMail(r) ==
  /\ pc[r] = "mail"
  /\ \/ mails' = mails \cup {<<r, req[r].user, local[r]>>} /\ Finish(r, "ok")
     \/ UNCHANGED mails /\ Finish(r, "error")
  /\ UNCHANGED <<storeVars, settingVars, req, queryVars, local, published, histVars>>

------------------------------------------------------------------------------
\* The queries.

\* GetChannelMembers, at the start of GetChannelMembersWithoutKeys, returns one page.
ListMembers(r) ==
  /\ pc[r] = "list"
  /\ \/ todo' = [todo EXCEPT ![r] = Page] /\ Goto(r, "visit")
     \/ UNCHANGED todo /\ Finish(r, "error")
  /\ UNCHANGED <<storeVars, settingVars, req, answer, local, mails, published, histVars>>

\* Fault: a user whose key cannot be read is left out of the answer.
GetUserPubKeySkipping(r, u) ==
  /\ pc[r] = "visit" /\ req[r].op = "get" /\ u \in todo[r]
  /\ answer' \in {answer, [answer EXCEPT ![r] = @ \cup {<<u, pubkey[u]>>}]}
  /\ todo' = [todo EXCEPT ![r] = @ \ {u}]
  /\ UNCHANGED <<storeVars, settingVars, pc, req, reply, local, mails, published, histVars>>

\* GetUserPubKey of one user, in the loop of GetPubKeys.
GetUserPubKey(r, u) ==
  /\ pc[r] = "visit" /\ req[r].op = "get" /\ u \in todo[r]
  /\ \/ /\ answer' = [answer EXCEPT ![r] = @ \cup {<<u, pubkey[u]>>}]
        /\ todo' = [todo EXCEPT ![r] = @ \ {u}]
        /\ UNCHANGED <<pc, reply>>
     \/ Finish(r, "error") /\ UNCHANGED queryVars
  /\ UNCHANGED <<storeVars, settingVars, req, local, mails, published, histVars>>

\* Fault: deactivated accounts are not told apart.
CheckAnyMember(r, u) ==
  /\ pc[r] = "visit" /\ req[r].op = "keyless" /\ u \in todo[r]
  /\ answer' = [answer EXCEPT ![r] = IF pubkey[u] # Nil THEN @ ELSE @ \cup {<<u, Nil>>}]
  /\ todo' = [todo EXCEPT ![r] = @ \ {u}]
  /\ UNCHANGED <<storeVars, settingVars, pc, req, reply, local, mails, published, histVars>>

\* HasUserPubKey of one member; GetUser tells a deactivated account apart.
CheckMember(r, u) ==
  /\ pc[r] = "visit" /\ req[r].op = "keyless" /\ u \in todo[r]
  /\ \/ /\ answer' = [answer EXCEPT ![r] = IF pubkey[u] # Nil \/ u \in deleted THEN @
                                           ELSE @ \cup {<<u, Nil>>}]
        /\ todo' = [todo EXCEPT ![r] = @ \ {u}]
        /\ UNCHANGED <<pc, reply>>
     \/ Finish(r, "error") /\ UNCHANGED queryVars
  /\ UNCHANGED <<storeVars, settingVars, req, local, mails, published, histVars>>

\* The loop ends and the answer is sent.
EndLoop(r) ==
  /\ pc[r] = "visit" /\ todo[r] = {}
  /\ Finish(r, "ok")
  /\ UNCHANGED <<storeVars, settingVars, req, queryVars, local, mails, published, histVars>>

\* ShowGPGBackup: the stored backup, if any, whatever the setting says.
ShowGPGBackup(r) ==
  /\ pc[r] = "show"
  /\ \/ /\ backup[req[r].user] # Nil
        /\ answer' = [answer EXCEPT ![r] = {<<req[r].user, backup[req[r].user]>>}]
        /\ Finish(r, "ok")
     \/ UNCHANGED answer /\ Finish(r, "error")
  /\ UNCHANGED <<storeVars, settingVars, req, todo, local, mails, published, histVars>>

------------------------------------------------------------------------------

\* An administrator sets or empties the GPG key server.
Reconfigure ==
  /\ reloads < MaxReloads
  /\ reloads' = reloads + 1
  /\ enabled' = ~enabled
  /\ UNCHANGED <<storeVars, deleted, pc, req, reply, queryVars, local, mails,
                 published, histVars>>

\* The plugin process stops: its requests are cut off where they are.
Restart ==
  /\ Running # {}
  /\ pc' = [r \in Request |-> IF r \in Running THEN "done" ELSE pc[r]]
  /\ reply' = [r \in Request |-> IF r \in Running THEN "lost" ELSE reply[r]]
  /\ UNCHANGED <<storeVars, settingVars, req, queryVars, local, mails, published, histVars>>

Step(r) == \/ SetUserPubKey(r) \/ Publish(r) \/ CheckEnabled(r)
           \/ DeleteGPGBackup(r) \/ StoreGPGBackup(r)
           \/ GetMailAddress(r) \/ GetGPGBackup(r) \/ SendMail(r)
           \/ ListMembers(r) \/ EndLoop(r) \/ ShowGPGBackup(r)
           \/ \E u \in User : GetUserPubKey(r, u) \/ CheckMember(r, u)

AllServed == /\ \A r \in Request : pc[r] = "done"
             /\ UNCHANGED vars

Next == \/ \E r \in Request : Step(r) \/ \E call \in Call : Arrive(r, call)
        \/ Reconfigure \/ Restart \/ AllServed

Spec == Init /\ [][Next]_vars

------------------------------------------------------------------------------

\* Every variable has its type.
TypeOK == /\ pubkey \in [User -> MaybeKey] /\ backup \in [User -> MaybeKey]
          /\ enabled \in BOOLEAN /\ reloads \in 0..MaxReloads /\ deleted \subseteq User
          /\ pc \in [Request -> Label]
          /\ req \in [Request -> Call \cup {NoCall}]
          /\ reply \in [Request -> {"pending", "ok", "error", "lost"}]
          /\ todo \in [Request -> SUBSET User]
          /\ answer \in [Request -> SUBSET (User \X MaybeKey)]
          /\ local \in [Request -> MaybeKey]
          /\ mails \subseteq Request \X User \X MaybeKey
          /\ published \subseteq Request
          /\ before \in [Request -> [User -> MaybeKey]]
          /\ clean \subseteq Request

\* After a push that the server reported as done, that saw the backups enabled and
\* that no other push of the same user overlapped, the backup shown to the user
\* is the one of the registered key, or none when the push carried none; failed
\* storage calls, restarts, later settings and other users do not break the pair.
BackupMatchesKey ==
  \A u \in User :
    /\ Pushing(u) = {}
    /\ pubkey[u] \in clean /\ reply[pubkey[u]] = "ok"
    => backup[u] = IF req[pubkey[u]].backup THEN pubkey[u] ELSE Nil

\* A backup that is stored, shown or mailed belongs to a key of that user that
\* was announced to the other clients before: no order of the pushes, failures or
\* restarts hands out the backup of a key that nobody could have heard of.
BackupOfAnnouncedKey ==
  LET handedOut == {<<u, backup[u]>> : u \in User}
                   \cup {<<m[2], m[3]>> : m \in mails}
                   \cup UNION {answer[r] : r \in {q \in Request : req[q].op = "show"}}
  IN  \A b \in handedOut : b[2] # Nil => b[2] \in published /\ req[b[2]].user = b[1]

\* The announcement of encryption warns about exactly the active members without a key,
\* among those on the page that was asked for: nobody who had one when the request came,
\* and everybody who still has none when it is answered, however the pushes interleave
\* with its loop.
KeylessWarningIsRight ==
  \A r \in Request : req[r].op = "keyless" /\ reply[r] = "ok" =>
    \A u \in User :
      /\ <<u, Nil>> \in answer[r] => before[r][u] = Nil /\ u \notin deleted
      /\ u \in Page /\ pubkey[u] = Nil /\ u \notin deleted => <<u, Nil>> \in answer[r]

\* A reply of GetPubKeys is complete, and what it says of a user is the key, or the
\* absence of one, that was registered when the request came, or else a key, after the
\* registered one has changed: no absence is made up, and no change before its time.
PubKeysReplyIsFresh ==
  \A r \in Request : req[r].op = "get" /\ reply[r] = "ok" =>
    \A u \in User : \E k \in MaybeKey :
      /\ <<u, k>> \in answer[r]
      /\ k # before[r][u] => k # Nil /\ pubkey[u] # before[r][u]

\* The mail of a push that no other push of the same user overlapped carries the
\* backup of that push, and never the one of an earlier key or none, whatever was
\* stored, deleted, cut off or reconfigured before.
MailedBackupIsOwn == \A m \in mails : m[1] \in clean => m[3] = m[1]
==============================================================================
