---------------------------- MODULE KeyServerProofs ----------------------------
(***************************************************************************)
(* What KeyServer guarantees for every set of requests and users: its      *)
(* types, what becomes of a key's backup, and what the queries answer.     *)
(***************************************************************************)
EXTENDS KeyServer, TLAPS

PushLabel == {"setkey", "publish", "enabled", "delete", "store", "user", "read", "mail"}

\* What the label of a request says of its parameters and of its reply.
CallInv ==
  \A r \in Request :
    /\ pc[r] = "idle" <=> req[r] = NoCall
    /\ pc[r] \in PushLabel => req[r].op = "push"
    /\ pc[r] = "show" => req[r].op = "show"
    /\ pc[r] = "list" => req[r].op = "keyless"
    /\ pc[r] = "visit" => req[r].op \in {"get", "keyless"}
    /\ pc[r] = "store" => req[r].backup
    /\ pc[r] = "delete" => ~req[r].backup
    /\ reply[r] # "pending" => pc[r] = "done"

\* A key that is not stored yet is nowhere, and a stored key is of the user who
\* pushed it.
KeyInv ==
  /\ \A r \in Request : pc[r] \in {"idle", "setkey"} =>
       \A u \in User : pubkey[u] # r /\ \A q \in Request : before[q][u] # r
  /\ \A u \in User : pubkey[u] # Nil =>
       req[pubkey[u]].op = "push" /\ req[pubkey[u]].user = u

\* Key k was announced and is of user u.
AnnouncedOf(k, u) == k \in published /\ req[k].op = "push" /\ req[k].user = u

\* Past the announcement a push is published, and every backup in the store or read
\* back from it is of a published push of the user it is kept for.
AnnouncedInv ==
  /\ \A r \in Request :
       pc[r] \in {"enabled", "delete", "store", "user", "read", "mail"} => r \in published
  /\ \A r \in published : pc[r] # "idle"
  /\ \A u \in User : backup[u] # Nil => AnnouncedOf(backup[u], u)
  /\ \A r \in Request : local[r] # Nil =>
       req[r].op = "push" /\ AnnouncedOf(local[r], req[r].user)

\* So is every backup that was mailed or shown.
HandedInv ==
  /\ \A r, k \in Request, u \in User : <<r, u, k>> \in mails => AnnouncedOf(k, u)
  /\ \A r, k \in Request, u \in User :
       req[r].op = "show" /\ <<u, k>> \in answer[r] => AnnouncedOf(k, u)

\* A query starts with an empty answer and ends with nobody left to visit.
EmptyAtStart == \A r \in Request : pc[r] \in {"idle", "list"} => answer[r] = {}
NobodyLeft ==
  \A r \in Request : req[r].op \in {"get", "keyless"} /\ reply[r] = "ok" => todo[r] = {}

\* A user without a key now had none when the query came.
KeylessBefore ==
  \A r \in Request : req[r].op \in {"get", "keyless"} =>
    \A u \in User : pubkey[u] = Nil => before[r][u] = Nil

\* GetPubKeys has noted a key for every user it visited, none of them outdated.
KeysFresh ==
  \A r \in Request : req[r].op = "get" =>
    \A u \in User, k \in MaybeKey :
      <<u, k>> \in answer[r] /\ k # before[r][u] => k # Nil /\ pubkey[u] # before[r][u]
KeysNoted ==
  \A r \in Request : req[r].op = "get" /\ (pc[r] = "visit" \/ reply[r] = "ok") =>
    \A u \in User \ todo[r] : \E k \in MaybeKey : <<u, k>> \in answer[r]

\* GetChannelMembersWithoutKeys has noted nobody who had a key, and every active
\* user of the page it visited who has none.
KeylessRight ==
  \A r \in Request : req[r].op = "keyless" =>
    \A u \in User : <<u, Nil>> \in answer[r] => before[r][u] = Nil /\ u \notin deleted
KeylessNoted ==
  \A r \in Request : req[r].op = "keyless" /\ (pc[r] = "visit" \/ reply[r] = "ok") =>
    \A u \in Page \ todo[r] :
      pubkey[u] = Nil /\ u \notin deleted => <<u, Nil>> \in answer[r]

QueryInv == /\ EmptyAtStart /\ NobodyLeft /\ KeylessBefore
            /\ KeysFresh /\ KeysNoted
            /\ KeylessRight /\ KeylessNoted

\* A clean push is alone as long as it runs, and the backup it stored and read
\* back stays its own.
CleanPush == \A r \in clean : req[r].op = "push"
CleanAlone == \A r \in clean \cap Running : \A q \in Pushing(req[r].user) : q = r
CleanStored ==
  \A r \in clean : pc[r] \in {"user", "read", "mail"} =>
    req[r].backup /\ backup[req[r].user] = r
CleanRead == \A r \in clean : pc[r] = "mail" => local[r] = r

\* While the key of a clean push is registered, no other push of the user has come
\* as far as the store, and once the push is done the backup is its own.
PairEarly ==
  \A r \in clean, u \in User : pubkey[u] = r =>
    \A q \in Pushing(u) : q = r \/ pc[q] = "setkey"
PairKept ==
  \A r \in clean, u \in User : pubkey[u] = r /\ reply[r] = "ok" =>
    backup[u] = IF req[r].backup THEN r ELSE Nil

\* A mail is sent by a push that ends with it, and a clean one mails its own backup.
MailOwn ==
  \A r \in Request, u \in User, k \in MaybeKey : <<r, u, k>> \in mails =>
    pc[r] = "done" /\ (r \in clean => k = r)

CleanInv == /\ CleanPush /\ CleanAlone /\ CleanStored /\ CleanRead
            /\ PairEarly /\ PairKept
            /\ MailOwn

\* The inductive invariant.
IInv == /\ TypeOK
        /\ CallInv
        /\ KeyInv
        /\ AnnouncedInv
        /\ HandedInv
        /\ QueryInv
        /\ CleanInv

\* The parameters of a request have their types.
LEMMA CallFields ==
  ASSUME NEW x \in Call
  PROVE  /\ x # NoCall
         /\ x.op \in {"push", "show", "get", "keyless"}
         /\ x.op \in {"push", "show"} => x.user \in User
         /\ x.op = "push" => x.backup \in BOOLEAN
BY DEF Call, NoCall

\* Every request beyond "idle" has parameters of the right types.
LEMMA Arrived ==
  ASSUME TypeOK, CallInv, NEW r \in Request, pc[r] # "idle"
  PROVE  /\ req[r] \in Call
         /\ req[r].op \in {"push", "show", "get", "keyless"}
         /\ req[r].op \in {"push", "show"} => req[r].user \in User
         /\ req[r].op = "push" => req[r].backup \in BOOLEAN
BY CallFields DEF TypeOK, CallInv

\* A request that takes a step has parameters of the right types.
LEMMA StepCall ==
  ASSUME TypeOK, CallInv, NEW r \in Request, Step(r)
  PROVE  /\ req[r].op \in {"push", "show"} => req[r].user \in User
         /\ pc[r] \in PushLabel => req[r].op = "push"
<1>1. pc[r] # "idle"
  BY DEF Step, SetUserPubKey, Publish, CheckEnabled, DeleteGPGBackup, StoreGPGBackup,
         GetMailAddress, GetGPGBackup, SendMail, ListMembers, EndLoop, ShowGPGBackup,
         GetUserPubKey, CheckMember
<1> QED BY <1>1, Arrived DEF CallInv

\* The initial states satisfy the inductive invariant.
LEMMA InitInv == Init => IInv
<1> SUFFICES ASSUME Init PROVE IInv
  OBVIOUS
<1> USE NilAssumption DEF Init
<1>1. TypeOK
  BY BoundsAssumption DEF TypeOK, MaybeKey, Label
<1>2. CallInv /\ KeyInv /\ AnnouncedInv /\ HandedInv
  BY DEF CallInv, KeyInv, AnnouncedInv, HandedInv, PushLabel, NoCall
<1>3. QueryInv /\ CleanInv
  BY DEF QueryInv, EmptyAtStart, NobodyLeft, KeylessBefore, KeysFresh, KeysNoted,
         KeylessRight, KeylessNoted, CleanInv, CleanPush, CleanAlone,
         CleanStored, CleanRead, PairEarly, PairKept, MailOwn, NoCall
<1> QED BY <1>1, <1>2, <1>3 DEF IInv

\* A step keeps the types.
LEMMA TypeStep ==
  ASSUME IInv, [Next]_vars
  PROVE  TypeOK'
<1> USE DEF IInv, TypeOK, CallInv, PushLabel, MaybeKey, Label, storeVars, settingVars, queryVars, histVars
<1>1. ASSUME NEW r \in Request, NEW call \in Call, Arrive(r, call)
      PROVE  TypeOK'
  <2>1. todo' \in [Request -> SUBSET User]
    BY <1>1 DEF Arrive
  <2>2. pc' \in [Request -> Label]
    <3>1. call.op \in {"push", "show", "get", "keyless"}
      BY CallFields
    <3>2. FirstLabel[call.op] \in Label
      BY <3>1 DEF FirstLabel
    <3>3. Goto(r, FirstLabel[call.op]) \/ Finish(r, "error")
      BY <1>1 DEF Arrive
    <3> QED BY <3>2, <3>3 DEF Goto, Finish
  <2>3. before' \in [Request -> [User -> MaybeKey]] /\ clean' \subseteq Request
    BY <1>1 DEF Arrive
  <2>4. reply' \in [Request -> {"pending", "ok", "error", "lost"}]
    BY <1>1 DEF Arrive, Goto, Finish
  <2>5. req' \in [Request -> Call \cup {NoCall}]
    BY <1>1 DEF Arrive
  <2> QED BY <1>1, <2>1, <2>2, <2>3, <2>4, <2>5 DEF Arrive
<1>2. ASSUME NEW r \in Request, Step(r)
      PROVE  TypeOK'
  <2>0. /\ req[r].op \in {"push", "show"} => req[r].user \in User
        /\ pc[r] \in PushLabel => req[r].op = "push"
    BY <1>2, StepCall
  <2>1. CASE SetUserPubKey(r)
    BY <2>1 DEF SetUserPubKey, Goto, Finish
  <2>2. CASE Publish(r)
    BY <2>2 DEF Publish, Goto, Finish
  <2>3. CASE CheckEnabled(r)
    BY <2>3 DEF CheckEnabled, Goto, Finish
  <2>4. CASE DeleteGPGBackup(r)
    BY <2>4 DEF DeleteGPGBackup, Goto, Finish
  <2>5. CASE StoreGPGBackup(r)
    BY <2>5 DEF StoreGPGBackup, Goto, Finish
  <2>6. CASE GetMailAddress(r)
    BY <2>6 DEF GetMailAddress, Goto, Finish
  <2>7. CASE GetGPGBackup(r)
    <3>1. req[r].user \in User
      BY <2>7, <2>0 DEF GetGPGBackup, PushLabel
    <3>2. local' \in [Request -> MaybeKey]
      BY <2>7, <3>1 DEF GetGPGBackup
    <3> QED BY <2>7, <3>2 DEF GetGPGBackup, Goto, Finish
  <2>8. CASE SendMail(r)
    <3>1. <<r, req[r].user, local[r]>> \in Request \X User \X MaybeKey
      BY <2>8, <2>0 DEF SendMail, PushLabel
    <3>2. mails' \subseteq Request \X User \X MaybeKey
      BY <2>8, <3>1 DEF SendMail
    <3> QED BY <2>8, <3>2 DEF SendMail, Goto, Finish
  <2>9. CASE ListMembers(r)
    BY <2>9, PageAssumption DEF ListMembers, Goto, Finish
  <2>10. CASE EndLoop(r)
    BY <2>10 DEF EndLoop, Goto, Finish
  <2>11. CASE ShowGPGBackup(r)
    <3>1. <<req[r].user, backup[req[r].user]>> \in User \X MaybeKey
      BY <2>11, <2>0 DEF ShowGPGBackup, PushLabel
    <3>2. answer' \in [Request -> SUBSET (User \X MaybeKey)]
      BY <2>11, <3>1 DEF ShowGPGBackup
    <3> QED BY <2>11, <3>2 DEF ShowGPGBackup, Finish
  <2>12. ASSUME NEW u \in User, GetUserPubKey(r, u)
          PROVE  TypeOK'
    <3>1. CASE Finish(r, "error") /\ UNCHANGED queryVars
      BY <2>12, <3>1 DEF GetUserPubKey, Finish
    <3>2. CASE /\ answer' = [answer EXCEPT ![r] = @ \cup {<<u, pubkey[u]>>}]
               /\ todo' = [todo EXCEPT ![r] = @ \ {u}]
               /\ UNCHANGED <<pc, reply>>
      <4>1. answer[r] \cup {<<u, pubkey[u]>>} \in SUBSET (User \X MaybeKey)
        OBVIOUS
      <4>2. answer' \in [Request -> SUBSET (User \X MaybeKey)]
        BY <3>2, <4>1
      <4>3. todo' \in [Request -> SUBSET User]
        BY <3>2
      <4> QED BY <2>12, <3>2, <4>2, <4>3 DEF GetUserPubKey
    <3> QED BY <2>12, <3>1, <3>2 DEF GetUserPubKey
  <2>13. ASSUME NEW u \in User, CheckMember(r, u)
          PROVE  TypeOK'
    <3>1. CASE Finish(r, "error") /\ UNCHANGED queryVars
      BY <2>13, <3>1 DEF CheckMember, Finish
    <3>2. CASE /\ answer' = [answer EXCEPT ![r] = IF pubkey[u] # Nil \/ u \in deleted THEN @
                                                   ELSE @ \cup {<<u, Nil>>}]
               /\ todo' = [todo EXCEPT ![r] = @ \ {u}]
               /\ UNCHANGED <<pc, reply>>
      <4>1. (IF pubkey[u] # Nil \/ u \in deleted THEN answer[r] ELSE answer[r] \cup {<<u, Nil>>})
              \in SUBSET (User \X MaybeKey)
        OBVIOUS
      <4>2. answer' \in [Request -> SUBSET (User \X MaybeKey)]
        BY <3>2, <4>1
      <4>3. todo' \in [Request -> SUBSET User]
        BY <3>2
      <4> QED BY <2>13, <3>2, <4>2, <4>3 DEF CheckMember
    <3> QED BY <2>13, <3>1, <3>2 DEF CheckMember
  <2> QED BY <1>2, <2>1, <2>2, <2>3, <2>4, <2>5, <2>6, <2>7, <2>8, <2>9, <2>10, <2>11, <2>12, <2>13 DEF Step
<1>3. CASE Reconfigure
  BY <1>3, BoundsAssumption DEF Reconfigure
<1>4. CASE Restart
  BY <1>4 DEF Restart, Running
<1>5. CASE UNCHANGED vars
  BY <1>5 DEF vars
<1> QED BY <1>1, <1>2, <1>3, <1>4, <1>5 DEF Next, AllServed

\* A step keeps what the labels say.
LEMMA CallStep ==
  ASSUME TypeOK, CallInv, [Next]_vars
  PROVE  CallInv'
<1> USE DEF CallInv, PushLabel, storeVars, settingVars, queryVars, histVars
<1> /\ pc \in [Request -> Label]
    /\ req \in [Request -> Call \cup {NoCall}]
    /\ reply \in [Request -> {"pending", "ok", "error", "lost"}]
  BY DEF TypeOK
<1>1. ASSUME NEW r \in Request, NEW call \in Call, Arrive(r, call)
      PROVE  CallInv'
  BY <1>1, CallFields DEF Arrive, Goto, Finish, FirstLabel, NoCall
<1>2. ASSUME NEW r \in Request, Step(r)
      PROVE  CallInv'
  <2>0. /\ req[r].op \in {"push", "show"} => req[r].user \in User
        /\ pc[r] \in PushLabel => req[r].op = "push"
    BY <1>2, StepCall
  <2>1. CASE SetUserPubKey(r)
    <3>1. CASE Goto(r, "publish")
      BY <2>1, <3>1 DEF SetUserPubKey, Goto, NoCall
    <3>2. CASE Finish(r, "error")
      BY <2>1, <3>2 DEF SetUserPubKey, Finish, NoCall
    <3> QED BY <2>1, <3>1, <3>2 DEF SetUserPubKey
  <2>2. CASE Publish(r)
    BY <2>2 DEF Publish, Goto, Finish, NoCall
  <2>3. CASE CheckEnabled(r)
    BY <2>3 DEF CheckEnabled, Goto, Finish, NoCall
  <2>4. CASE DeleteGPGBackup(r)
    <3>1. req' = req /\ \E s \in {"ok", "error"} : Finish(r, s)
      BY <2>4 DEF DeleteGPGBackup
    <3> QED BY <2>4, <3>1 DEF DeleteGPGBackup, Finish, NoCall
  <2>5. CASE StoreGPGBackup(r)
    BY <2>5 DEF StoreGPGBackup, Goto, Finish, NoCall
  <2>6. CASE GetMailAddress(r)
    BY <2>6 DEF GetMailAddress, Goto, Finish, NoCall
  <2>7. CASE GetGPGBackup(r)
    BY <2>7 DEF GetGPGBackup, Goto, Finish, NoCall
  <2>8. CASE SendMail(r)
    BY <2>8 DEF SendMail, Goto, Finish, NoCall
  <2>9. CASE ListMembers(r)
    BY <2>9 DEF ListMembers, Goto, Finish, NoCall
  <2>10. CASE EndLoop(r)
    BY <2>10 DEF EndLoop, Goto, Finish, NoCall
  <2>11. CASE ShowGPGBackup(r)
    BY <2>11 DEF ShowGPGBackup, Goto, Finish, NoCall
  <2>12. ASSUME NEW u \in User, GetUserPubKey(r, u)
          PROVE  CallInv'
    BY <2>12 DEF GetUserPubKey, Goto, Finish, NoCall
  <2>13. ASSUME NEW u \in User, CheckMember(r, u)
          PROVE  CallInv'
    BY <2>13 DEF CheckMember, Goto, Finish, NoCall
  <2> QED BY <1>2, <2>1, <2>2, <2>3, <2>4, <2>5, <2>6, <2>7, <2>8, <2>9, <2>10, <2>11, <2>12, <2>13 DEF Step
<1>3. CASE Reconfigure
  BY <1>3 DEF Reconfigure, NoCall
<1>4. CASE Restart
  BY <1>4 DEF Restart, NoCall, Running
<1>5. CASE UNCHANGED vars
  BY <1>5 DEF vars, NoCall
<1> QED BY <1>1, <1>2, <1>3, <1>4, <1>5 DEF Next, AllServed

\* A step keeps the keys what they are.
LEMMA KeyStep ==
  ASSUME TypeOK, CallInv, KeyInv, [Next]_vars
  PROVE  KeyInv'
<1> USE DEF KeyInv, storeVars, settingVars, queryVars, histVars
<1> /\ pubkey \in [User -> MaybeKey]
    /\ pc \in [Request -> Label]
    /\ req \in [Request -> Call \cup {NoCall}]
    /\ before \in [Request -> [User -> MaybeKey]]
  BY DEF TypeOK
<1>1. ASSUME NEW r \in Request, NEW call \in Call, Arrive(r, call)
      PROVE  KeyInv'
  BY <1>1, CallFields, NilAssumption DEF Arrive, Goto, Finish, FirstLabel
<1>2. ASSUME NEW r \in Request, Step(r)
      PROVE  KeyInv'
  <2>0. /\ req[r].op \in {"push", "show"} => req[r].user \in User
        /\ pc[r] \in PushLabel => req[r].op = "push"
    BY <1>2, StepCall
  <2>1. CASE SetUserPubKey(r)
    <3>1. UNCHANGED <<req, before>> /\ req[r].op = "push" /\ req[r].user \in User
      BY <2>1, <2>0 DEF SetUserPubKey, PushLabel
    <3>2. CASE pubkey' = [pubkey EXCEPT ![req[r].user] = r] /\ Goto(r, "publish")
      BY <3>1, <3>2 DEF Goto
    <3>3. CASE UNCHANGED pubkey /\ Finish(r, "error")
      BY <3>1, <3>3 DEF Finish
    <3> QED BY <2>1, <3>2, <3>3 DEF SetUserPubKey
  <2>2. CASE Publish(r)
    BY <2>2, NilAssumption DEF Publish, Goto, Finish
  <2>3. CASE CheckEnabled(r)
    BY <2>3, NilAssumption DEF CheckEnabled, Goto, Finish
  <2>4. CASE DeleteGPGBackup(r)
    BY <2>4, NilAssumption DEF DeleteGPGBackup, Goto, Finish
  <2>5. CASE StoreGPGBackup(r)
    BY <2>5, NilAssumption DEF StoreGPGBackup, Goto, Finish
  <2>6. CASE GetMailAddress(r)
    BY <2>6, NilAssumption DEF GetMailAddress, Goto, Finish
  <2>7. CASE GetGPGBackup(r)
    BY <2>7, NilAssumption DEF GetGPGBackup, Goto, Finish
  <2>8. CASE SendMail(r)
    BY <2>8, NilAssumption DEF SendMail, Goto, Finish
  <2>9. CASE ListMembers(r)
    BY <2>9, NilAssumption DEF ListMembers, Goto, Finish
  <2>10. CASE EndLoop(r)
    BY <2>10, NilAssumption DEF EndLoop, Goto, Finish
  <2>11. CASE ShowGPGBackup(r)
    <3>1. UNCHANGED <<req, before, pubkey>> /\ \E s \in {"ok", "error"} : Finish(r, s)
      BY <2>11 DEF ShowGPGBackup
    <3> QED BY <3>1 DEF Finish
  <2>12. ASSUME NEW u \in User, GetUserPubKey(r, u)
          PROVE  KeyInv'
    <3>1. UNCHANGED <<req, before, pubkey>> /\ (pc' = pc \/ Finish(r, "error"))
      BY <2>12 DEF GetUserPubKey
    <3> QED BY <3>1 DEF Finish
  <2>13. ASSUME NEW u \in User, CheckMember(r, u)
          PROVE  KeyInv'
    BY <2>13, NilAssumption DEF CheckMember, Goto, Finish
  <2> QED BY <1>2, <2>1, <2>2, <2>3, <2>4, <2>5, <2>6, <2>7, <2>8, <2>9, <2>10, <2>11, <2>12, <2>13 DEF Step
<1>3. CASE Reconfigure
  BY <1>3, NilAssumption DEF Reconfigure
<1>4. CASE Restart
  BY <1>4, NilAssumption DEF Restart, Running
<1>5. CASE UNCHANGED vars
  BY <1>5, NilAssumption DEF vars
<1> QED BY <1>1, <1>2, <1>3, <1>4, <1>5 DEF Next, AllServed

\* A step keeps every stored backup that of an announced key.
LEMMA AnnouncedStep ==
  ASSUME TypeOK, CallInv, AnnouncedInv, [Next]_vars
  PROVE  AnnouncedInv'
<1> USE DEF AnnouncedInv, AnnouncedOf, storeVars, settingVars, queryVars, histVars
<1> /\ backup \in [User -> MaybeKey]
    /\ pc \in [Request -> Label]
    /\ req \in [Request -> Call \cup {NoCall}]
    /\ local \in [Request -> MaybeKey]
    /\ published \subseteq Request
  BY DEF TypeOK
<1>1. ASSUME NEW r \in Request, NEW call \in Call, Arrive(r, call)
      PROVE  AnnouncedInv'
  <2>1. /\ UNCHANGED <<backup, local, mails, published, answer>>
        /\ pc[r] = "idle"
        /\ \A q \in Request \ {r} : req'[q] = req[q] /\ pc'[q] = pc[q]
    BY <1>1 DEF Arrive, Goto, Finish
  <2>2. pc'[r] \in {"setkey", "visit", "list", "show", "done"}
    BY <1>1, CallFields DEF Arrive, Goto, Finish, FirstLabel
  <2>3. r \notin published /\ req[r].op # "push"
    BY <2>1 DEF NoCall, CallInv
  <2> QED BY <2>1, <2>2, <2>3
<1>2. ASSUME NEW r \in Request, Step(r)
      PROVE  AnnouncedInv'
  <2>0. /\ req[r].op \in {"push", "show"} => req[r].user \in User
        /\ pc[r] \in PushLabel => req[r].op = "push"
    BY <1>2, StepCall
  <2>1. CASE SetUserPubKey(r)
    BY <2>1 DEF SetUserPubKey, Goto, Finish
  <2>2. CASE Publish(r)
    BY <2>2 DEF Publish, Goto, Finish
  <2>3. CASE CheckEnabled(r)
    BY <2>3 DEF CheckEnabled, Goto, Finish
  <2>4. CASE DeleteGPGBackup(r)
    <3>1. UNCHANGED <<req, local, mails, published, answer>>
      BY <2>4 DEF DeleteGPGBackup
    <3>2. pc'[r] = "done" /\ \A q \in Request \ {r} : pc'[q] = pc[q]
      BY <2>4 DEF DeleteGPGBackup, Finish
    <3>3. \A u \in User : backup'[u] = backup[u] \/ backup'[u] = Nil
      BY <2>4 DEF DeleteGPGBackup
    <3> QED BY <3>1, <3>2, <3>3
  <2>5. CASE StoreGPGBackup(r)
    <3>1. UNCHANGED <<req, local, mails, published, answer>> /\ r \in published
      BY <2>5 DEF StoreGPGBackup
    <3>2. req[r].op = "push" /\ req[r].user \in User
      BY <2>5, <2>0 DEF StoreGPGBackup, PushLabel
    <3>3. pc'[r] \in {"user", "done"} /\ \A q \in Request \ {r} : pc'[q] = pc[q]
      BY <2>5 DEF StoreGPGBackup, Goto, Finish
    <3>4. backup' = [backup EXCEPT ![req[r].user] = r] \/ backup' = backup
      BY <2>5 DEF StoreGPGBackup
    <3>5. /\ backup'[req[r].user] \in {backup[req[r].user], r}
          /\ \A u \in User \ {req[r].user} : backup'[u] = backup[u]
      BY <3>2, <3>4
    <3> QED BY <3>1, <3>2, <3>3, <3>5
  <2>6. CASE GetMailAddress(r)
    BY <2>6 DEF GetMailAddress, Goto, Finish
  <2>7. CASE GetGPGBackup(r)
    <3>1. UNCHANGED <<req, backup, published>> /\ r \in published
      BY <2>7 DEF GetGPGBackup
    <3>2. req[r].op = "push" /\ req[r].user \in User
      BY <2>7, <2>0 DEF GetGPGBackup, PushLabel
    <3>3. pc'[r] \in {"mail", "done"} /\ \A q \in Request \ {r} : pc'[q] = pc[q]
      BY <2>7 DEF GetGPGBackup, Goto, Finish
    <3>4. /\ local'[r] \in {local[r], backup[req[r].user]}
          /\ \A q \in Request \ {r} : local'[q] = local[q]
      BY <2>7 DEF GetGPGBackup
    <3> QED BY <3>1, <3>2, <3>3, <3>4
  <2>8. CASE SendMail(r)
    BY <2>8 DEF SendMail, Goto, Finish
  <2>9. CASE ListMembers(r)
    BY <2>9, PageAssumption DEF ListMembers, Goto, Finish
  <2>10. CASE EndLoop(r)
    BY <2>10 DEF EndLoop, Goto, Finish
  <2>11. CASE ShowGPGBackup(r)
    BY <2>11 DEF ShowGPGBackup, Goto, Finish
  <2>12. ASSUME NEW u \in User, GetUserPubKey(r, u)
          PROVE  AnnouncedInv'
    <3>1. UNCHANGED <<req, backup, local, published>>
      BY <2>12 DEF GetUserPubKey
    <3>2. \A q \in Request : pc'[q] = pc[q] \/ pc'[q] = "done"
      BY <2>12 DEF GetUserPubKey, Finish
    <3> QED BY <3>1, <3>2
  <2>13. ASSUME NEW u \in User, CheckMember(r, u)
          PROVE  AnnouncedInv'
    <3>1. UNCHANGED <<req, backup, local, published>>
      BY <2>13 DEF CheckMember
    <3>2. \A q \in Request : pc'[q] = pc[q] \/ pc'[q] = "done"
      BY <2>13 DEF CheckMember, Finish
    <3> QED BY <3>1, <3>2
  <2> QED BY <1>2, <2>1, <2>2, <2>3, <2>4, <2>5, <2>6, <2>7, <2>8, <2>9, <2>10, <2>11, <2>12, <2>13 DEF Step
<1>3. CASE Reconfigure
  BY <1>3 DEF Reconfigure
<1>4. CASE Restart
  BY <1>4 DEF Restart, Running
<1>5. CASE UNCHANGED vars
  BY <1>5 DEF vars
<1> QED BY <1>1, <1>2, <1>3, <1>4, <1>5 DEF Next, AllServed

\* A step keeps every mailed or shown backup that of an announced key.
LEMMA HandedStep ==
  ASSUME TypeOK, CallInv, AnnouncedInv, QueryInv, HandedInv, [Next]_vars
  PROVE  HandedInv'
<1> USE DEF HandedInv, AnnouncedOf, storeVars, settingVars, queryVars, histVars
<1> /\ req \in [Request -> Call \cup {NoCall}]
  BY DEF TypeOK
<1>1. ASSUME NEW r \in Request, NEW call \in Call, Arrive(r, call)
      PROVE  HandedInv'
  <2>1. /\ UNCHANGED <<mails, published, answer>>
        /\ pc[r] = "idle" /\ \A q \in Request \ {r} : req'[q] = req[q]
    BY <1>1 DEF Arrive
  <2>2. answer[r] = {} /\ r \notin published
    BY <2>1 DEF QueryInv, EmptyAtStart, AnnouncedInv
  <2> QED BY <2>1, <2>2
<1>2. ASSUME NEW r \in Request, Step(r)
      PROVE  HandedInv'
  <2>0. /\ req[r].op \in {"push", "show"} => req[r].user \in User
        /\ pc[r] \in PushLabel => req[r].op = "push"
    BY <1>2, StepCall
  <2>1. CASE SetUserPubKey(r)
    BY <2>1 DEF SetUserPubKey, Goto, Finish
  <2>2. CASE Publish(r)
    BY <2>2 DEF Publish, Goto, Finish
  <2>3. CASE CheckEnabled(r)
    BY <2>3 DEF CheckEnabled, Goto, Finish
  <2>4. CASE DeleteGPGBackup(r)
    BY <2>4 DEF DeleteGPGBackup, Goto, Finish
  <2>5. CASE StoreGPGBackup(r)
    BY <2>5 DEF StoreGPGBackup, Goto, Finish
  <2>6. CASE GetMailAddress(r)
    BY <2>6 DEF GetMailAddress, Goto, Finish
  <2>7. CASE GetGPGBackup(r)
    BY <2>7 DEF GetGPGBackup, Goto, Finish
  <2>8. CASE SendMail(r)
    <3>1. UNCHANGED <<req, answer, published>>
      BY <2>8 DEF SendMail
    <3>2. mails' \in {mails, mails \cup {<<r, req[r].user, local[r]>>}}
      BY <2>8 DEF SendMail
    <3>3. local[r] # Nil => AnnouncedOf(local[r], req[r].user)
      BY DEF AnnouncedInv
    <3> QED BY <3>1, <3>2, <3>3, NilAssumption
  <2>9. CASE ListMembers(r)
    BY <2>9, PageAssumption DEF ListMembers, Goto, Finish
  <2>10. CASE EndLoop(r)
    BY <2>10 DEF EndLoop, Goto, Finish
  <2>11. CASE ShowGPGBackup(r)
    <3>1. UNCHANGED <<req, mails, published>>
      BY <2>11 DEF ShowGPGBackup
    <3>2. \A q \in Request \ {r} : answer'[q] = answer[q]
      BY <2>11 DEF ShowGPGBackup, TypeOK
    <3>3. \/ answer'[r] = answer[r]
          \/ answer'[r] = {<<req[r].user, backup[req[r].user]>>}
      BY <2>11 DEF ShowGPGBackup, TypeOK
    <3>4. req[r].user \in User
      BY <2>11, <2>0 DEF ShowGPGBackup, CallInv
    <3>5. backup[req[r].user] # Nil => AnnouncedOf(backup[req[r].user], req[r].user)
      BY <3>4 DEF AnnouncedInv
    <3> QED BY <3>1, <3>2, <3>3, <3>4, <3>5, NilAssumption
  <2>12. ASSUME NEW u \in User, GetUserPubKey(r, u)
          PROVE  HandedInv'
    <3>1. UNCHANGED <<req, mails, published>> /\ (req[r].op = "get")
      BY <2>12 DEF GetUserPubKey
    <3>2. \A q \in Request \ {r} : answer'[q] = answer[q]
      BY <2>12 DEF GetUserPubKey, TypeOK
    <3> QED BY <3>1, <3>2
  <2>13. ASSUME NEW u \in User, CheckMember(r, u)
          PROVE  HandedInv'
    <3>1. UNCHANGED <<req, mails, published>> /\ req[r].op = "keyless"
      BY <2>13 DEF CheckMember
    <3>2. \A q \in Request \ {r} : answer'[q] = answer[q]
      BY <2>13 DEF CheckMember, TypeOK
    <3> QED BY <3>1, <3>2
  <2> QED BY <1>2, <2>1, <2>2, <2>3, <2>4, <2>5, <2>6, <2>7, <2>8, <2>9, <2>10, <2>11, <2>12, <2>13 DEF Step
<1>3. CASE Reconfigure
  BY <1>3 DEF Reconfigure
<1>4. CASE Restart
  BY <1>4 DEF Restart, Running
<1>5. CASE UNCHANGED vars
  BY <1>5 DEF vars
<1> QED BY <1>1, <1>2, <1>3, <1>4, <1>5 DEF Next, AllServed

\* Nothing that a query is about changes for request q.
Kept(q) == UNCHANGED <<req[q], pc[q], reply[q], todo[q], answer[q], before[q]>>

\* What a step of a push, or of show_backup, does to the queries: it may store the
\* user's key.
LEMMA PushFrame ==
  ASSUME TypeOK, CallInv, NEW r \in Request,
         \/ SetUserPubKey(r) \/ Publish(r) \/ CheckEnabled(r) \/ DeleteGPGBackup(r)
         \/ StoreGPGBackup(r) \/ GetMailAddress(r) \/ GetGPGBackup(r) \/ SendMail(r)
         \/ ShowGPGBackup(r)
  PROVE  /\ req[r].op \in {"push", "show"} /\ req'[r] = req[r]
         /\ pc'[r] \notin {"idle", "list"}
         /\ UNCHANGED deleted
         /\ \A q \in Request \ {r} : Kept(q)
         /\ \A u \in User : pubkey'[u] = pubkey[u] \/ (pubkey'[u] = r /\ pc[r] = "setkey")
<1> DEFINE Frame == /\ UNCHANGED <<req, deleted, todo, before>>
                    /\ pc[r] \in PushLabel \cup {"show"}
                    /\ pc'[r] \notin {"idle", "list"}
                    /\ \A q \in Request \ {r} : UNCHANGED <<pc[q], reply[q], answer[q]>>
           OneKey == \A u \in User : pubkey'[u] = pubkey[u] \/ (pubkey'[u] = r /\ pc[r] = "setkey")
<1>1. /\ pc \in [Request -> Label]
      /\ reply \in [Request -> {"pending", "ok", "error", "lost"}]
      /\ answer \in [Request -> SUBSET (User \X MaybeKey)]
      /\ pubkey \in [User -> MaybeKey]
  BY DEF TypeOK
<1> USE DEF PushLabel, Goto, Finish, storeVars, settingVars, queryVars, histVars
<1>2. ASSUME SetUserPubKey(r) PROVE Frame /\ OneKey
  <2>1. Frame
    BY <1>1, <1>2 DEF SetUserPubKey
  <2>2. OneKey
    BY <1>1, <1>2 DEF SetUserPubKey
  <2> QED BY <2>1, <2>2
<1>3. ASSUME Publish(r) PROVE Frame /\ OneKey
  <2>1. Frame
    BY <1>1, <1>3 DEF Publish
  <2>2. UNCHANGED pubkey
    BY <1>3 DEF Publish
  <2> QED BY <2>1, <2>2
<1>4. ASSUME CheckEnabled(r) PROVE Frame /\ OneKey
  <2>1. Frame
    BY <1>1, <1>4 DEF CheckEnabled
  <2>2. UNCHANGED pubkey
    BY <1>4 DEF CheckEnabled
  <2> QED BY <2>1, <2>2
<1>5. ASSUME DeleteGPGBackup(r) PROVE Frame /\ OneKey
  <2>1. Frame
    BY <1>1, <1>5 DEF DeleteGPGBackup
  <2>2. UNCHANGED pubkey
    BY <1>5 DEF DeleteGPGBackup
  <2> QED BY <2>1, <2>2
<1>6. ASSUME StoreGPGBackup(r) PROVE Frame /\ OneKey
  <2>1. Frame
    BY <1>1, <1>6 DEF StoreGPGBackup
  <2>2. UNCHANGED pubkey
    BY <1>6 DEF StoreGPGBackup
  <2> QED BY <2>1, <2>2
<1>7. ASSUME GetMailAddress(r) PROVE Frame /\ OneKey
  <2>1. Frame
    BY <1>1, <1>7 DEF GetMailAddress
  <2>2. UNCHANGED pubkey
    BY <1>7 DEF GetMailAddress
  <2> QED BY <2>1, <2>2
<1>8. ASSUME GetGPGBackup(r) PROVE Frame /\ OneKey
  <2>1. Frame
    BY <1>1, <1>8 DEF GetGPGBackup
  <2>2. UNCHANGED pubkey
    BY <1>8 DEF GetGPGBackup
  <2> QED BY <2>1, <2>2
<1>9. ASSUME SendMail(r) PROVE Frame /\ OneKey
  <2>1. Frame
    BY <1>1, <1>9 DEF SendMail
  <2>2. UNCHANGED pubkey
    BY <1>9 DEF SendMail
  <2> QED BY <2>1, <2>2
<1>10. ASSUME ShowGPGBackup(r) PROVE Frame /\ OneKey
  <2>1. Frame
    BY <1>1, <1>10 DEF ShowGPGBackup
  <2>2. UNCHANGED pubkey
    BY <1>10 DEF ShowGPGBackup
  <2> QED BY <2>1, <2>2
<1>11. Frame /\ OneKey
  BY <1>2, <1>3, <1>4, <1>5, <1>6, <1>7, <1>8, <1>9, <1>10
<1> QED BY <1>11 DEF CallInv, Kept

\* A step keeps what the queries have noted.
LEMMA QueryStep ==
  ASSUME TypeOK, CallInv, KeyInv, QueryInv, [Next]_vars
  PROVE  QueryInv'
<1> USE DEF QueryInv
<1>1. ASSUME NEW r \in Request, NEW call \in Call, Arrive(r, call)
      PROVE  QueryInv'
  <2>1. /\ UNCHANGED <<pubkey, deleted>> /\ pc[r] = "idle"
        /\ \A q \in Request \ {r} : Kept(q)
    BY <1>1 DEF Arrive, Goto, Finish, Kept, TypeOK, settingVars, storeVars
  <2>2. /\ req'[r] = call /\ answer'[r] = {} /\ reply'[r] # "ok"
        /\ call.op \in {"get", "keyless"} => before'[r] = pubkey
        /\ call.op = "get" => todo'[r] = User
    BY <1>1, <2>1 DEF Arrive, Goto, Finish, EmptyAtStart, TypeOK, CallInv
  <2>3. call.op = "keyless" => pc'[r] # "visit"
    BY <1>1 DEF Arrive, Goto, Finish, FirstLabel, TypeOK
  <2>4. EmptyAtStart' /\ NobodyLeft' /\ KeylessBefore'
    BY <2>1, <2>2 DEF EmptyAtStart, NobodyLeft, KeylessBefore, Kept
  <2>5. KeysFresh' /\ KeylessRight'
    BY <2>1, <2>2 DEF KeysFresh, KeylessRight, Kept
  <2>6. KeysNoted'
    BY <2>1, <2>2 DEF KeysNoted, Kept
  <2>7. KeylessNoted'
    BY <2>1, <2>2, <2>3 DEF KeylessNoted, Kept
  <2> QED BY <2>4, <2>5, <2>6, <2>7
<1>2. ASSUME NEW r \in Request,
             \/ SetUserPubKey(r) \/ Publish(r) \/ CheckEnabled(r) \/ DeleteGPGBackup(r)
             \/ StoreGPGBackup(r) \/ GetMailAddress(r) \/ GetGPGBackup(r) \/ SendMail(r)
             \/ ShowGPGBackup(r)
      PROVE  QueryInv'
  <2>1. /\ req[r].op \in {"push", "show"} /\ req'[r] = req[r]
        /\ pc'[r] \notin {"idle", "list"}
        /\ UNCHANGED deleted
        /\ \A q \in Request \ {r} : Kept(q)
        /\ \A u \in User : pubkey'[u] = pubkey[u] \/ (pubkey'[u] = r /\ pc[r] = "setkey")
    BY <1>2, PushFrame
  <2>2. \A u \in User : pubkey'[u] = Nil => pubkey[u] = Nil
    BY <2>1, NilAssumption
  <2>3. pc[r] = "setkey" => \A q \in Request, u \in User : before[q][u] # r
    BY DEF KeyInv
  <2>4. EmptyAtStart' /\ NobodyLeft'
    BY <2>1 DEF EmptyAtStart, NobodyLeft, Kept
  <2>5. KeylessBefore'
    BY <2>1, <2>2 DEF KeylessBefore, Kept
  <2>6. KeysFresh'
    BY <2>1, <2>3 DEF KeysFresh, Kept
  <2>7. KeysNoted' /\ KeylessRight'
    BY <2>1 DEF KeysNoted, KeylessRight, Kept
  <2>8. KeylessNoted'
    <3>1. Page \subseteq User
      BY PageAssumption
    <3> QED BY <2>1, <2>2, <3>1 DEF KeylessNoted, Kept
  <2> QED BY <2>4, <2>5, <2>6, <2>7, <2>8
<1>3. ASSUME NEW r \in Request, ListMembers(r)
      PROVE  QueryInv'
  <2>1. /\ UNCHANGED <<pubkey, deleted>> /\ req'[r] = req[r] /\ req[r].op = "keyless"
        /\ \A q \in Request \ {r} : Kept(q)
        /\ pc'[r] \notin {"idle", "list"} /\ reply'[r] # "ok"
        /\ answer'[r] = answer[r] /\ before'[r] = before[r]
    BY <1>3 DEF ListMembers, Goto, Finish, Kept, TypeOK, CallInv, settingVars, storeVars, histVars
  <2>2. pc'[r] = "visit" => todo'[r] = Page
    BY <1>3 DEF ListMembers, Goto, Finish, TypeOK
  <2>3. EmptyAtStart' /\ NobodyLeft' /\ KeylessBefore'
    BY <2>1 DEF EmptyAtStart, NobodyLeft, KeylessBefore, Kept
  <2>4. KeysFresh' /\ KeysNoted'
    BY <2>1 DEF KeysFresh, KeysNoted, Kept
  <2>5. KeylessRight'
    BY <2>1 DEF KeylessRight, Kept
  <2>6. KeylessNoted'
    BY <2>1, <2>2 DEF KeylessNoted, Kept
  <2> QED BY <2>3, <2>4, <2>5, <2>6
<1>4. ASSUME NEW r \in Request, EndLoop(r)
      PROVE  QueryInv'
  <2>1. /\ UNCHANGED <<pubkey, deleted>> /\ req'[r] = req[r] /\ pc[r] = "visit"
        /\ \A q \in Request \ {r} : Kept(q)
        /\ pc'[r] = "done" /\ todo'[r] = todo[r] /\ todo[r] = {}
        /\ answer'[r] = answer[r] /\ before'[r] = before[r]
    BY <1>4 DEF EndLoop, Finish, Kept, TypeOK, settingVars, storeVars, queryVars, histVars
  <2>2. EmptyAtStart' /\ NobodyLeft' /\ KeylessBefore'
    BY <2>1 DEF EmptyAtStart, NobodyLeft, KeylessBefore, Kept
  <2>3. KeysFresh' /\ KeysNoted'
    BY <2>1 DEF KeysFresh, KeysNoted, Kept
  <2>4. KeylessRight' /\ KeylessNoted'
    BY <2>1 DEF KeylessRight, KeylessNoted, Kept
  <2> QED BY <2>2, <2>3, <2>4
<1>5. ASSUME NEW r \in Request, NEW u \in User, GetUserPubKey(r, u)
      PROVE  QueryInv'
  <2>1. /\ UNCHANGED <<pubkey, deleted>> /\ req'[r] = req[r]
        /\ pc[r] = "visit" /\ req[r].op = "get"
        /\ \A q \in Request \ {r} : Kept(q)
        /\ pc'[r] \notin {"idle", "list"} /\ reply'[r] # "ok" /\ before'[r] = before[r]
    BY <1>5 DEF GetUserPubKey, Finish, Kept, TypeOK, CallInv, settingVars, storeVars,
                queryVars, histVars
  <2>2. EmptyAtStart' /\ NobodyLeft' /\ KeylessBefore' /\ KeylessRight' /\ KeylessNoted'
    BY <2>1 DEF EmptyAtStart, NobodyLeft, KeylessBefore, KeylessRight, KeylessNoted, Kept
  <2>3. \/ pc'[r] = "done" /\ answer'[r] = answer[r]
        \/ answer'[r] = answer[r] \cup {<<u, pubkey[u]>>} /\ todo'[r] = todo[r] \ {u}
    BY <1>5 DEF GetUserPubKey, Finish, TypeOK, queryVars
  <2>4. pubkey[u] \in MaybeKey
    BY DEF TypeOK
  <2>5. pubkey[u] # before[r][u] => pubkey[u] # Nil
    BY <2>1 DEF KeylessBefore
  <2>6. KeysFresh'
    BY <2>1, <2>3, <2>5 DEF KeysFresh, Kept
  <2>7. KeysNoted'
    BY <2>1, <2>3, <2>4 DEF KeysNoted, Kept
  <2> QED BY <2>2, <2>6, <2>7
<1>6. ASSUME NEW r \in Request, NEW u \in User, CheckMember(r, u)
      PROVE  QueryInv'
  <2>1. /\ UNCHANGED <<pubkey, deleted>> /\ req'[r] = req[r]
        /\ pc[r] = "visit" /\ req[r].op = "keyless"
        /\ \A q \in Request \ {r} : Kept(q)
        /\ pc'[r] \notin {"idle", "list"} /\ reply'[r] # "ok" /\ before'[r] = before[r]
    BY <1>6 DEF CheckMember, Finish, Kept, TypeOK, CallInv, settingVars, storeVars,
                queryVars, histVars
  <2>2. EmptyAtStart' /\ NobodyLeft' /\ KeylessBefore' /\ KeysFresh' /\ KeysNoted'
    BY <2>1 DEF EmptyAtStart, NobodyLeft, KeylessBefore, KeysFresh, KeysNoted, Kept
  <2>3. \/ pc'[r] = "done" /\ answer'[r] = answer[r]
        \/ /\ answer'[r] = IF pubkey[u] # Nil \/ u \in deleted THEN answer[r]
                           ELSE answer[r] \cup {<<u, Nil>>}
           /\ todo'[r] = todo[r] \ {u}
    BY <1>6 DEF CheckMember, Finish, TypeOK, queryVars
  <2>4. pubkey[u] = Nil => before[r][u] = Nil
    BY <2>1 DEF KeylessBefore
  <2>5. KeylessRight'
    BY <2>1, <2>3, <2>4 DEF KeylessRight, Kept
  <2>6. KeylessNoted'
    <3>1. Page \subseteq User
      BY PageAssumption
    <3> QED BY <2>1, <2>3, <3>1 DEF KeylessNoted, Kept
  <2> QED BY <2>2, <2>5, <2>6
<1>7. ASSUME Restart \/ Reconfigure \/ UNCHANGED vars
      PROVE  QueryInv'
  <2>1. /\ UNCHANGED <<pubkey, deleted, req, todo, answer, before>>
        /\ \A q \in Request : /\ pc'[q] = pc[q] \/ pc'[q] = "done"
                              /\ reply'[q] = "ok" => reply[q] = "ok"
    BY <1>7 DEF Restart, Reconfigure, vars, storeVars, settingVars, queryVars, histVars
  <2>2. EmptyAtStart' /\ NobodyLeft' /\ KeylessBefore'
    BY <2>1 DEF EmptyAtStart, NobodyLeft, KeylessBefore
  <2>3. KeysFresh' /\ KeylessRight'
    BY <2>1 DEF KeysFresh, KeylessRight
  <2>4. KeysNoted' /\ KeylessNoted'
    BY <2>1 DEF KeysNoted, KeylessNoted
  <2> QED BY <2>2, <2>3, <2>4
<1> QED BY <1>1, <1>2, <1>3, <1>4, <1>5, <1>6, <1>7 DEF Next, Step, AllServed

\* Nothing that a clean push is about changes for request q.
Same(q) == UNCHANGED <<req[q], pc[q], reply[q], local[q]>>

\* A step keeps what belongs to clean pushes.
LEMMA CleanStep ==
  ASSUME TypeOK, CallInv, KeyInv, CleanInv, [Next]_vars
  PROVE  CleanInv'
<1> USE DEF CleanInv
<1>1. ASSUME NEW r \in Request, NEW call \in Call, Arrive(r, call)
      PROVE  CleanInv'
  <2>1. /\ UNCHANGED <<pubkey, backup, local, mails>> /\ pc[r] = "idle"
        /\ req'[r] = call /\ reply'[r] # "ok"
        /\ \A q \in Request \ {r} : Same(q)
    BY <1>1 DEF Arrive, Goto, Finish, Same, TypeOK, CallInv, storeVars
  <2>2. /\ pc'[r] \in {"setkey", "visit", "list", "show", "done"}
        /\ call.op = "push" => pc'[r] \in {"setkey", "done"}
    <3>1. call.op \in {"push", "show", "get", "keyless"}
      BY CallFields
    <3> QED BY <1>1, <3>1 DEF Arrive, Goto, Finish, FirstLabel, TypeOK
  <2>3. r \notin clean /\ \A u \in User : pubkey[u] # r
    BY <2>1 DEF CleanPush, CallInv, KeyInv, NoCall
  <2>4. call.op = "push" => call.user \in User
    BY CallFields
  <2>5. /\ clean' \subseteq clean \cup {r}
        /\ r \in clean' => call.op = "push" /\ Pushing(call.user) = {}
        /\ call.op = "push" => clean' \cap Pushing(call.user) = {}
    BY <1>1, <2>1, <2>3 DEF Arrive, Pushing, Running
  <2>6. clean \subseteq Request /\ pc \in [Request -> Label]
    BY DEF TypeOK
  <2>7. CleanPush' /\ CleanRead'
    BY <2>1, <2>2, <2>5, <2>6 DEF CleanPush, CleanRead, Same
  <2>8. CleanStored'
    BY <2>1, <2>2, <2>5, <2>6 DEF CleanStored, Same
  <2>9. CleanAlone'
    <3>1. SUFFICES ASSUME NEW x \in clean', NEW q \in Request,
                          pc'[x] \notin {"idle", "done"}, pc'[q] \notin {"idle", "done"},
                          req'[q].op = "push", req'[q].user = req'[x].user
                   PROVE  q = x
      BY DEF CleanAlone, Pushing, Running
    <3>2. CASE x = r /\ q # r
      BY <2>1, <2>5, <3>1, <3>2 DEF Pushing, Running, Same
    <3>3. CASE x # r /\ q = r
      <4>1. x \in Pushing(call.user) /\ call.op = "push"
        BY <2>1, <2>5, <2>6, <3>1, <3>3 DEF Pushing, Running, Same, CleanPush
      <4> QED BY <2>5, <4>1
    <3>4. CASE x # r /\ q # r
      <4>1. x \in clean /\ x \in Running /\ q \in Pushing(req[x].user)
        BY <2>1, <2>5, <2>6, <3>1, <3>4 DEF Pushing, Running, Same
      <4> QED BY <4>1 DEF CleanAlone
    <3> QED BY <3>2, <3>3, <3>4
  <2>10. PairEarly'
    <3>1. SUFFICES ASSUME NEW x \in clean', NEW u \in User, NEW q \in Request, pubkey'[u] = x,
                          pc'[q] \notin {"idle", "done"},
                          req'[q].op = "push", req'[q].user = u
                   PROVE  q = x \/ pc'[q] = "setkey"
      BY DEF PairEarly, Pushing, Running
    <3>2. x \in clean /\ pubkey[u] = x
      BY <2>1, <2>3, <2>5, <3>1
    <3>3. CASE q = r
      BY <2>1, <2>2, <3>1, <3>3
    <3>4. CASE q # r
      BY <2>1, <3>1, <3>2, <3>4 DEF PairEarly, Pushing, Running, Same
    <3> QED BY <3>3, <3>4
  <2>11. PairKept'
    BY <2>1, <2>3, <2>5 DEF PairKept, Same, TypeOK
  <2>12. MailOwn'
    BY <2>1, <2>3, <2>5 DEF MailOwn, Same
  <2> QED BY <2>7, <2>8, <2>9, <2>10, <2>11, <2>12
<1>2. ASSUME NEW r \in Request, SetUserPubKey(r)
      PROVE  CleanInv'
  <2>1. /\ UNCHANGED <<backup, clean, mails, req, local>> /\ pc[r] = "setkey"
        /\ pc'[r] \in {"publish", "done"} /\ reply'[r] # "ok"
        /\ \A q \in Request \ {r} : Same(q)
        /\ req[r].op = "push"
    BY <1>2 DEF SetUserPubKey, Goto, Finish, Same, TypeOK, CallInv, PushLabel, histVars
  <2>2. \/ UNCHANGED pubkey /\ pc'[r] = "done"
        \/ /\ \A u \in User : u = req[r].user => pubkey'[u] = r
           /\ \A u \in User : u # req[r].user => pubkey'[u] = pubkey[u]
    BY <1>2 DEF SetUserPubKey, Finish, TypeOK
  <2>3. clean \subseteq Request
    BY DEF TypeOK
  <2>4. CleanPush' /\ CleanStored' /\ CleanRead'
    BY <2>1, <2>3 DEF CleanPush, CleanStored, CleanRead, Same
  <2>5. CleanAlone'
    BY <2>1, <2>3 DEF CleanAlone, Pushing, Running, Same
  <2>6. PairEarly'
    <3>1. SUFFICES ASSUME NEW x \in clean, NEW u \in User, NEW q \in Request, pubkey'[u] = x,
                          pc'[q] \notin {"idle", "done"},
                          req[q].op = "push", req[q].user = u
                   PROVE  q = x \/ pc'[q] = "setkey"
      BY <2>1 DEF PairEarly, Pushing, Running
    <3>2. q \in Pushing(u)
      BY <2>1, <3>1 DEF Pushing, Running, Same
    <3>3. CASE pubkey[u] = x
      <4>1. q = x \/ pc[q] = "setkey"
        BY <3>1, <3>2, <3>3 DEF PairEarly
      <4>2. CASE q = r
        BY <2>2, <3>1, <4>2
      <4>3. CASE q # r
        BY <2>1, <4>1, <4>3 DEF Same
      <4> QED BY <4>2, <4>3
    <3>4. CASE u = req[r].user /\ x = r
      BY <2>1, <3>2, <3>4 DEF CleanAlone, Running
    <3> QED BY <2>2, <3>1, <3>3, <3>4
  <2>7. PairKept'
    BY <2>1, <2>2, <2>3 DEF PairKept, Same
  <2>8. MailOwn'
    BY <2>1 DEF MailOwn, Same
  <2> QED BY <2>4, <2>5, <2>6, <2>7, <2>8
<1>3. ASSUME NEW r \in Request, Publish(r) \/ GetMailAddress(r) \/ GetGPGBackup(r)
      PROVE  CleanInv'
  <2>1. /\ UNCHANGED <<pubkey, backup, clean, mails, req>>
        /\ pc[r] \in {"publish", "user", "read"} /\ reply'[r] # "ok"
        /\ pc'[r] \in {"enabled", "read", "mail", "done"}
        /\ pc'[r] \in {"read", "mail"} => pc[r] \in {"user", "read"}
        /\ \A q \in Request \ {r} : Same(q)
        /\ req[r].op = "push"
    BY <1>3 DEF Publish, GetMailAddress, GetGPGBackup, Goto, Finish, Same, TypeOK, CallInv,
                PushLabel, histVars, storeVars
  <2>2. pc'[r] = "mail" => pc[r] = "read" /\ local'[r] = backup[req[r].user]
    BY <1>3 DEF Publish, GetMailAddress, GetGPGBackup, Goto, Finish, TypeOK
  <2>3. clean \subseteq Request
    BY DEF TypeOK
  <2>4. CleanPush' /\ CleanStored'
    BY <2>1, <2>3 DEF CleanPush, CleanStored, Same
  <2>5. CleanRead'
    BY <2>1, <2>2, <2>3 DEF CleanStored, CleanRead, Same
  <2>6. CleanAlone'
    BY <2>1, <2>3 DEF CleanAlone, Pushing, Running, Same
  <2>7. PairEarly'
    BY <2>1, <2>3 DEF PairEarly, Pushing, Running, Same
  <2>8. PairKept'
    BY <2>1, <2>3 DEF PairKept, Same
  <2>9. MailOwn'
    BY <2>1 DEF MailOwn, Same
  <2> QED BY <2>4, <2>5, <2>6, <2>7, <2>8, <2>9
<1>4. ASSUME NEW r \in Request, CheckEnabled(r)
      PROVE  CleanInv'
  <2>1. /\ UNCHANGED <<pubkey, backup, mails, req>> /\ pc[r] = "enabled"
        /\ pc'[r] \in {"delete", "store", "done"}
        /\ \A q \in Request \ {r} : Same(q)
        /\ clean' \subseteq clean
        /\ r \in clean' => reply'[r] # "ok"
    BY <1>4 DEF CheckEnabled, Goto, Finish, Same, TypeOK, CallInv, storeVars
  <2>2. clean \subseteq Request
    BY DEF TypeOK
  <2>3. CleanPush' /\ CleanStored' /\ CleanRead'
    BY <2>1, <2>2 DEF CleanPush, CleanStored, CleanRead, Same
  <2>4. CleanAlone'
    BY <2>1, <2>2 DEF CleanAlone, Pushing, Running, Same
  <2>5. PairEarly'
    BY <2>1, <2>2 DEF PairEarly, Pushing, Running, Same
  <2>6. PairKept'
    BY <2>1, <2>2 DEF PairKept, Same
  <2>7. MailOwn'
    BY <2>1 DEF MailOwn, Same
  <2> QED BY <2>3, <2>4, <2>5, <2>6, <2>7
<1>5. ASSUME NEW r \in Request, DeleteGPGBackup(r) \/ StoreGPGBackup(r)
      PROVE  CleanInv'
  <2>1. /\ UNCHANGED <<pubkey, clean, mails, req>> /\ pc[r] \in {"delete", "store"}
        /\ pc'[r] \in {"user", "done"}
        /\ \A q \in Request \ {r} : Same(q)
        /\ req[r].op = "push"
    BY <1>5 DEF DeleteGPGBackup, StoreGPGBackup, Goto, Finish, Same, TypeOK, CallInv,
                PushLabel, histVars
  <2>2. /\ \A u \in User : u # req[r].user => backup'[u] = backup[u]
        /\ \A u \in User : u = req[r].user /\ (pc'[r] = "user" \/ reply'[r] = "ok") =>
             backup'[u] = IF req[r].backup THEN r ELSE Nil
        /\ pc'[r] = "user" => req[r].backup
    BY <1>5 DEF DeleteGPGBackup, StoreGPGBackup, Goto, Finish, TypeOK, CallInv
  <2>3. clean \subseteq Request /\ req[r].user \in User
    BY <2>1, Arrived DEF TypeOK
  <2>4. \A x \in clean : x \in Running /\ req[x].user = req[r].user => x = r
    BY <2>1, <2>3 DEF CleanAlone, Pushing, Running
  <2>5. \A x \in clean, u \in User : pubkey[u] = x /\ u = req[r].user => x = r
    BY <2>1 DEF PairEarly, Pushing, Running
  <2>6. CleanPush' /\ CleanRead'
    BY <2>1, <2>3 DEF CleanPush, CleanRead, Same
  <2>7. CleanStored'
    <3> SUFFICES ASSUME NEW x \in clean, pc'[x] \in {"user", "read", "mail"}
                 PROVE  req[x].backup /\ backup'[req[x].user] = x
      BY <2>1 DEF CleanStored
    <3>1. CASE x = r
      BY <2>1, <2>2, <2>3, <3>1
    <3>2. CASE x # r
      <4>1. pc'[x] = pc[x] /\ x \in Request
        BY <2>1, <2>3, <3>2 DEF Same
      <4>2. x \in Running /\ req[x].user \in User
        BY <4>1, <2>3, Arrived DEF Running, CleanPush
      <4>3. req[x].user # req[r].user
        BY <2>4, <3>2, <4>2
      <4>4. req[x].backup /\ backup[req[x].user] = x
        BY <4>1 DEF CleanStored
      <4> QED BY <2>2, <4>2, <4>3, <4>4
    <3> QED BY <3>1, <3>2
  <2>8. CleanAlone'
    BY <2>1, <2>3 DEF CleanAlone, Pushing, Running, Same
  <2>9. PairEarly'
    BY <2>1, <2>3 DEF PairEarly, Pushing, Running, Same
  <2>10. PairKept'
    <3> SUFFICES ASSUME NEW x \in clean, NEW u \in User, pubkey[u] = x, reply'[x] = "ok"
                 PROVE  backup'[u] = IF req[x].backup THEN x ELSE Nil
      BY <2>1 DEF PairKept
    <3>1. CASE x = r
      <4>1. u = req[r].user
        BY <2>3, <3>1, NilAssumption DEF KeyInv
      <4> QED BY <2>2, <3>1, <4>1
    <3>2. CASE x # r
      <4>1. u # req[r].user
        BY <2>5, <3>2
      <4>2. reply[x] = "ok"
        BY <2>1, <2>3, <3>2 DEF Same
      <4>3. backup[u] = IF req[x].backup THEN x ELSE Nil
        BY <4>2 DEF PairKept
      <4> QED BY <2>2, <4>1, <4>3
    <3> QED BY <3>1, <3>2
  <2>11. MailOwn'
    BY <2>1 DEF MailOwn, Same
  <2> QED BY <2>6, <2>7, <2>8, <2>9, <2>10, <2>11
<1>6. ASSUME NEW r \in Request, SendMail(r)
      PROVE  CleanInv'
  <2>1. /\ UNCHANGED <<pubkey, backup, clean, req, local>> /\ pc[r] = "mail" /\ pc'[r] = "done"
        /\ \A q \in Request \ {r} : Same(q)
        /\ mails' \in {mails, mails \cup {<<r, req[r].user, local[r]>>}}
    BY <1>6 DEF SendMail, Finish, Same, TypeOK, storeVars, histVars
  <2>2. clean \subseteq Request
    BY DEF TypeOK
  <2>3. r \in clean => local[r] = r /\ req[r].backup /\ backup[req[r].user] = r
    BY <2>1 DEF CleanRead, CleanStored
  <2>4. \A u \in User : pubkey[u] = r => req[r].user = u
    BY NilAssumption DEF KeyInv
  <2>5. CleanPush' /\ CleanStored' /\ CleanRead'
    BY <2>1, <2>2 DEF CleanPush, CleanStored, CleanRead, Same
  <2>6. CleanAlone'
    BY <2>1, <2>2 DEF CleanAlone, Pushing, Running, Same
  <2>7. PairEarly'
    BY <2>1, <2>2 DEF PairEarly, Pushing, Running, Same
  <2>8. PairKept'
    BY <2>1, <2>2, <2>3, <2>4 DEF PairKept, Same
  <2>9. MailOwn'
    BY <2>1, <2>2, <2>3 DEF MailOwn, Same
  <2> QED BY <2>5, <2>6, <2>7, <2>8, <2>9
<1>7. ASSUME NEW r \in Request,
             \/ ListMembers(r) \/ EndLoop(r) \/ ShowGPGBackup(r)
             \/ \E u \in User : GetUserPubKey(r, u) \/ CheckMember(r, u)
      PROVE  CleanInv'
  <2>1. /\ UNCHANGED <<pubkey, backup, clean, mails, req, local>>
        /\ req[r].op # "push" /\ pc[r] # "done"
        /\ \A q \in Request \ {r} : Same(q)
    BY <1>7 DEF ListMembers, EndLoop, ShowGPGBackup, GetUserPubKey, CheckMember, Goto,
                Finish, Same, TypeOK, CallInv, storeVars, histVars
  <2>2. clean \subseteq Request /\ r \notin clean
    BY <2>1 DEF TypeOK, CleanPush
  <2>3. CleanPush' /\ CleanStored' /\ CleanRead'
    BY <2>1, <2>2 DEF CleanPush, CleanStored, CleanRead, Same
  <2>4. CleanAlone'
    BY <2>1, <2>2 DEF CleanAlone, Pushing, Running, Same
  <2>5. PairEarly'
    BY <2>1, <2>2 DEF PairEarly, Pushing, Running, Same
  <2>6. PairKept'
    BY <2>1, <2>2 DEF PairKept, Same
  <2>7. MailOwn'
    BY <2>1 DEF MailOwn, Same
  <2> QED BY <2>3, <2>4, <2>5, <2>6, <2>7
<1>8. ASSUME Restart \/ Reconfigure \/ UNCHANGED vars
      PROVE  CleanInv'
  <2>1. /\ UNCHANGED <<pubkey, backup, clean, mails, req, local>>
        /\ \A q \in Request : /\ pc'[q] = pc[q] \/ pc'[q] = "done"
                              /\ reply'[q] = "ok" => reply[q] = "ok"
    BY <1>8 DEF Restart, Reconfigure, vars, storeVars, settingVars, queryVars, histVars
  <2>2. clean \subseteq Request
    BY DEF TypeOK
  <2>3. CleanPush' /\ CleanStored' /\ CleanRead'
    BY <2>1, <2>2 DEF CleanPush, CleanStored, CleanRead
  <2>4. CleanAlone'
    BY <2>1, <2>2 DEF CleanAlone, Pushing, Running
  <2>5. PairEarly'
    BY <2>1, <2>2 DEF PairEarly, Pushing, Running
  <2>6. PairKept' /\ MailOwn'
    BY <2>1, <2>2 DEF PairKept, MailOwn
  <2> QED BY <2>3, <2>4, <2>5, <2>6
<1> QED BY <1>1, <1>2, <1>3, <1>4, <1>5, <1>6, <1>7, <1>8 DEF Next, Step, AllServed

\* A step keeps the inductive invariant.
LEMMA InvStep == IInv /\ [Next]_vars => IInv'
BY TypeStep, CallStep, KeyStep, AnnouncedStep, HandedStep, QueryStep, CleanStep DEF IInv

\* In every behaviour of the server the inductive invariant holds.
THEOREM Invariance == Spec => []IInv
BY InitInv, InvStep, PTL DEF Spec

\* Every variable keeps its type, for any number of requests and users.
THEOREM TypeCorrect == Spec => []TypeOK
<1>1. IInv => TypeOK
  BY DEF IInv
<1> QED BY <1>1, Invariance, PTL

\* A push that ran to its end alone leaves the backup of its own key, whatever
\* failed, restarted or was set before.
THEOREM BackupsMatch == Spec => []BackupMatchesKey
<1>1. IInv => BackupMatchesKey
  BY DEF IInv, CleanInv, PairKept, BackupMatchesKey
<1> QED BY <1>1, Invariance, PTL

\* No backup is stored, shown or mailed of a key that was not announced as the
\* user's own.
THEOREM BackupsAnnounced == Spec => []BackupOfAnnouncedKey
<1>1. IInv => BackupOfAnnouncedKey
  <2> SUFFICES ASSUME IInv
               PROVE  BackupOfAnnouncedKey
    OBVIOUS
  <2>1. ASSUME NEW u \in User, backup[u] # Nil
        PROVE  backup[u] \in published /\ req[backup[u]].user = u
    BY <2>1 DEF IInv, AnnouncedInv, AnnouncedOf
  <2>2. ASSUME NEW m \in mails, m[3] # Nil
        PROVE  m[3] \in published /\ req[m[3]].user = m[2]
    <3>1. m \in Request \X User \X MaybeKey
      BY DEF IInv, TypeOK
    <3>2. m = <<m[1], m[2], m[3]>> /\ m[1] \in Request /\ m[2] \in User /\ m[3] \in Request
      BY <2>2, <3>1 DEF MaybeKey
    <3> QED BY <3>2 DEF IInv, HandedInv, AnnouncedOf
  <2>3. ASSUME NEW q \in Request, req[q].op = "show", NEW b \in answer[q], b[2] # Nil
        PROVE  b[2] \in published /\ req[b[2]].user = b[1]
    <3>1. b \in User \X MaybeKey
      BY DEF IInv, TypeOK
    <3>2. b = <<b[1], b[2]>> /\ b[1] \in User /\ b[2] \in Request
      BY <2>3, <3>1 DEF MaybeKey
    <3> QED BY <2>3, <3>2 DEF IInv, HandedInv, AnnouncedOf
  <2> QED BY <2>1, <2>2, <2>3 DEF BackupOfAnnouncedKey
<1> QED BY <1>1, Invariance, PTL

\* The warning about members without a key names nobody who had one and leaves out
\* nobody of the page who has none, however the pushes interleave with its loop.
THEOREM WarningsRight == Spec => []KeylessWarningIsRight
<1>1. IInv => KeylessWarningIsRight
  BY PageAssumption DEF IInv, QueryInv, NobodyLeft, KeylessRight, KeylessNoted, KeylessWarningIsRight
<1> QED BY <1>1, Invariance, PTL

\* A reply of GetPubKeys is complete and not older than the request.
THEOREM RepliesFresh == Spec => []PubKeysReplyIsFresh
<1>1. IInv => PubKeysReplyIsFresh
  BY DEF IInv, QueryInv, NobodyLeft, KeysFresh, KeysNoted, PubKeysReplyIsFresh
<1> QED BY <1>1, Invariance, PTL

\* A push that no other push of the user overlapped mails its own backup.
THEOREM MailsOwn == Spec => []MailedBackupIsOwn
<1>1. IInv => MailedBackupIsOwn
  <2> SUFFICES ASSUME IInv, NEW m \in mails, m[1] \in clean
               PROVE  m[3] = m[1]
    BY DEF MailedBackupIsOwn
  <2>1. m \in Request \X User \X MaybeKey
    BY DEF IInv, TypeOK
  <2>2. m = <<m[1], m[2], m[3]>> /\ m[1] \in Request /\ m[2] \in User /\ m[3] \in MaybeKey
    BY <2>1
  <2> QED BY <2>2 DEF IInv, CleanInv, MailOwn
<1> QED BY <1>1, Invariance, PTL
==============================================================================
