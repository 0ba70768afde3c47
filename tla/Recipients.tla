------------------------------ MODULE Recipients ------------------------------
(***************************************************************************)
(* For whom a message is encrypted, and what the user is told about it:    *)
(* the second half of encryptPost, checkPubkeys and onNewPubKey of         *)
(* webapp/src/hooks.tsx, getPubKeys of actions.ts, the pubkeys reducer and *)
(* pubkeys_storage.ts, for one channel and one tab.  The server's keys are *)
(* those of KeyServer; the keys of one request are read at once here.      *)
(* A step ends at an await.                                                *)
(***************************************************************************)
EXTENDS Integers, Sequences, FiniteSets, SequencesExt

CONSTANTS User,            \* members of the channel, over time
          Call,            \* calls of getPubKeys: for a message sent to the encrypted
                           \* channel, or for the author of a post that is decrypted
          Unloaded,        \* users whose profile the store does not have at first
          MaxChanges       \* bound on the keys that the users register and the
                           \* reconnections of the tab, together

ASSUME RecipientsAssumption == /\ Unloaded \subseteq User
                               /\ MaxChanges \in Nat

VARIABLES
  pubkey,      \* [User -> KeyOrNone]: on the server
  events,      \* [User -> Nat]: newPubkey events on their way to the tab
  pushes,      \* how many keys the users have registered
  reconnects,  \* how many times the tab reconnected
  cache,       \* [User -> KeyOrNone \cup {Unknown}]: the reducer pubkeys
  knownID,     \* [User -> KeyOrNone]: localStorage 'pubkeyID:' + userID
  unloaded,    \* the users whose profile the store does not have
  recipients,  \* SUBSET PubKey: localStorage 'e2eeChannelRecipients:' + chanID
  checks,      \* Seq(SUBSET PubKey): running checkPubkeys, what each still has to do
  call,        \* [Call -> CallState]: what encryptPost, or the display, is at
  firstID,     \* history: [User -> KeyOrNone], the first key known of a user
  warned,      \* history: the keys announced as a change
  silent,      \* history: the changed keys stored as known without a warning
  skipped,     \* history: the keys a check that failed did not get to, and no other has
  announced    \* history: the keys announced as new recipients

countVars == <<pushes, reconnects>>
clientVars == <<cache, knownID, unloaded, recipients, checks, call>>
warnVars == <<firstID, warned, silent, skipped>>
histVars == <<warnVars, announced>>
vars == <<pubkey, events, countVars, clientVars, histVars>>

\* A user's n-th key; none and unknown come first.
Key == 1..MaxChanges
None == 0
Unknown == -1
KeyOrNone == Key \cup {None}
PubKey == User \X Key

Label == {"idle", "lookup", "fetch", "received", "keys", "new", "store",
          "encrypt", "sent", "shown", "error"}
NoCall == [pc |-> "idle", view |-> FALSE, to |-> {}, keys |-> {}, fresh |-> {}]
CallState == [pc : Label, view : BOOLEAN, to : SUBSET User,
              keys : SUBSET PubKey, fresh : SUBSET PubKey]

Init == /\ pubkey = [u \in User |-> None]
        /\ events = [u \in User |-> 0]
        /\ pushes = 0 /\ reconnects = 0
        /\ cache = [u \in User |-> Unknown]
        /\ knownID = [u \in User |-> None]
        /\ unloaded = Unloaded
        /\ recipients = {}
        /\ checks = <<>>
        /\ call = [s \in Call |-> NoCall]
        /\ firstID = [u \in User |-> None]
        /\ warned = {} /\ silent = {} /\ skipped = {} /\ announced = {}

At(s, label) == call[s].pc = label

\* A new value of the reducer, for which the observer starts checkPubkeys: it has
\* to go through the keys of the map.
SetCache(c) ==
  LET todo == {k \in PubKey : c[k[1]] = k[2]}
  IN  /\ cache' = c
      /\ checks' = IF todo = {} THEN checks ELSE Append(checks, todo)

------------------------------------------------------------------------------
\* The server and the websocket.

\* A user registers another key (PushPubKey), and the tab is told.
PushKey(u) ==
  /\ pushes + reconnects < MaxChanges
  /\ pushes' = pushes + 1
  /\ pubkey' = [pubkey EXCEPT ![u] = @ + 1]
  /\ events' = [events EXCEPT ![u] = @ + 1]
  /\ UNCHANGED <<reconnects, clientVars, histVars>>

\* onNewPubKey: the cached key is forgotten.
NewPubKey(u) ==
  /\ events[u] > 0
  /\ events' = [events EXCEPT ![u] = @ - 1]
  /\ SetCache([cache EXCEPT ![u] = Unknown])
  /\ UNCHANGED <<pubkey, countVars, knownID, unloaded, recipients, call, histVars>>

\* onReconnect: events may have been missed, and every cached key is forgotten.
Reconnect ==
  /\ pushes + reconnects < MaxChanges
  /\ reconnects' = reconnects + 1
  /\ events' = [u \in User |-> 0]
  /\ SetCache([u \in User |-> Unknown])
  /\ UNCHANGED <<pubkey, pushes, knownID, unloaded, recipients, call, histVars>>

------------------------------------------------------------------------------
\* checkPubkeys.

\* Fault: the key is compared with the reducer's, which is new already.
IsChangedInCache(u, k) == cache[u] \notin {Unknown, None, k}

\* pubkeyStore: TRUE if another key of the user was known.
IsChanged(u, k) == knownID[u] \notin {None, k}

\* One turn of the i-th loop.  A new identifier is stored, unless localStorage
\* refuses it, before the user's name is looked up for the warning; the refusal and a
\* missing profile end the loop.
CheckKey(i) ==
  \E k \in checks[i], stored \in BOOLEAN :
    LET u == k[1]
        changed == IsChanged(u, k[2])
        ends == ~stored \/ (changed /\ u \in unloaded)
        rest == checks[i] \ {k}
    IN  /\ stored \/ knownID[u] # k[2]
        /\ knownID' = IF stored THEN [knownID EXCEPT ![u] = k[2]] ELSE knownID
        /\ firstID' = IF stored /\ firstID[u] = None THEN [firstID EXCEPT ![u] = k[2]]
                      ELSE firstID
        /\ warned' = IF changed /\ ~ends THEN warned \cup {k} ELSE warned
        /\ silent' = IF changed /\ stored /\ ends THEN silent \cup {k} ELSE silent
        /\ skipped' = IF ends THEN skipped \cup checks[i] ELSE skipped \ {k}
        /\ checks' = IF rest = {} \/ ends THEN RemoveAt(checks, i)
                     ELSE [checks EXCEPT ![i] = rest]
        /\ UNCHANGED <<pubkey, events, countVars, cache, unloaded, recipients, call, announced>>

------------------------------------------------------------------------------
\* encryptPost, once the method is p2p.

GoWith(s, r) == call' = [call EXCEPT ![s] = r]
Goto(s, label) == GoWith(s, [call[s] EXCEPT !.pc = label])
Fail(s) == GoWith(s, [NoCall EXCEPT !.pc = "error"])
ClientOnly == UNCHANGED <<pubkey, events, countVars, cache, knownID, recipients, checks, histVars>>
CallOnly == ClientOnly /\ UNCHANGED unloaded

\* The user sends a message; getUserIdsInChannel: some members, whose profiles are
\* loaded by it, or an error.
GetUsers(s) ==
  /\ At(s, "idle")
  /\ \/ \E to \in (SUBSET User) \ {{}} :
          /\ GoWith(s, [call[s] EXCEPT !.pc = "lookup", !.to = to])
          /\ unloaded' = unloaded \ to
     \/ Fail(s) /\ UNCHANGED unloaded
  /\ ClientOnly

\* A post is displayed, or looked at by onPosted: its author's key is asked for.
GetAuthor(s) ==
  /\ At(s, "idle")
  /\ \E u \in User : GoWith(s, [call[s] EXCEPT !.pc = "lookup", !.view = TRUE, !.to = {u}])
  /\ CallOnly

\* Fault: a cached null is taken for a key.
LookUpNull(s) ==
  /\ At(s, "lookup")
  /\ LET missing == {u \in call[s].to : cache[u] = Unknown}
     IN  GoWith(s, [call[s] EXCEPT !.pc = IF missing = {} THEN "keys" ELSE "fetch",
                                   !.to = missing,
                                   !.keys = {<<u, cache[u]>> : u \in call[s].to \ missing}])
  /\ CallOnly

\* getPubKeys takes what the cache has; null means that the user has no key.
LookUp(s) ==
  /\ At(s, "lookup")
  /\ LET missing == {u \in call[s].to : cache[u] = Unknown}
     IN  GoWith(s, [call[s] EXCEPT !.pc = IF missing = {} THEN "keys" ELSE "fetch",
                                   !.to = missing,
                                   !.keys = {k \in call[s].to \X Key : cache[k[1]] = k[2]}])
  /\ CallOnly

\* The server answers for the users that are missing, or the request fails.
Fetch(s) ==
  /\ At(s, "fetch")
  /\ \/ GoWith(s, [call[s] EXCEPT !.pc = "received",
                                  !.fresh = {k \in call[s].to \X Key : pubkey[k[1]] = k[2]}])
     \/ Fail(s)
  /\ CallOnly

\* RECEIVED_PUBKEYS: the answer is cached, null included, whatever came before.
Receive(s) ==
  /\ At(s, "received")
  /\ LET r == call[s]
         answer(u) == IF \E k \in r.fresh : k[1] = u
                      THEN (CHOOSE k \in r.fresh : k[1] = u)[2] ELSE None
     IN  /\ SetCache([u \in User |-> IF u \in r.to THEN answer(u) ELSE cache[u]])
         /\ GoWith(s, [r EXCEPT !.pc = "keys", !.to = {},
                                !.keys = r.keys \cup r.fresh, !.fresh = {}])
  /\ UNCHANGED <<pubkey, events, countVars, knownID, unloaded, recipients, histVars>>

\* The post is decrypted with the key, or cannot be.
Display(s) ==
  /\ At(s, "keys") /\ call[s].view
  /\ GoWith(s, [NoCall EXCEPT !.pc = "shown"])
  /\ CallOnly

\* getNewChannelPubkeys reads the stored recipients; without a private key the
\* message is refused.  The test pubkeys.length === 0 on a Map never holds.
FindNew(s) ==
  /\ At(s, "keys") /\ ~call[s].view
  /\ \/ GoWith(s, [call[s] EXCEPT !.pc = "new", !.fresh = call[s].keys \ recipients])
     \/ Fail(s)
  /\ CallOnly

\* Fault: inconsistent usernames do not stop the message.
AnnounceOrSkip(s) ==
  /\ At(s, "new")
  /\ GoWith(s, [call[s] EXCEPT !.pc = "store", !.fresh = {}])
  /\ announced' \in {announced, announced \cup call[s].fresh}
  /\ UNCHANGED <<pubkey, events, countVars, cache, knownID, unloaded, recipients, checks,
                 warnVars>>

\* New recipients are announced, if the usernames of the channel are consistent.
Announce(s) ==
  /\ At(s, "new")
  /\ \/ GoWith(s, [call[s] EXCEPT !.pc = "store", !.fresh = {}])
        /\ announced' = announced \cup call[s].fresh
     \/ call[s].fresh # {} /\ Fail(s) /\ UNCHANGED announced
  /\ UNCHANGED <<pubkey, events, countVars, cache, knownID, unloaded, recipients, checks,
                 warnVars>>

\* storeChannelPubkeys replaces the stored recipients.
Store(s) ==
  /\ At(s, "store")
  /\ recipients' = call[s].keys
  /\ Goto(s, "encrypt")
  /\ UNCHANGED <<pubkey, events, countVars, cache, knownID, unloaded, checks, histVars>>

\* await encryptProm.
Encrypted(s) ==
  /\ At(s, "encrypt")
  /\ Goto(s, "sent") \/ Fail(s)
  /\ CallOnly

CallStep(s) == \/ GetUsers(s) \/ GetAuthor(s) \/ LookUp(s) \/ Fetch(s) \/ Receive(s)
               \/ Display(s) \/ FindNew(s) \/ Announce(s) \/ Store(s) \/ Encrypted(s)

Done == /\ \A s \in Call : call[s].pc \in {"sent", "shown", "error"}
        /\ UNCHANGED vars

Next == \/ \E u \in User : PushKey(u) \/ NewPubKey(u)
        \/ Reconnect
        \/ \E i \in DOMAIN checks : CheckKey(i)
        \/ \E s \in Call : CallStep(s)
        \/ Done

Spec == Init /\ [][Next]_vars

------------------------------------------------------------------------------

\* Every variable has its type.
TypeOK == /\ pubkey \in [User -> KeyOrNone]
          /\ events \in [User -> 0..MaxChanges]
          /\ pushes \in 0..MaxChanges /\ reconnects \in 0..MaxChanges
          /\ cache \in [User -> KeyOrNone \cup {Unknown}]
          /\ knownID \in [User -> KeyOrNone] /\ firstID \in [User -> KeyOrNone]
          /\ unloaded \subseteq User
          /\ recipients \subseteq PubKey /\ announced \subseteq PubKey
          /\ checks \in Seq(SUBSET PubKey)
          /\ call \in [Call -> CallState]
          /\ warned \subseteq PubKey /\ silent \subseteq PubKey /\ skipped \subseteq PubKey

\* Every key that a message was encrypted for has been announced to the user as a
\* recipient of the channel, although calls overlap and replace each other's list
\* of recipients, and calls may fail between the two.
SentToAnnounced == \A s \in Call : At(s, "sent") => call[s].keys \subseteq announced

\* Once the running checks are over, a cached key is the first one known of its
\* user, or the user was warned of this very key: no order of answers, events and
\* overlapping checks on old copies of the cache hides a change, be it the first of
\* that user or a later one.  What a check that failed did not announce is excepted:
\* the key that it stored as known, for good, and the keys that it did not get to,
\* until another check does.
ChangedKeyIsWarned ==
  checks = <<>> =>
    \A u \in User : cache[u] \in Key =>
      cache[u] = firstID[u] \/ <<u, cache[u]>> \in warned \cup silent \cup skipped
==============================================================================
