--------------------------- MODULE RecipientsProofs ---------------------------
(***************************************************************************)
(* What Recipients guarantees for every set of users and calls: its types, *)
(* that a message is encrypted for announced keys only, and that no change *)
(* of a key, a user's first one or a later one, goes unnoticed.            *)
(***************************************************************************)
EXTENDS Recipients, SequenceTheorems, TLAPS

\* The users' keys and the events about them are as many as were pushed, at most.
Counted == \A u \in User : pubkey[u] <= pushes /\ events[u] <= pushes

\* The stored recipients have been announced, and so has every key of a message from
\* the announcement on; before it, those that the message does not hold for new.
StoredAnnounced == recipients \subseteq announced
OldAnnounced ==
  \A s \in Call : call[s].pc = "new" => call[s].keys \subseteq announced \cup call[s].fresh
KeysAnnounced ==
  \A s \in Call : call[s].pc \in {"store", "encrypt", "sent"} => call[s].keys \subseteq announced

AnnounceInv == StoredAnnounced /\ OldAnnounced /\ KeysAnnounced

\* The key that is known of a user is the first one, or the user was warned of it, or a
\* failed check stored it without a warning; ...
FirstKnown ==
  \A u \in User : knownID[u] = firstID[u] \/ <<u, knownID[u]>> \in warned \cup silent
\* ... and a cached key is one of these too, or a failed check did not get to it, or a
\* running one still has to look at it.
ToCheck ==
  \A u \in User : cache[u] \in Key =>
    \/ cache[u] = firstID[u]
    \/ <<u, cache[u]>> \in warned \cup silent \cup skipped
    \/ \E i \in 1..Len(checks) : <<u, cache[u]>> \in checks[i]

\* The inductive invariant.
IInv == TypeOK /\ Counted /\ AnnounceInv /\ FirstKnown /\ ToCheck

\* None and unknown are no keys, and every key is one or none.
LEMMA KeyKinds ==
  /\ None \notin Key /\ Unknown \notin Key /\ Unknown # None
  /\ Key \subseteq KeyOrNone /\ None \in KeyOrNone
  /\ \A k \in KeyOrNone : k # None => k \in Key
  /\ KeyOrNone = 0..MaxChanges
BY RecipientsAssumption DEF Key, None, Unknown, KeyOrNone

\* A reducer's new value is typed, and the check started for it has every key in it
\* to look at.
LEMMA CacheSet ==
  ASSUME checks \in Seq(SUBSET PubKey), NEW c \in [User -> KeyOrNone \cup {Unknown}],
         SetCache(c)
  PROVE  /\ cache' = c /\ checks' \in Seq(SUBSET PubKey)
         /\ \A u \in User : c[u] \in Key =>
              \E i \in 1..Len(checks') : <<u, c[u]>> \in checks'[i]
<1> DEFINE todo == {k \in PubKey : c[k[1]] = k[2]}
<1>1. cache' = c /\ checks' = (IF todo = {} THEN checks ELSE Append(checks, todo))
  BY DEF SetCache
<1>2. todo \in SUBSET PubKey
  OBVIOUS
<1>3. \A u \in User : c[u] \in Key => <<u, c[u]>> \in todo
  BY DEF PubKey
<1> HIDE DEF todo
<1>4. CASE todo = {}
  BY <1>1, <1>3, <1>4
<1>5. CASE todo # {}
  <2>1. /\ checks' = Append(checks, todo) /\ checks' \in Seq(SUBSET PubKey)
        /\ Len(checks') = Len(checks) + 1 /\ Len(checks) \in Nat
        /\ checks'[Len(checks) + 1] = todo
    BY <1>1, <1>2, <1>5
  <2>2. Len(checks) + 1 \in 1..Len(checks')
    BY <2>1
  <2> QED BY <1>1, <1>3, <2>1, <2>2
<1> QED BY <1>4, <1>5

\* What is left of a sequence when an element is removed.
LEMMA Removed ==
  ASSUME NEW S, NEW s \in Seq(S), NEW i \in 1..Len(s)
  PROVE  /\ RemoveAt(s, i) \in Seq(S)
         /\ \A j \in 1..Len(s) : j # i =>
              \E n \in 1..Len(RemoveAt(s, i)) : RemoveAt(s, i)[n] = s[j]
<1> DEFINE a == SubSeq(s, 1, i - 1)
           b == SubSeq(s, i + 1, Len(s))
<1>1. Len(s) \in Nat /\ i \in Nat /\ i >= 1 /\ i <= Len(s)
  OBVIOUS
<1>2. /\ a \in Seq(S) /\ Len(a) = i - 1
      /\ \A j \in 1..(i - 1) : a[j] = s[j]
  BY <1>1
<1>3. /\ b \in Seq(S) /\ Len(b) = Len(s) - i
      /\ \A j \in 1..(Len(s) - i) : b[j] = s[i + j]
  BY <1>1
<1>4. RemoveAt(s, i) = a \o b
  BY DEF RemoveAt
<1> HIDE DEF a, b
<1>5. /\ a \o b \in Seq(S) /\ Len(a \o b) = Len(s) - 1
      /\ \A j \in 1..(i - 1) : (a \o b)[j] = s[j]
      /\ \A j \in (i + 1)..Len(s) : (a \o b)[j - 1] = s[j]
  <2>0. a \o b \in Seq(S) /\ Len(a \o b) = Len(a) + Len(b)
    BY <1>2, <1>3, ConcatProperties
  <2>1. a \o b \in Seq(S) /\ Len(a \o b) = Len(s) - 1
    BY <1>1, <1>2, <1>3, <2>0
  <2>2. \A j \in 1..(i - 1) : (a \o b)[j] = s[j]
    BY <1>1, <1>2, <1>3
  <2>3. ASSUME NEW j \in (i + 1)..Len(s)
        PROVE  (a \o b)[j - 1] = s[j]
    <3>1. /\ j - 1 \in 1..(Len(a) + Len(b)) /\ ~(j - 1 <= Len(a))
          /\ (j - 1) - Len(a) = j - i /\ j - i \in 1..(Len(s) - i) /\ i + (j - i) = j
      BY <1>1, <1>2, <1>3
    <3>2. (a \o b)[j - 1] = b[j - i]
      BY <1>2, <1>3, <3>1
    <3> QED BY <1>3, <3>1, <3>2
  <2> QED BY <2>1, <2>2, <2>3
<1>6. ASSUME NEW j \in 1..Len(s), j # i
      PROVE  \E n \in 1..Len(a \o b) : (a \o b)[n] = s[j]
  <2>1. CASE j < i
    <3>1. j \in 1..(i - 1) /\ j \in 1..Len(a \o b)
      BY <1>1, <1>5, <2>1
    <3> QED BY <1>5, <3>1
  <2>2. CASE j > i
    <3>1. j \in (i + 1)..Len(s) /\ j - 1 \in 1..Len(a \o b)
      BY <1>1, <1>5, <2>2
    <3> QED BY <1>5, <3>1
  <2> QED BY <1>1, <1>6, <2>1, <2>2
<1> QED BY <1>4, <1>5, <1>6

\* The fields of a call.
LEMMA CallFields ==
  ASSUME NEW r \in CallState
  PROVE  /\ r.pc \in Label /\ r.view \in BOOLEAN /\ r.to \subseteq User
         /\ r.keys \subseteq PubKey /\ r.fresh \subseteq PubKey
BY DEF CallState

\* The initial states satisfy the inductive invariant.
LEMMA InitInv == Init => IInv
<1> SUFFICES ASSUME Init PROVE IInv
  OBVIOUS
<1> USE DEF Init
<1>1. NoCall \in CallState
  BY DEF NoCall, CallState, Label
<1>2. TypeOK
  <2>1. KeyOrNone = 0..MaxChanges /\ MaxChanges \in Nat /\ None = 0
    BY KeyKinds, RecipientsAssumption DEF None
  <2>2. checks \in Seq(SUBSET PubKey) /\ call \in [Call -> CallState]
    BY <1>1
  <2>3. /\ pubkey \in [User -> KeyOrNone] /\ events \in [User -> 0..MaxChanges]
        /\ pushes \in 0..MaxChanges /\ reconnects \in 0..MaxChanges
        /\ knownID \in [User -> KeyOrNone] /\ firstID \in [User -> KeyOrNone]
        /\ cache \in [User -> KeyOrNone \cup {Unknown}]
    BY <2>1
  <2>4. unloaded \subseteq User
    BY RecipientsAssumption
  <2> QED BY <2>2, <2>3, <2>4 DEF TypeOK
<1>3. Counted
  BY DEF Counted, None
<1>4. AnnounceInv
  BY DEF AnnounceInv, StoredAnnounced, OldAnnounced, KeysAnnounced, NoCall
<1>5. FirstKnown /\ ToCheck
  BY KeyKinds DEF FirstKnown, ToCheck
<1> QED BY <1>2, <1>3, <1>4, <1>5 DEF IInv

\* Every step of a call changes this call only, to a state of the right type.
LEMMA CallType ==
  ASSUME TypeOK, NEW s \in Call, CallStep(s)
  PROVE  \E r \in CallState : call' = [call EXCEPT ![s] = r]
<1>0. call[s] \in CallState /\ pubkey \in [User -> KeyOrNone] /\ cache \in [User -> KeyOrNone \cup {Unknown}]
  BY DEF TypeOK
<1> USE DEF CallState, Label, GoWith, Goto, At
<1>1. CASE Fail(s)
  BY <1>1 DEF Fail, NoCall
<1>2. CASE GetUsers(s)
  BY <1>0, <1>1, <1>2 DEF GetUsers
<1>10. CASE GetAuthor(s)
  BY <1>0, <1>10 DEF GetAuthor
<1>11. CASE Display(s)
  BY <1>11 DEF Display, NoCall
<1>3. CASE LookUp(s)
  <2>1. \A to \in SUBSET User : {k \in to \X Key : cache[k[1]] = k[2]} \subseteq PubKey
    BY DEF PubKey
  <2> DEFINE missing == {u \in call[s].to : cache[u] = Unknown}
             found == {k \in call[s].to \X Key : cache[k[1]] = k[2]}
  <2>2. call' = [call EXCEPT ![s] = [call[s] EXCEPT !.pc = IF missing = {} THEN "keys" ELSE "fetch",
                                                    !.to = missing, !.keys = found]]
    BY <1>3 DEF LookUp
  <2>3. missing \subseteq User /\ found \subseteq PubKey
    BY <1>0, <2>1
  <2> HIDE DEF missing, found
  <2>4. [call[s] EXCEPT !.pc = IF missing = {} THEN "keys" ELSE "fetch",
                        !.to = missing, !.keys = found] \in CallState
    BY <1>0, <2>3
  <2> QED BY <2>2, <2>4
<1>4. CASE Fetch(s)
  <2> DEFINE found == {k \in call[s].to \X Key : pubkey[k[1]] = k[2]}
  <2>1. found \subseteq PubKey
    BY <1>0 DEF PubKey
  <2>2. Fail(s) \/ call' = [call EXCEPT ![s] = [call[s] EXCEPT !.pc = "received", !.fresh = found]]
    BY <1>4 DEF Fetch
  <2> HIDE DEF found
  <2> QED BY <1>0, <1>1, <2>1, <2>2
<1>5. CASE Receive(s)
  <2>1. call' = [call EXCEPT ![s] = [call[s] EXCEPT !.pc = "keys", !.to = {},
                                        !.keys = call[s].keys \cup call[s].fresh, !.fresh = {}]]
    BY <1>5 DEF Receive
  <2> QED BY <1>0, <2>1
<1>6. CASE FindNew(s)
  BY <1>0, <1>1, <1>6 DEF FindNew
<1>7. CASE Announce(s)
  BY <1>0, <1>1, <1>7 DEF Announce
<1>8. CASE Store(s)
  BY <1>0, <1>8 DEF Store
<1>9. CASE Encrypted(s)
  BY <1>0, <1>1, <1>9 DEF Encrypted
<1> QED BY <1>2, <1>3, <1>4, <1>5, <1>6, <1>7, <1>8, <1>9, <1>10, <1>11 DEF CallStep

\* The new cache of the three steps that replace it.
LEMMA CacheStep ==
  ASSUME TypeOK, \/ \E u \in User : NewPubKey(u)
                 \/ Reconnect
                 \/ \E s \in Call : Receive(s)
  PROVE  \E c \in [User -> KeyOrNone \cup {Unknown}] : SetCache(c)
<1>1. ASSUME NEW u \in User, NewPubKey(u)
      PROVE  \E c \in [User -> KeyOrNone \cup {Unknown}] : SetCache(c)
  <2>1. [cache EXCEPT ![u] = Unknown] \in [User -> KeyOrNone \cup {Unknown}]
    BY DEF TypeOK
  <2> QED BY <1>1, <2>1 DEF NewPubKey
<1>2. CASE Reconnect
  <2>1. [u \in User |-> Unknown] \in [User -> KeyOrNone \cup {Unknown}]
    OBVIOUS
  <2> QED BY <1>2, <2>1 DEF Reconnect
<1>3. ASSUME NEW s \in Call, Receive(s)
      PROVE  \E c \in [User -> KeyOrNone \cup {Unknown}] : SetCache(c)
  <2> DEFINE answer(u) == IF \E k \in call[s].fresh : k[1] = u
                          THEN (CHOOSE k \in call[s].fresh : k[1] = u)[2] ELSE None
             c == [u \in User |-> IF u \in call[s].to THEN answer(u) ELSE cache[u]]
  <2>1. SetCache(c)
    BY <1>3 DEF Receive
  <2>2. call[s].fresh \subseteq PubKey /\ cache \in [User -> KeyOrNone \cup {Unknown}]
    BY CallFields DEF TypeOK
  <2>3. ASSUME NEW u \in User
        PROVE  answer(u) \in KeyOrNone
    <3>1. CASE \E k \in call[s].fresh : k[1] = u
      <4>1. (CHOOSE k \in call[s].fresh : k[1] = u) \in PubKey
        BY <2>2, <3>1
      <4>2. \A k \in PubKey : k[2] \in KeyOrNone
        BY KeyKinds DEF PubKey
      <4> QED BY <3>1, <4>1, <4>2
    <3>2. CASE ~\E k \in call[s].fresh : k[1] = u
      BY <3>2, KeyKinds
    <3> QED BY <3>1, <3>2
  <2> HIDE DEF answer
  <2>4. c \in [User -> KeyOrNone \cup {Unknown}]
    BY <2>2, <2>3
  <2> QED BY <2>1, <2>4
<1> QED BY <1>1, <1>2, <1>3

\* A step keeps the types.
LEMMA TypeStep ==
  ASSUME TypeOK, Counted, [Next]_vars
  PROVE  TypeOK' /\ Counted'
<1> DEFINE Goal == TypeOK' /\ Counted'
<1> SUFFICES Goal
  OBVIOUS
<1> USE DEF TypeOK
<1>0. KeyOrNone = 0..MaxChanges /\ MaxChanges \in Nat
  BY KeyKinds, RecipientsAssumption
<1>1. ASSUME NEW u \in User, PushKey(u)
      PROVE  Goal
  <2>1. /\ pushes + reconnects < MaxChanges /\ pushes' = pushes + 1
        /\ pubkey' = [pubkey EXCEPT ![u] = @ + 1] /\ events' = [events EXCEPT ![u] = @ + 1]
        /\ UNCHANGED <<reconnects, cache, knownID, unloaded, recipients, checks, call,
                       firstID, warned, silent, skipped, announced>>
    BY <1>1 DEF PushKey, clientVars, warnVars, histVars
  <2>2. /\ pubkey[u] \in Nat /\ events[u] \in Nat /\ pushes \in Nat /\ reconnects \in Nat
        /\ pubkey[u] <= pushes /\ events[u] <= pushes
    BY <1>0 DEF Counted
  <2>3. pubkey[u] + 1 \in KeyOrNone /\ events[u] + 1 \in 0..MaxChanges /\ pushes' \in 0..MaxChanges
    BY <1>0, <2>1, <2>2
  <2>4. pubkey' \in [User -> KeyOrNone] /\ events' \in [User -> 0..MaxChanges]
    BY <2>1, <2>3
  <2>5. TypeOK'
    BY <2>1, <2>3, <2>4
  <2>6. Counted'
    BY <1>0, <2>1, <2>2 DEF Counted
  <2> QED BY <2>5, <2>6
<1>2. ASSUME NEW u \in User, NewPubKey(u)
      PROVE  Goal
  <2>1. cache' \in [User -> KeyOrNone \cup {Unknown}] /\ checks' \in Seq(SUBSET PubKey)
    BY <1>2, CacheStep, CacheSet
  <2>2. /\ events[u] > 0 /\ events' = [events EXCEPT ![u] = @ - 1]
        /\ UNCHANGED <<pubkey, pushes, reconnects, knownID, unloaded, recipients, call,
                       firstID, warned, silent, skipped, announced>>
    BY <1>2 DEF NewPubKey, countVars, warnVars, histVars
  <2>3. events' \in [User -> 0..MaxChanges]
    BY <1>0, <2>2
  <2>4. TypeOK'
    BY <2>1, <2>2, <2>3
  <2>5. Counted'
    BY <1>0, <2>2 DEF Counted
  <2> QED BY <2>4, <2>5
<1>3. CASE Reconnect
  <2>1. cache' \in [User -> KeyOrNone \cup {Unknown}] /\ checks' \in Seq(SUBSET PubKey)
    BY <1>3, CacheStep, CacheSet
  <2>2. /\ pushes + reconnects < MaxChanges /\ reconnects' = reconnects + 1
        /\ events' = [u \in User |-> 0]
        /\ UNCHANGED <<pubkey, pushes, knownID, unloaded, recipients, call,
                       firstID, warned, silent, skipped, announced>>
    BY <1>3 DEF Reconnect, warnVars, histVars
  <2>3. TypeOK'
    BY <1>0, <2>1, <2>2
  <2>4. Counted'
    BY <2>2 DEF Counted
  <2> QED BY <2>3, <2>4
<1>4. ASSUME NEW i \in DOMAIN checks, CheckKey(i)
      PROVE  Goal
  <2>1. PICK k \in checks[i] :
          /\ knownID' \in {knownID, [knownID EXCEPT ![k[1]] = k[2]]}
          /\ firstID' \in {firstID, [firstID EXCEPT ![k[1]] = k[2]]}
          /\ warned' \in {warned, warned \cup {k}} /\ silent' \in {silent, silent \cup {k}}
          /\ skipped' \in {skipped \cup checks[i], skipped \ {k}}
          /\ checks' \in {RemoveAt(checks, i), [checks EXCEPT ![i] = checks[i] \ {k}]}
    BY <1>4 DEF CheckKey
  <2>2. i \in 1..Len(checks) /\ checks[i] \in SUBSET PubKey
    OBVIOUS
  <2>3. k[1] \in User /\ k[2] \in KeyOrNone
    BY <2>2, KeyKinds DEF PubKey
  <2>4. checks' \in Seq(SUBSET PubKey)
    <3>1. RemoveAt(checks, i) \in Seq(SUBSET PubKey)
      BY <2>2, Removed
    <3>2. [checks EXCEPT ![i] = checks[i] \ {k}] \in Seq(SUBSET PubKey)
      BY <2>2
    <3> QED BY <2>1, <3>1, <3>2
  <2>5. UNCHANGED <<pubkey, events, pushes, reconnects, cache, unloaded, recipients, call, announced>>
    BY <1>4 DEF CheckKey, countVars
  <2>6. knownID' \in [User -> KeyOrNone] /\ firstID' \in [User -> KeyOrNone]
    BY <2>1, <2>3
  <2>9. warned' \subseteq PubKey /\ silent' \subseteq PubKey /\ skipped' \subseteq PubKey
    BY <2>1, <2>2
  <2>7. TypeOK'
    BY <2>4, <2>5, <2>6, <2>9
  <2>8. Counted'
    BY <2>5 DEF Counted
  <2> QED BY <2>7, <2>8
<1>5. ASSUME NEW s \in Call, CallStep(s)
      PROVE  Goal
  <2>1. call' \in [Call -> CallState]
    BY <1>5, CallType
  <2>2. cache' \in [User -> KeyOrNone \cup {Unknown}] /\ checks' \in Seq(SUBSET PubKey)
    <3>1. CASE Receive(s)
      BY <3>1, CacheStep, CacheSet
    <3>2. CASE ~Receive(s)
      BY <1>5, <3>2 DEF CallStep, CallOnly, ClientOnly, GetUsers, GetAuthor, Display, LookUp, Fetch, FindNew, Announce, Store, Encrypted
    <3> QED BY <3>1, <3>2
  <2>3. UNCHANGED <<pubkey, events, pushes, reconnects, knownID,
                  firstID, warned, silent, skipped>>
    BY <1>5 DEF CallStep, CallOnly, ClientOnly, GetUsers, GetAuthor, Display, LookUp, Fetch, Receive,
                FindNew, Announce, Store, Encrypted, countVars, warnVars, histVars
  <2>4. call[s].keys \subseteq PubKey /\ call[s].fresh \subseteq PubKey
    BY CallFields
  <2>5. recipients' \in {recipients, call[s].keys} /\ announced' \in {announced, announced \cup call[s].fresh}
    BY <1>5 DEF CallStep, CallOnly, ClientOnly, GetUsers, GetAuthor, Display, LookUp, Fetch, Receive,
                FindNew, Announce, Store, Encrypted, warnVars, histVars
  <2>8. unloaded' \subseteq User
    BY <1>5 DEF CallStep, CallOnly, GetUsers, GetAuthor, Display, LookUp, Fetch, Receive, FindNew,
                Announce, Store, Encrypted
  <2>6. TypeOK'
    BY <2>1, <2>2, <2>3, <2>4, <2>5, <2>8
  <2>7. Counted'
    BY <2>3 DEF Counted
  <2> QED BY <2>6, <2>7
<1>6. CASE UNCHANGED vars
  BY <1>6 DEF vars, countVars, clientVars, warnVars, histVars, Counted
<1> HIDE DEF TypeOK
<1> QED BY <1>1, <1>2, <1>3, <1>4, <1>5, <1>6 DEF Next, Done

\* A step keeps the invariant about the announcements.
LEMMA AnnounceStep ==
  ASSUME TypeOK, AnnounceInv, [Next]_vars
  PROVE  AnnounceInv'
<1> USE DEF AnnounceInv
<1>0. call \in [Call -> CallState]
  BY DEF TypeOK
<1>1. CASE UNCHANGED <<recipients, announced, call>>
  BY <1>1 DEF StoredAnnounced, OldAnnounced, KeysAnnounced
<1>2. ASSUME NEW s \in Call, CallStep(s)
      PROVE  AnnounceInv'
  <2>1. PICK r \in CallState : call' = [call EXCEPT ![s] = r]
    BY <1>2, CallType
  <2>2. /\ \A q \in Call : q # s => call'[q] = call[q]
        /\ call'[s] = r
    BY <1>0, <2>1
  <2>3. announced \subseteq announced'
    BY <1>2 DEF CallStep, CallOnly, ClientOnly, GetUsers, GetAuthor, Display, LookUp, Fetch, Receive,
                FindNew, Announce, Store, Encrypted, histVars
  <2>4. recipients' \subseteq announced'
    BY <1>2, <2>3 DEF CallStep, CallOnly, ClientOnly, GetUsers, GetAuthor, Display, LookUp, Fetch,
                      Receive, FindNew, Announce, Store, Encrypted, At, StoredAnnounced, KeysAnnounced
  <2>5. /\ r.pc = "new" => r.keys \subseteq announced' \cup r.fresh
        /\ r.pc \in {"store", "encrypt", "sent"} => r.keys \subseteq announced'
    <3>0. call[s] \in CallState
      BY <1>0
    <3> USE DEF GoWith, Goto, At
    <3>1. CASE Fail(s)
      BY <1>0, <2>2, <3>1 DEF Fail, NoCall
    <3>2. CASE GetUsers(s) \/ LookUp(s) \/ Fetch(s) \/ Receive(s)
      <4>1. CASE GetUsers(s)
        <5>1. Fail(s) \/ \E to \in SUBSET User :
                            call' = [call EXCEPT ![s] = [call[s] EXCEPT !.pc = "lookup", !.to = to]]
          BY <4>1 DEF GetUsers
        <5>2. ASSUME NEW to,
                     call' = [call EXCEPT ![s] = [call[s] EXCEPT !.pc = "lookup", !.to = to]]
              PROVE  r.pc = "lookup"
          BY <1>0, <2>2, <3>0, <5>2 DEF CallState
        <5> QED BY <3>1, <5>1, <5>2
      <4>2. CASE LookUp(s)
        <5> DEFINE missing == {u \in call[s].to : cache[u] = Unknown}
                   found == {k \in call[s].to \X Key : cache[k[1]] = k[2]}
                   label == IF missing = {} THEN "keys" ELSE "fetch"
        <5>1. call' = [call EXCEPT ![s] = [call[s] EXCEPT !.pc = label, !.to = missing, !.keys = found]]
          BY <4>2 DEF LookUp
        <5>2. label \in {"keys", "fetch"}
          OBVIOUS
        <5> HIDE DEF missing, found, label
        <5>3. r.pc = label
          BY <1>0, <2>2, <3>0, <5>1 DEF CallState
        <5> QED BY <5>2, <5>3
      <4>3. CASE Fetch(s)
        <5> DEFINE found == {k \in call[s].to \X Key : pubkey[k[1]] = k[2]}
        <5>1. Fail(s) \/ call' = [call EXCEPT ![s] = [call[s] EXCEPT !.pc = "received", !.fresh = found]]
          BY <4>3 DEF Fetch
        <5> HIDE DEF found
        <5>2. CASE call' = [call EXCEPT ![s] = [call[s] EXCEPT !.pc = "received", !.fresh = found]]
          <6>1. r.pc = "received"
            BY <1>0, <2>2, <3>0, <5>2 DEF CallState
          <6> QED BY <6>1
        <5> QED BY <3>1, <5>1, <5>2
      <4>4. CASE Receive(s)
        <5>1. call' = [call EXCEPT ![s] = [call[s] EXCEPT !.pc = "keys", !.to = {},
                                              !.keys = call[s].keys \cup call[s].fresh, !.fresh = {}]]
          BY <4>4 DEF Receive
        <5> QED BY <1>0, <2>2, <3>0, <5>1 DEF CallState
      <4> QED BY <3>2, <4>1, <4>2, <4>3, <4>4
    <3>7. CASE GetAuthor(s)
      <4>1. PICK u \in User : call' = [call EXCEPT ![s] = [call[s] EXCEPT !.pc = "lookup", !.view = TRUE,
                                                                      !.to = {u}]]
        BY <3>7 DEF GetAuthor
      <4>2. r.pc = "lookup"
        BY <1>0, <2>2, <3>0, <4>1 DEF CallState
      <4> QED BY <4>2
    <3>8. CASE Display(s)
      BY <1>0, <2>2, <3>8 DEF Display, NoCall
    <3>3. CASE FindNew(s)
      <4>1. CASE call' = [call EXCEPT ![s] = [call[s] EXCEPT !.pc = "new", !.fresh = call[s].keys \ recipients]]
        <5>1. r.pc = "new" /\ r.keys = call[s].keys /\ r.fresh = call[s].keys \ recipients
          BY <1>0, <2>2, <3>0, <4>1 DEF CallState
        <5>2. recipients \subseteq announced'
          BY <2>3 DEF StoredAnnounced
        <5> QED BY <5>1, <5>2
      <4> QED BY <3>1, <3>3, <4>1 DEF FindNew
    <3>4. CASE Announce(s)
      <4>1. CASE /\ call' = [call EXCEPT ![s] = [call[s] EXCEPT !.pc = "store", !.fresh = {}]]
                 /\ announced' = announced \cup call[s].fresh
        <5>1. r.pc = "store" /\ r.keys = call[s].keys
          BY <1>0, <2>2, <3>0, <4>1 DEF CallState
        <5>2. call[s].keys \subseteq announced'
          BY <3>4, <4>1 DEF Announce, OldAnnounced
        <5> QED BY <5>1, <5>2
      <4> QED BY <3>1, <3>4, <4>1 DEF Announce
    <3>5. CASE Store(s)
      BY <1>0, <2>2, <2>3, <3>0, <3>5 DEF Store, CallState, KeysAnnounced
    <3>6. CASE Encrypted(s)
      BY <1>0, <2>2, <2>3, <3>0, <3>1, <3>6 DEF Encrypted, CallState, KeysAnnounced
    <3> QED BY <1>2, <3>2, <3>3, <3>4, <3>5, <3>6, <3>7, <3>8 DEF CallStep
  <2>6. StoredAnnounced'
    BY <2>4 DEF StoredAnnounced
  <2>7. OldAnnounced'
    BY <2>2, <2>3, <2>5 DEF OldAnnounced
  <2>8. KeysAnnounced'
    BY <2>2, <2>3, <2>5 DEF KeysAnnounced
  <2> QED BY <2>6, <2>7, <2>8
<1> QED BY <1>1, <1>2 DEF Next, Done, PushKey, NewPubKey, Reconnect, CheckKey,
                          vars, clientVars, histVars

\* A step keeps the invariant about the warnings.
LEMMA WarnStep ==
  ASSUME TypeOK, FirstKnown, ToCheck, [Next]_vars
  PROVE  FirstKnown' /\ ToCheck'
<1> DEFINE Goal == FirstKnown' /\ ToCheck'
<1> SUFFICES Goal
  OBVIOUS
<1>0. checks \in Seq(SUBSET PubKey)
  BY DEF TypeOK
<1>1. CASE UNCHANGED <<cache, checks, knownID, firstID, warned, silent, skipped>>
  BY <1>1 DEF FirstKnown, ToCheck
<1>2. CASE (\E u \in User : NewPubKey(u)) \/ Reconnect \/ \E s \in Call : Receive(s)
  <2>1. UNCHANGED <<knownID, firstID, warned, silent, skipped>>
    BY <1>2 DEF NewPubKey, Reconnect, Receive, warnVars, histVars
  <2>2. PICK c \in [User -> KeyOrNone \cup {Unknown}] : SetCache(c)
    BY <1>2, CacheStep
  <2>3. cache' = c /\ \A u \in User : c[u] \in Key =>
              \E i \in 1..Len(checks') : <<u, c[u]>> \in checks'[i]
    BY <1>0, <2>2, CacheSet
  <2>4. FirstKnown'
    BY <2>1 DEF FirstKnown
  <2>5. ToCheck'
    BY <2>3 DEF ToCheck
  <2> QED BY <2>4, <2>5
<1>3. ASSUME NEW i \in DOMAIN checks, CheckKey(i)
      PROVE  Goal
  <2>1. PICK k \in checks[i], stored \in BOOLEAN :
          /\ knownID' = IF stored THEN [knownID EXCEPT ![k[1]] = k[2]] ELSE knownID
          /\ firstID' = IF stored /\ firstID[k[1]] = None THEN [firstID EXCEPT ![k[1]] = k[2]]
                        ELSE firstID
          /\ warned \subseteq warned' /\ silent \subseteq silent'
          /\ stored /\ IsChanged(k[1], k[2]) => k \in warned' \cup silent'
          /\ \/ /\ checks' = [checks EXCEPT ![i] = checks[i] \ {k}]
                /\ stored /\ skipped' = skipped \ {k}
             \/ /\ checks' = RemoveAt(checks, i) /\ checks[i] \ {k} = {}
                /\ stored /\ skipped' = skipped \ {k}
             \/ /\ checks' = RemoveAt(checks, i)
                /\ skipped' = skipped \cup checks[i]
          /\ UNCHANGED cache
    <3>1. PICK k \in checks[i], stored \in BOOLEAN :
            LET u == k[1]
                changed == IsChanged(u, k[2])
                ends == ~stored \/ (changed /\ u \in unloaded)
                rest == checks[i] \ {k}
            IN  /\ knownID' = IF stored THEN [knownID EXCEPT ![u] = k[2]] ELSE knownID
                /\ firstID' = IF stored /\ firstID[u] = None THEN [firstID EXCEPT ![u] = k[2]]
                              ELSE firstID
                /\ warned' = IF changed /\ ~ends THEN warned \cup {k} ELSE warned
                /\ silent' = IF changed /\ stored /\ ends THEN silent \cup {k} ELSE silent
                /\ skipped' = IF ends THEN skipped \cup checks[i] ELSE skipped \ {k}
                /\ checks' = IF rest = {} \/ ends THEN RemoveAt(checks, i)
                             ELSE [checks EXCEPT ![i] = rest]
                /\ UNCHANGED cache
      BY <1>3 DEF CheckKey
    <3> WITNESS k \in checks[i], stored \in BOOLEAN
    <3> QED BY <3>1
  <2>2. i \in 1..Len(checks) /\ k \in PubKey
    BY <1>0
  <2>3. /\ k[1] \in User /\ k[2] \in Key /\ k = <<k[1], k[2]>>
        /\ knownID \in [User -> KeyOrNone] /\ firstID \in [User -> KeyOrNone]
        /\ warned \subseteq PubKey /\ silent \subseteq PubKey
    BY <2>2 DEF PubKey, TypeOK
  \* A key that is stored as known is the first one of its user, or announced, or silent.
  <2>4. stored => knownID'[k[1]] = k[2] /\ (firstID'[k[1]] = k[2] \/ k \in warned' \cup silent')
    <3>1. CASE stored /\ IsChanged(k[1], k[2])
      BY <2>1, <2>3, <3>1
    <3>2. CASE stored /\ ~IsChanged(k[1], k[2]) /\ knownID[k[1]] = None
      <4>1. <<k[1], None>> \notin PubKey
        BY KeyKinds DEF PubKey
      <4>2. firstID[k[1]] = None
        BY <2>3, <3>2, <4>1 DEF FirstKnown
      <4> QED BY <2>1, <2>3, <3>2, <4>2
    <3>3. CASE stored /\ ~IsChanged(k[1], k[2]) /\ knownID[k[1]] # None
      <4>1. knownID[k[1]] = k[2]
        BY <3>3 DEF IsChanged
      <4>2. firstID[k[1]] = k[2] \/ k \in warned \cup silent
        BY <2>3, <4>1 DEF FirstKnown
      <4>3. firstID[k[1]] = k[2] => firstID'[k[1]] = k[2]
        BY <2>1, <2>3, KeyKinds
      <4> QED BY <2>1, <2>3, <3>3, <4>2, <4>3
    <3> QED BY <3>1, <3>2, <3>3
  <2>5. /\ \A u \in User : u # k[1] => knownID'[u] = knownID[u] /\ firstID'[u] = firstID[u]
        /\ ~stored => knownID' = knownID /\ firstID' = firstID
    BY <2>1, <2>3
  <2>6. \A u \in User : firstID[u] \in Key => firstID'[u] = firstID[u]
    BY <2>1, <2>3, KeyKinds
  <2>7. FirstKnown'
    <3> SUFFICES ASSUME NEW u \in User
                 PROVE  knownID'[u] = firstID'[u] \/ <<u, knownID'[u]>> \in warned' \cup silent'
      BY DEF FirstKnown
    <3>1. CASE u = k[1] /\ stored
      BY <2>3, <2>4, <3>1
    <3>2. CASE u # k[1] \/ ~stored
      BY <2>1, <2>5, <3>2 DEF FirstKnown
    <3> QED BY <3>1, <3>2
  \* What a check has to look at, but for k, it still has to, or it ended before it.
  <2>8. \A j \in 1..Len(checks), x \in PubKey :
          x \in checks[j] /\ x # k => x \in skipped' \/ \E n \in 1..Len(checks') : x \in checks'[n]
    <3> SUFFICES ASSUME NEW j \in 1..Len(checks), NEW x \in PubKey, x \in checks[j], x # k
                 PROVE  x \in skipped' \/ \E n \in 1..Len(checks') : x \in checks'[n]
      OBVIOUS
    <3>1. CASE checks' = [checks EXCEPT ![i] = checks[i] \ {k}]
      <4>1. Len(checks') = Len(checks) /\ x \in checks'[j]
        BY <1>0, <2>2, <3>1
      <4> QED BY <4>1
    <3>2. CASE checks' = RemoveAt(checks, i) /\ j # i
      <4>1. \E n \in 1..Len(RemoveAt(checks, i)) : RemoveAt(checks, i)[n] = checks[j]
        BY <1>0, <2>2, <3>2, Removed
      <4> QED BY <3>2, <4>1
    <3>3. CASE j = i /\ checks[i] \ {k} # {} /\ checks' # [checks EXCEPT ![i] = checks[i] \ {k}]
      BY <2>1, <3>3
    <3>4. checks[i] \ {k} = {} => j # i
      OBVIOUS
    <3> QED BY <2>1, <3>1, <3>2, <3>3, <3>4
  <2>9. \A x \in skipped : x # k => x \in skipped'
    BY <2>1
  <2>10. k \in skipped' \/ stored
    BY <2>1
  <2>11. ToCheck'
    <3> SUFFICES ASSUME NEW u \in User, cache[u] \in Key
                 PROVE  \/ cache[u] = firstID'[u]
                        \/ <<u, cache[u]>> \in warned' \cup silent' \cup skipped'
                        \/ \E n \in 1..Len(checks') : <<u, cache[u]>> \in checks'[n]
      BY <2>1 DEF ToCheck
    <3>1. CASE u = k[1] /\ cache[u] = k[2]
      BY <2>3, <2>4, <2>10, <3>1
    <3>2. CASE u # k[1] \/ cache[u] # k[2]
      <4>1. <<u, cache[u]>> \in PubKey /\ <<u, cache[u]>> # k
        BY <2>3, <3>2 DEF PubKey
      <4>2. \/ cache[u] = firstID[u]
            \/ <<u, cache[u]>> \in warned \cup silent \cup skipped
            \/ \E j \in 1..Len(checks) : <<u, cache[u]>> \in checks[j]
        BY DEF ToCheck
      <4>3. cache[u] = firstID[u] => cache[u] = firstID'[u]
        BY <2>6
      <4>4. <<u, cache[u]>> \in warned \cup silent \cup skipped =>
              <<u, cache[u]>> \in warned' \cup silent' \cup skipped'
        BY <2>1, <2>9, <4>1
      <4> QED BY <2>8, <4>1, <4>2, <4>3, <4>4
    <3> QED BY <3>1, <3>2
  <2> QED BY <2>7, <2>11
<1> QED BY <1>1, <1>2, <1>3 DEF Next, Done, PushKey, CallStep, CallOnly, ClientOnly, GetUsers,
      GetAuthor, Display, LookUp, Fetch, FindNew, Announce, Store, Encrypted, vars, clientVars,
      warnVars, histVars

\* A step keeps the inductive invariant.
LEMMA InvStep == IInv /\ [Next]_vars => IInv'
BY TypeStep, AnnounceStep, WarnStep DEF IInv

\* The inductive invariant holds in every reachable state.
THEOREM Invariance == Spec => []IInv
BY InitInv, InvStep, PTL DEF Spec

\* Every variable has its type.
THEOREM TypeCorrect == Spec => []TypeOK
<1>1. IInv => TypeOK
  BY DEF IInv
<1> QED BY Invariance, <1>1, PTL

\* encryptPost never sends a message to a key that it did not announce, however many
\* messages are on their way and whatever they do to the stored recipients.
THEOREM OnlyAnnouncedKeys == Spec => []SentToAnnounced
<1>1. IInv => SentToAnnounced
  BY DEF IInv, AnnounceInv, KeysAnnounced, SentToAnnounced, At
<1> QED BY Invariance, <1>1, PTL

\* checkPubkeys lets no change of a key, the first or a later one, pass without a warning
\* of this very key once it is through, unless a check failed at it or before it, for
\* every order of the answers, the events and the checks that overlap, and for any number
\* of users and keys.
THEOREM ChangesAreWarned == Spec => []ChangedKeyIsWarned
<1>1. IInv => ChangedKeyIsWarned
  <2> SUFFICES ASSUME IInv, checks = <<>>, NEW u \in User, cache[u] \in Key
               PROVE  cache[u] = firstID[u] \/ <<u, cache[u]>> \in warned \cup silent \cup skipped
    BY DEF ChangedKeyIsWarned
  <2>1. 1..Len(checks) = {}
    OBVIOUS
  <2> QED BY <2>1 DEF IInv, ToCheck
<1> QED BY Invariance, <1>1, PTL
==============================================================================
