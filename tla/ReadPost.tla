------------------------------- MODULE ReadPost -------------------------------
(***************************************************************************)
(* How a tab comes to display an encrypted message: the cache of clear     *)
(* texts (webapp/src/msg_cache.ts), the effect of the component E2EEPost   *)
(* (components/e2ee_post/e2ee_post.tsx), the notification of onPosted and  *)
(* the cache entries that encryptPost makes for the user's own messages    *)
(* and edits (webapp/src/hooks.tsx).  A version of a post stands for its   *)
(* text and for its signature; decryption is in P2PMessage.                *)
(***************************************************************************)
EXTENDS Integers, FiniteSets, SequencesExt

CONSTANTS Post,     \* encrypted posts
          MaxMade,  \* bound on the encryptions of a post
          MaxKeys,  \* bound on the private keys the tab gets
          MaxMsgs   \* MAX_MSGS

ASSUME ReadPostAssumption == MaxMade \in Nat /\ MaxKeys \in Nat /\ MaxMsgs \in Nat \ {0, 1}

VARIABLES
  post,      \* [Post -> PostState]: the post in the redux store
  made,      \* [Post -> 0..MaxMade]: the encryptions of a post so far
  sending,   \* the encryptPost calls of this tab under way: [post, version]
  key,       \* how many private keys the tab had: the current one, 0 for null
  cache,     \* Seq(CacheEntry): the Map cacheDecrypted, in insertion order
  rendered,  \* [Post -> <<PostState, key>>]: what the last effect ran for
  runs,      \* [Post -> Nat]: how many effects ran
  jobs,      \* decryptions under way
  shown,     \* [Post -> Text]: what the component displays
  shownBy    \* history: [Post -> Nat], the effect that set what is displayed

readVars == <<post, made, sending, key, cache, rendered, runs, jobs, shown, shownBy>>

Absent == 0
Version == 1..MaxMade
Nothing == 0   \* the component displays an empty text
Error == -1    \* the component displays an error
Text == Version \cup {Nothing, Error}

\* pending: the post still has its pending_post_id.
PostState == [version : Version \cup {Absent}, pending : BOOLEAN]
NotRendered == <<[version |-> Absent, pending |-> FALSE], 0>>
ID == Post \X BOOLEAN   \* postID: pending_post_id if the post has one, else id
CacheEntry == [id : ID, msg : Version, signature : Version]
Job == [post : Post, state : PostState, run : Nat]

ReadInit == /\ post = [p \in Post |-> NotRendered[1]]
            /\ made = [p \in Post |-> 0]
            /\ sending = {}
            /\ key = 0
            /\ cache = <<>>
            /\ rendered = [p \in Post |-> NotRendered]
            /\ runs = [p \in Post |-> 0]
            /\ jobs = {}
            /\ shown = [p \in Post |-> Nothing]
            /\ shownBy = [p \in Post |-> 0]

------------------------------------------------------------------------------
\* MsgCacheImpl.

\* Map.set keeps the place of a key that is there.
MapSet(map, e) ==
  IF \E i \in DOMAIN map : map[i].id = e.id
  THEN [i \in DOMAIN map |-> IF map[i].id = e.id THEN e ELSE map[i]]
  ELSE Append(map, e)

\* Fault: an off-by-one at the limit.
CheckSizeLate(map) == IF Len(map) <= MaxMsgs THEN map ELSE Tail(map)

\* checkSize: at MAX_MSGS entries the oldest goes.
CheckSize(map) == IF Len(map) < MaxMsgs THEN map ELSE Tail(map)

\* addMine, addDecrypted and addUpdated, with a text and the post's signature.
Add(id, msg, signature) ==
  cache' = CheckSize(MapSet(cache, [id |-> id, msg |-> msg, signature |-> signature]))

\* Fault: the signature is not compared.
CachedAnyVersion(p, state) ==
  {e.msg : e \in {f \in Range(cache) : f.id = <<p, state.pending>>}}

\* get: the text under the post's id, if it was stored with the post's signature.
Cached(p, state) ==
  {e.msg : e \in {f \in Range(cache) : f.id = <<p, state.pending>>
                                       /\ f.signature = state.version}}

------------------------------------------------------------------------------
\* The posts and the private key.

\* The store gets a version of a post, new or edited.  For a new one onPosted runs:
\* unless notifications are off, it decrypts a text that is not cached, as run 0,
\* which fills the cache and displays nothing.
Store(p, version) ==
  \E pending \in BOOLEAN :
    LET state == [version |-> version, pending |-> pending]
    IN  /\ post' = [post EXCEPT ![p] = state]
        /\ \/ UNCHANGED jobs
           \/ /\ post[p].version = Absent /\ key # 0 /\ Cached(p, state) = {}
              /\ jobs' = jobs \cup {[post |-> p, state |-> state, run |-> 0]}

\* Another tab or another user has encrypted the post.
Arrive(p) ==
  /\ made[p] < MaxMade
  /\ made' = [made EXCEPT ![p] = @ + 1]
  /\ Store(p, made'[p])
  /\ UNCHANGED <<sending, key, cache, rendered, runs, shown, shownBy>>

\* Fault: the text that is cached is the one that the store still has.
SendMineStale(p) ==
  /\ key # 0 /\ made[p] < MaxMade
  /\ made' = [made EXCEPT ![p] = @ + 1]
  /\ Add(<<p, post[p].version = Absent>>, post[p].version, made'[p])
  /\ sending' = sending \cup {[post |-> p, version |-> made'[p]]}
  /\ UNCHANGED <<post, key, rendered, runs, jobs, shown, shownBy>>

\* encryptPost of this tab has encrypted a new message or an edit: addMine under
\* its pending id, addUpdated under its id.
SendMine(p) ==
  /\ key # 0 /\ made[p] < MaxMade
  /\ made' = [made EXCEPT ![p] = @ + 1]
  /\ Add(<<p, post[p].version = Absent>>, made'[p], made'[p])
  /\ sending' = sending \cup {[post |-> p, version |-> made'[p]]}
  /\ UNCHANGED <<post, key, rendered, runs, jobs, shown, shownBy>>

\* The server sends it back, with or without the pending id; or it was rejected.
MineArrives(s) ==
  /\ sending' = sending \ {s}
  /\ \/ UNCHANGED <<post, jobs>>
     \/ Store(s.post, s.version)
  /\ UNCHANGED <<made, key, cache, rendered, runs, shown, shownBy>>

\* GOT_PRIVKEY: the observer of selectPrivkey clears the cache.
NewKey ==
  /\ key < MaxKeys
  /\ key' = key + 1
  /\ cache' = <<>>
  /\ UNCHANGED <<post, made, sending, rendered, runs, jobs, shown, shownBy>>

------------------------------------------------------------------------------
\* The component E2EEPost.

\* Its effect, when the post or the private key has changed.
Effect(p) ==
  /\ post[p].version # Absent /\ rendered[p] # <<post[p], key>>
  /\ rendered' = [rendered EXCEPT ![p] = <<post[p], key>>]
  /\ runs' = [runs EXCEPT ![p] = @ + 1]
  /\ LET hit == Cached(p, post[p])
     IN  \/ /\ key = 0
            /\ shown' = [shown EXCEPT ![p] = Error]
            /\ shownBy' = [shownBy EXCEPT ![p] = runs'[p]]
            /\ UNCHANGED jobs
         \/ /\ key # 0 /\ hit # {}
            /\ shown' = [shown EXCEPT ![p] = CHOOSE m \in hit : TRUE]
            /\ shownBy' = [shownBy EXCEPT ![p] = runs'[p]]
            /\ UNCHANGED jobs
         \/ /\ key # 0 /\ hit = {}
            /\ shown' = [shown EXCEPT ![p] = Nothing]
            /\ jobs' = jobs \cup {[post |-> p, state |-> post[p], run |-> runs'[p]]}
            /\ UNCHANGED shownBy
  /\ UNCHANGED <<post, made, sending, key, cache>>

Displays(j, text) ==
  IF j.run = 0 THEN UNCHANGED <<shown, shownBy>>
  ELSE /\ shown' = [shown EXCEPT ![j.post] = text]
       /\ shownBy' = [shownBy EXCEPT ![j.post] = j.run]

\* A decryption succeeds: addDecrypted and setMsgSuccess.
Decrypted(j) ==
  /\ jobs' = jobs \ {j}
  /\ Add(<<j.post, j.state.pending>>, j.state.version, j.state.version)
  /\ Displays(j, j.state.version)
  /\ UNCHANGED <<post, made, sending, key, rendered, runs>>

\* The sender's key is unknown, or the decryption fails.
Fails(j) ==
  /\ jobs' = jobs \ {j}
  /\ Displays(j, Error)
  /\ UNCHANGED <<post, made, sending, key, cache, rendered, runs>>

\* The tab is reloaded; the posts that are there are fetched again.
Reload ==
  /\ key # 0
  /\ key' = 0 /\ cache' = <<>> /\ sending' = {} /\ jobs' = {}
  /\ rendered' = [p \in Post |-> NotRendered]
  /\ runs' = [p \in Post |-> 0] /\ shownBy' = [p \in Post |-> 0]
  /\ shown' = [p \in Post |-> Nothing]
  /\ UNCHANGED <<post, made>>

ReadNext == \/ \E p \in Post : Arrive(p) \/ SendMine(p) \/ Effect(p)
            \/ \E s \in sending : MineArrives(s)
            \/ NewKey \/ Reload
            \/ \E j \in jobs : Decrypted(j) \/ Fails(j)

ReadSpec == ReadInit /\ [][ReadNext]_readVars

------------------------------------------------------------------------------

\* Every variable has its type.
ReadTypeOK == /\ post \in [Post -> PostState]
              /\ made \in [Post -> 0..MaxMade]
              /\ sending \subseteq [post : Post, version : Version]
              /\ key \in 0..MaxKeys
              /\ cache \in Seq(CacheEntry)
              /\ rendered \in [Post -> PostState \X (0..MaxKeys)]
              /\ runs \in [Post -> Nat] /\ shownBy \in [Post -> Nat]
              /\ jobs \subseteq Job
              /\ shown \in [Post -> Text]

\* What the last effect of a post has displayed is the text of the version that it
\* ran for, or an error: neither the cache, which knows a post under two ids and
\* keeps the texts of older versions, nor a change of keys makes it another text.
\* A decryption of an earlier effect may still end after it.
LastEffectShowsItsVersion ==
  \A p \in Post :
    runs[p] # 0 /\ shownBy[p] = runs[p] => shown[p] \in {rendered[p][1].version, Error}

Ids(map) == {map[i].id : i \in DOMAIN map}

\* The cache stays below MAX_MSGS, and an insertion keeps every post that is in it: what
\* is evicted is the oldest one, and only at the limit.
EvictsOnlyAtTheLimit ==
  [][/\ Len(cache') < MaxMsgs
     /\ cache' # <<>> /\ ~(Ids(cache) \subseteq Ids(cache')) =>
          Len(cache) = MaxMsgs - 1 /\ Ids(cache) \ Ids(cache') = {cache[1].id}]_cache
==============================================================================
