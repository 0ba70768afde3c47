---------------------------- MODULE ChanEncrMethod ----------------------------
(***************************************************************************)
(* The channel encryption methods as the server keeps and serves them:     *)
(* ChanEncrMethodDB (server/channel_encr_meth.go) and the handlers         *)
(* SetChanEncryptionMethod and GetChanEncryptionMethod (server/api.go).    *)
(* Every request is a goroutine of its own.  A step is one call to the     *)
(* server's plugin API or to the RWMutex, so that the steps of requests    *)
(* interleave wherever the Go scheduler may interleave them.  The process  *)
(* of the plugin may stop and start again between any two steps.           *)
(***************************************************************************)
EXTENDS Sequences, Integers, FiniteSets

CONSTANTS Request,   \* identifiers of the requests the server handles
          Chan,      \* channels
          NoReq      \* "no request": the value of a free write lock

ASSUME NoReqAssumption == NoReq \notin Request

VARIABLES
  kv,         \* [Chan -> Stored]: the server's key-value store
  writer,     \* the request that holds the write lock, or NoReq
  readers,    \* the requests that hold a read lock
  pc,         \* [Request -> Label]: the next step of each request
  req,        \* [Request -> Call or NoCall]: the request's parameters
  old,        \* [Request -> Method]: the local oldMethod of setIfDifferent
  ret,        \* [Request -> Result]: what setIfDifferent or get returned
  changes,    \* history: [Chan -> Seq(Method)], the values KVSet stored
  events,     \* [Chan -> Seq(Method)]: the channelStateChanged events sent
  posts       \* [Chan -> Seq(Method)]: the bot's announcements in the channel

lockVars == <<writer, readers>>
outVars == <<events, posts>>
vars == <<kv, writer, readers, pc, req, old, ret, changes, events, posts>>

Method == {"none", "p2p"}
Missing == "missing"
Stored == Method \cup {Missing}

\* The method is an argument of "set" only.
Call == {c \in [op : {"set", "get"}, chan : Chan, arg : Method] :
           c.op = "get" => c.arg = "none"}
NoCall == [op |-> "idle"]

\* "torn" is an error of KVSet that comes although the method was stored.
Result == {"pending", "changed", "torn", "same", "error"} \cup Method

Label == {"idle", "check", "lock", "kvget", "compare", "unlock", "publish",
          "user", "members", "post", "already", "done", "lost", "cut"}

\* Where a request ends: answered, or stopped with the process ("lost"), or ended in
\* one of the two ways between its change and the event about it ("cut").
Ended == {"done", "lost", "cut"}

\* Where a request is while it holds the mutex.
Locked == {"kvget", "compare", "unlock"}

\* Fault: the empty value of an absent key is not replaced by the default.
MethodOfRaw(stored) == stored

\* An absent key reads as ChanEncryptionMethodNone.
MethodOf(stored) == IF stored = Missing THEN "none" ELSE stored

Init == /\ kv = [c \in Chan |-> Missing]
        /\ writer = NoReq
        /\ readers = {}
        /\ pc = [r \in Request |-> "idle"]
        /\ req = [r \in Request |-> NoCall]
        /\ old = [r \in Request |-> "none"]
        /\ ret = [r \in Request |-> "pending"]
        /\ changes = [c \in Chan |-> <<>>]
        /\ events = [c \in Chan |-> <<>>]
        /\ posts = [c \in Chan |-> <<>>]

IsSet(r) == req[r].op = "set"
IsGet(r) == req[r].op = "get"

Goto(r, label) == pc' = [pc EXCEPT ![r] = label]
Return(r, result) == ret' = [ret EXCEPT ![r] = result]

\* The router starts a goroutine for a request.
Arrive(r, call) ==
  /\ pc[r] = "idle"
  /\ req' = [req EXCEPT ![r] = call]
  /\ Goto(r, "check")
  /\ UNCHANGED <<kv, lockVars, old, ret, changes, outVars>>

\* GetChannelMember: the requester is in the channel, or gets a 401.
CheckMember(r) ==
  /\ pc[r] = "check"
  /\ \E label \in {"lock", "done"} : Goto(r, label)
  /\ UNCHANGED <<kv, lockVars, req, old, ret, changes, outVars>>

\* Fault: setIfDifferent does not wait for those that hold the mutex.
LockWithoutWaiting(r) ==
  /\ pc[r] = "lock" /\ IsSet(r)
  /\ writer' = r
  /\ Goto(r, "kvget")
  /\ UNCHANGED <<kv, readers, req, old, ret, changes, outVars>>

\* db.mutex.Lock() of setIfDifferent.
Lock(r) ==
  /\ pc[r] = "lock" /\ IsSet(r)
  /\ writer = NoReq /\ readers = {}
  /\ writer' = r
  /\ Goto(r, "kvget")
  /\ UNCHANGED <<kv, readers, req, old, ret, changes, outVars>>

\* db.mutex.RLock() of get.
RLock(r) ==
  /\ pc[r] = "lock" /\ IsGet(r)
  /\ writer = NoReq
  /\ readers' = readers \cup {r}
  /\ Goto(r, "kvget")
  /\ UNCHANGED <<kv, writer, req, old, ret, changes, outVars>>

\* Fault: the error path of setIfDifferent keeps the mutex.
ReadOldKeepingLock(r) ==
  /\ pc[r] = "kvget" /\ IsSet(r)
  /\ \/ /\ old' = [old EXCEPT ![r] = MethodOf(kv[req[r].chan])]
        /\ Goto(r, "compare")
        /\ UNCHANGED ret
     \/ /\ Return(r, "error")
        /\ Goto(r, "done")
        /\ UNCHANGED old
  /\ UNCHANGED <<kv, lockVars, req, changes, outVars>>

\* KVGet of setIfDifferent: the old method, or an error that ends the call.
ReadOld(r) ==
  /\ pc[r] = "kvget" /\ IsSet(r)
  /\ \/ /\ old' = [old EXCEPT ![r] = MethodOf(kv[req[r].chan])]
        /\ Goto(r, "compare")
        /\ UNCHANGED ret
     \/ /\ Return(r, "error")
        /\ Goto(r, "unlock")
        /\ UNCHANGED old
  /\ UNCHANGED <<kv, lockVars, req, changes, outVars>>

\* KVGet of get: the method, or "none" whatever the store holds when it fails.
Get(r) ==
  /\ pc[r] = "kvget" /\ IsGet(r)
  /\ \E m \in {MethodOf(kv[req[r].chan]), "none"} : Return(r, m)
  /\ Goto(r, "unlock")
  /\ UNCHANGED <<kv, lockVars, req, old, changes, outVars>>

\* newMethod == oldMethod: nothing to store.
SameMethod(r) ==
  /\ pc[r] = "compare"
  /\ old[r] = req[r].arg
  /\ Return(r, "same")
  /\ Goto(r, "unlock")
  /\ UNCHANGED <<kv, lockVars, req, old, changes, outVars>>

\* KVSet of a different method, which may fail, before or after it takes effect.
StoreNew(r) ==
  /\ pc[r] = "compare"
  /\ old[r] # req[r].arg
  /\ \/ /\ kv' = [kv EXCEPT ![req[r].chan] = req[r].arg]
        /\ changes' = [changes EXCEPT ![req[r].chan] = Append(@, req[r].arg)]
        /\ Return(r, "changed") \/ Return(r, "torn")
     \/ /\ Return(r, "error")
        /\ UNCHANGED <<kv, changes>>
  /\ Goto(r, "unlock")
  /\ UNCHANGED <<lockVars, req, old, outVars>>

\* Fault: the result of setIfDifferent is ignored.
AfterSetAlwaysPublish ==
  [changed |-> "publish", same |-> "publish", error |-> "done", torn |-> "cut"]

\* What SetChanEncryptionMethod does with the result of setIfDifferent.
AfterSet == [changed |-> "publish", same |-> "already", error |-> "done", torn |-> "cut"]

\* The deferred Unlock or RUnlock.
Unlock(r) ==
  /\ pc[r] = "unlock"
  /\ \/ /\ IsSet(r)
        /\ writer' = NoReq
        /\ Goto(r, AfterSet[ret[r]])
        /\ UNCHANGED readers
     \/ /\ IsGet(r)
        /\ readers' = readers \ {r}
        /\ Goto(r, "done")
        /\ UNCHANGED writer
  /\ UNCHANGED <<kv, req, old, ret, changes, outVars>>

\* The ephemeral "already on encryption mode" post, to the requester only.
TellAlready(r) ==
  /\ pc[r] = "already"
  /\ Goto(r, "done")
  /\ UNCHANGED <<kv, lockVars, req, old, ret, changes, outVars>>

\* PublishWebSocketEvent("channelStateChanged"), after the lock is released.
Publish(r) ==
  /\ pc[r] = "publish"
  /\ events' = [events EXCEPT ![req[r].chan] = Append(@, req[r].arg)]
  /\ Goto(r, "user")
  /\ UNCHANGED <<kv, lockVars, req, old, ret, changes, posts>>

\* GetUser of the requester; its failure ends the handler with a 500.
GetRequester(r) ==
  /\ pc[r] = "user"
  /\ \E label \in {IF req[r].arg = "none" THEN "post" ELSE "members", "done"} :
       Goto(r, label)
  /\ UNCHANGED <<kv, lockVars, req, old, ret, changes, outVars>>

\* GetChannelMembersWithoutKeys and the names it warns about, or a 500.
GetChannelMembersWithoutKeys(r) ==
  /\ pc[r] = "members"
  /\ \E label \in {"post", "done"} : Goto(r, label)
  /\ UNCHANGED <<kv, lockVars, req, old, ret, changes, outVars>>

\* CreatePost of the bot's announcement, which may fail.
Announce(r) ==
  /\ pc[r] = "post"
  /\ \/ posts' = [posts EXCEPT ![req[r].chan] = Append(@, req[r].arg)]
     \/ UNCHANGED posts
  /\ Goto(r, "done")
  /\ UNCHANGED <<kv, lockVars, req, old, ret, changes, events>>

\* The plugin's process stops with its requests, and starts again with a new mutex; what
\* KVSet stored stays.
Crash ==
  LET running == {r \in Request : pc[r] \notin Ended \cup {"idle"}}
      unsent == {r \in Request : ret[r] \in {"changed", "torn"} /\ pc[r] \in {"unlock", "publish"}}
  IN  /\ running # {}
      /\ pc' = [r \in Request |-> IF r \in unsent THEN "cut"
                                  ELSE IF r \in running THEN "lost" ELSE pc[r]]
      /\ writer' = NoReq /\ readers' = {}
      /\ UNCHANGED <<kv, req, old, ret, changes, outVars>>

\* One step of the goroutine of request r.
Step(r) == \/ CheckMember(r)
           \/ Lock(r)
           \/ RLock(r)
           \/ ReadOld(r)
           \/ Get(r)
           \/ SameMethod(r)
           \/ StoreNew(r)
           \/ Unlock(r)
           \/ TellAlready(r)
           \/ Publish(r)
           \/ GetRequester(r)
           \/ GetChannelMembersWithoutKeys(r)
           \/ Announce(r)

\* Every request has ended: the server waits for more.
AllServed == /\ \A r \in Request : pc[r] \in Ended
             /\ UNCHANGED vars

Next == \/ \E r \in Request : \/ \E call \in Call : Arrive(r, call)
                              \/ Step(r)
        \/ Crash
        \/ AllServed

Spec == Init /\ [][Next]_vars

\* The Go scheduler runs every goroutine, and the calls of the plugin API return.
FairSpec == Spec /\ \A r \in Request : WF_vars(Step(r))

------------------------------------------------------------------------------

\* Every variable has its type.
TypeOK == /\ kv \in [Chan -> Stored]
          /\ writer \in Request \cup {NoReq}
          /\ readers \subseteq Request
          /\ pc \in [Request -> Label]
          /\ req \in [Request -> Call \cup {NoCall}]
          /\ old \in [Request -> Method]
          /\ ret \in [Request -> Result]
          /\ changes \in [Chan -> Seq(Method)]
          /\ events \in [Chan -> Seq(Method)]
          /\ posts \in [Chan -> Seq(Method)]

\* The RWMutex is held by exactly the requests between their Lock or RLock and
\* their deferred unlock, and a writer excludes everybody else, whatever the
\* path by which setIfDifferent and get return.
LockDiscipline ==
  /\ \A r \in Request : writer = r <=> pc[r] \in Locked /\ IsSet(r)
  /\ readers = {r \in Request : pc[r] \in Locked /\ IsGet(r)}
  /\ writer # NoReq => readers = {}

\* setIfDifferent compares with a value read before: when it stores, the store
\* still holds that value.
OldMethodIsCurrent ==
  \A r \in Request : pc[r] = "compare" => old[r] = MethodOf(kv[req[r].chan])

\* Two stores in a row never write the same method: "changed" is reported only
\* for a change, whatever the interleaving of the requests, so that members are
\* not told twice that the channel is now encrypted.
ChangesAlternate ==
  \A c \in Chan :
    /\ \A i \in 1..Len(changes[c]) :
         changes[c][i] # IF i = 1 THEN "none" ELSE changes[c][i - 1]
    /\ MethodOf(kv[c]) = IF changes[c] = <<>> THEN "none"
                                              ELSE changes[c][Len(changes[c])]

Count(s, m) == Cardinality({i \in DOMAIN s : s[i] = m})

\* The requests whose change of channel c to m is at one of the labels.
ChangedAt(c, m, labels) ==
  {r \in Request : /\ IsSet(r) /\ ret[r] \in {"changed", "torn"} /\ pc[r] \in labels
                   /\ req[r].chan = c /\ req[r].arg = m}

\* Every stored change is either sent to the channel's members exactly once, or in the
\* hands of exactly one request that is about to send it, or of one that was cut off
\* then, by the end of the process or an error of KVSet that stored nevertheless: no
\* early return between KVSet and PublishWebSocketEvent loses a change, and none is sent
\* for a set that changed nothing.  The bot announces a change only after its event was
\* sent, and at most once; a failing GetUser or CreatePost may leave a change
\* unannounced.
EveryChangeToldOnce ==
  \A c \in Chan, m \in Method :
    /\ Count(changes[c], m) =
         Count(events[c], m) + Cardinality(ChangedAt(c, m, {"unlock", "publish", "cut"}))
    /\ Count(posts[c], m) + Cardinality(ChangedAt(c, m, {"user", "members", "post"}))
         <= Count(events[c], m)

\* Every request is answered, unless the process stops: no path keeps the mutex, and no
\* request waits for it forever.
EveryRequestServed == \A r \in Request : pc[r] = "check" ~> pc[r] \in Ended

\* The handlers, seen through setIfDifferent and get, are an atomic
\* compare-and-set register per channel.
Abs == INSTANCE ChanEncrMethodAbs
         WITH mode <- [c \in Chan |-> MethodOf(kv[c])], asked <- req,
              result <- [r \in Request |-> IF ret[r] = "torn" THEN "error" ELSE ret[r]]

ImplementsAtomicRegister == Abs!ASpec
==============================================================================
