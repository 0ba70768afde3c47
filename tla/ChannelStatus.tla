---------------------------- MODULE ChannelStatus ----------------------------
(***************************************************************************)
(* How the web clients know whether a channel is encrypted: the redux map  *)
(* chansEncrMethod (webapp/src/reducers.ts), filled on demand by           *)
(* getChannelEncryptionMethod (actions.ts) and by the websocket handlers   *)
(* of hooks.tsx, next to the server that stores the method and sends the   *)
(* events.  The server's store is ChanEncrMethodAbs, which ChanEncrMethod  *)
(* implements.  One channel, since the map's keys do not interact.         *)
(***************************************************************************)
EXTENDS Sequences, Integers, FiniteSets

CONSTANTS Client,    \* browser tabs with the plugin loaded
          Caller,    \* concurrent calls of getChannelEncryptionMethod in a tab
          Request,   \* set requests handled by the server (bounds the changes)
          TheChan,   \* the channel
          MaxInbox   \* bound on the events a websocket holds when a user leaves

ASSUME RequestAssumption == IsFiniteSet(Request)
ASSUME MaxInboxAssumption == MaxInbox \in Nat \ {0}

VARIABLES
  mode, asked, result,  \* the server's register and its set requests
  stored,     \* history: the requests that changed the method, in that order, those
              \* included that were told of a failure
  sent,       \* the requests whose channelStateChanged event was published
  joined,     \* [Client -> BOOLEAN]: whether the tab's user is in the channel
  online,     \* [Client -> BOOLEAN]: whether the tab's websocket is connected
  inbox,      \* [Client -> Seq(Event)]: what the websocket has yet to deliver
  fetch,      \* [Client -> [Caller -> Fetch]]: getChannelEncryptionMethod calls
  status,     \* [Client -> Known \cup {Unknown}]: chansEncrMethod.get(chanID)
  sync,       \* history: [Client -> Nat], changes the tab hears no more about
  late        \* history: [Client -> BOOLEAN], status came after a newer one

serverVars == <<mode, asked, result, stored, sent>>
linkVars == <<joined, online, inbox>>
clientVars == <<fetch, status, sync, late>>
vars == <<serverVars, linkVars, clientVars>>

Server == INSTANCE ChanEncrMethodAbs WITH Chan <- {TheChan}

\* A method with its age: how many changes the server had stored when it held it.
Known == [method : Server!Method, age : 0..Cardinality(Request)]
Unknown == [method |-> "unknown"]

Left == [method |-> "left"]                \* the user_removed event
Event == Known \cup {Left}

NoFetch == [method |-> "idle"]             \* no call, or it has returned
Asked == [method |-> "asked"]              \* the GET is on its way
Refused == [method |-> "refused"]          \* a 401, a 500 or a network error
Fetch == Known \cup {NoFetch, Asked, Refused}

Age(r) == CHOOSE i \in DOMAIN stored : stored[i] = r
\* Fault: the server answers the raw value of an absent key.
CurrentRaw == [method |-> IF stored = <<>> THEN "" ELSE mode[TheChan], age |-> Len(stored)]

Current == [method |-> mode[TheChan], age |-> Len(stored)]

Init == /\ Server!AInit
        /\ stored = <<>>
        /\ sent = {}
        /\ joined = [k \in Client |-> TRUE]
        /\ online = [k \in Client |-> TRUE]
        /\ inbox = [k \in Client |-> <<>>]
        /\ fetch = [k \in Client |-> [x \in Caller |-> NoFetch]]
        /\ status = [k \in Client |-> Unknown]
        /\ sync = [k \in Client |-> 0]
        /\ late = [k \in Client |-> FALSE]

------------------------------------------------------------------------------
\* The server.

\* Somebody runs /e2ee start or stop, or toggles the lock, which asks for the other
\* of the methods that the tab knew, however old that is.
Set(r, m) == /\ Server!Invoke(r, [op |-> "set", chan |-> TheChan, arg |-> m])
             /\ UNCHANGED <<stored, sent, linkVars, clientVars>>

\* setIfDifferent, decided atomically.
Decide(r) == /\ Server!Change(r) \/ Server!Keep(r) \/ Server!Fail(r)
             /\ stored' = IF mode' = mode THEN stored ELSE Append(stored, r)
             /\ UNCHANGED <<sent, linkVars, clientVars>>

\* Highest age among the changes published so far.
Published == LET ages == {0} \cup {Age(r) : r \in sent}
             IN  CHOOSE a \in ages : \A b \in ages : b <= a

\* PublishWebSocketEvent to the channel: the members that are connected get it.
Publish(r) ==
  /\ result[r] = "changed" /\ r \notin sent
  /\ sent' = sent \cup {r}
  /\ LET event == [method |-> asked[r].arg, age |-> Age(r)]
     IN  inbox' = [k \in Client |-> IF joined[k] /\ online[k]
                                    THEN Append(inbox[k], event) ELSE inbox[k]]
  /\ UNCHANGED <<mode, asked, result, stored, joined, online, clientVars>>

\* GetChanEncryptionMethod: a member is told the method, others get a 401.
AnswerFetch(k, x) ==
  /\ fetch[k][x] = Asked
  /\ \E answer \in IF joined[k] THEN {Current, Refused} ELSE {Refused} :
       fetch' = [fetch EXCEPT ![k][x] = answer]
  /\ UNCHANGED <<serverVars, linkVars, status, sync, late>>

\* The user is removed from the channel, or leaves it.
Leave(k) ==
  /\ joined[k] /\ Len(inbox[k]) < MaxInbox
  /\ joined' = [joined EXCEPT ![k] = FALSE]
  /\ inbox' = [inbox EXCEPT ![k] = IF online[k] THEN Append(@, Left) ELSE @]
  /\ UNCHANGED <<serverVars, online, clientVars>>

\* The user joins again; what was published meanwhile was not for this tab.
Rejoin(k) ==
  /\ ~joined[k]
  /\ joined' = [joined EXCEPT ![k] = TRUE]
  /\ sync' = [sync EXCEPT ![k] = Published]
  /\ UNCHANGED <<serverVars, online, inbox, fetch, status, late>>

\* The websocket breaks: what it had not delivered is lost.
Disconnect(k) ==
  /\ online[k]
  /\ online' = [online EXCEPT ![k] = FALSE]
  /\ inbox' = [inbox EXCEPT ![k] = <<>>]
  /\ UNCHANGED <<serverVars, joined, clientVars>>

------------------------------------------------------------------------------
\* The client.

\* RECEIVED_ENCRYPTION_STATUS: the reducer takes whatever arrives.
ReceiveStatus(k, m) ==
  /\ status' = [status EXCEPT ![k] = m]
  /\ late' = [late EXCEPT ![k] = m.age < sync[k] \/ ~joined[k]]

\* Fault: the reducer keeps the status.
KeepStatus(k) == UNCHANGED <<status, late>>

Forget(k) == /\ status' = [status EXCEPT ![k] = Unknown]
             /\ late' = [late EXCEPT ![k] = FALSE]

\* getChannelEncryptionMethod: a cached method is returned without a request.
StartFetch(k, x) ==
  /\ fetch[k][x] = NoFetch
  /\ status[k] = Unknown
  /\ fetch' = [fetch EXCEPT ![k][x] = Asked]
  /\ UNCHANGED <<serverVars, linkVars, status, sync, late>>

\* The awaited response: the method is dispatched, an error is not.
FinishFetch(k, x) ==
  /\ fetch[k][x] \in Known \cup {Refused}
  /\ fetch' = [fetch EXCEPT ![k][x] = NoFetch]
  /\ \/ fetch[k][x] = Refused /\ UNCHANGED <<status, late>>
     \/ fetch[k][x] \in Known /\ ReceiveStatus(k, fetch[k][x])
  /\ UNCHANGED <<serverVars, linkVars, sync>>

\* The websocket delivers channelStateChanged.
ChannelStateChanged(k) ==
  /\ inbox[k] # <<>> /\ Head(inbox[k]) # Left
  /\ inbox' = [inbox EXCEPT ![k] = Tail(@)]
  /\ ReceiveStatus(k, Head(inbox[k]))
  /\ sync' = [sync EXCEPT ![k] = IF Head(inbox[k]).age > @ THEN Head(inbox[k]).age ELSE @]
  /\ UNCHANGED <<serverVars, joined, online, fetch>>

\* LEAVE_CHANNEL: the reducer removes the status.
LeaveChannel(k) ==
  /\ inbox[k] # <<>> /\ Head(inbox[k]) = Left
  /\ inbox' = [inbox EXCEPT ![k] = Tail(@)]
  /\ Forget(k)
  /\ UNCHANGED <<serverVars, joined, online, fetch, sync>>

\* The websocket is back: GOT_RECONNECTED removes every status.
Reconnect(k) ==
  /\ ~online[k]
  /\ online' = [online EXCEPT ![k] = TRUE]
  /\ sync' = [sync EXCEPT ![k] = Published]
  /\ Forget(k)
  /\ UNCHANGED <<serverVars, joined, inbox, fetch>>

Next == \/ \E r \in Request : \/ \E m \in Server!Method : Set(r, m)
                              \/ Decide(r)
                              \/ Publish(r)
        \/ \E k \in Client : \/ Leave(k) \/ Rejoin(k)
                             \/ Disconnect(k) \/ Reconnect(k)
                             \/ ChannelStateChanged(k) \/ LeaveChannel(k)
                             \/ \E x \in Caller : \/ StartFetch(k, x)
                                                  \/ AnswerFetch(k, x)
                                                  \/ FinishFetch(k, x)

Spec == Init /\ [][Next]_vars

------------------------------------------------------------------------------

\* Every variable has its type.
TypeOK == /\ mode[TheChan] \in Server!Method
          /\ sent \subseteq Request
          /\ stored \in Seq(Request)
          /\ joined \in [Client -> BOOLEAN]
          /\ online \in [Client -> BOOLEAN]
          /\ inbox \in [Client -> Seq(Event)]
          /\ fetch \in [Client -> [Caller -> Fetch]]
          /\ status \in [Client -> Known \cup {Unknown}]
          /\ sync \in [Client -> 0..Cardinality(Request)]
          /\ late \in [Client -> BOOLEAN]

\* Nothing is on its way to a connected tab: the last change was published, which the
\* server does not do when the storage reports a failure, the events were delivered
\* and no request is in flight.
Idle(k) == /\ online[k] /\ inbox[k] = <<>>
           /\ \A x \in Caller : fetch[k][x] = NoFetch
           /\ stored # <<>> => stored[Len(stored)] \in sent

\* An idle tab that knows a method is in the channel and knows the server's
\* method, whatever it missed while offline or out of the channel, except when
\* its status comes from an answer or an event that a later event, a reconnection
\* or a departure had overtaken.
CurrentUnlessOvertaken ==
  \A k \in Client :
    Idle(k) /\ status[k] # Unknown /\ ~late[k] => joined[k] /\ status[k] = Current

\* "If we leave a channel, remove the state, as we won't get websockets events
\* anymore": a tab that has handled its departure and is idle knows nothing.
LeftChannelIsForgotten ==
  \A k \in Client : Idle(k) /\ ~joined[k] => status[k] = Unknown
==============================================================================
