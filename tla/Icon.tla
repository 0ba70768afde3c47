--------------------------------- MODULE Icon ---------------------------------
(***************************************************************************)
(* The lock in the channel header (webapp/src/components/icon.tsx) next to *)
(* the map chansEncrMethod that it shows.  Its effect runs again whenever  *)
(* the channel in view or the map changes, and looks the method up without *)
(* cancelling the lookups of earlier runs.  Promises that are settled run  *)
(* their continuations at once; React runs an effect after them.           *)
(***************************************************************************)
EXTENDS ChannelStatus

VARIABLES
  inView,    \* [Client -> BOOLEAN]: TheChan is the current channel of the tab
  locked,    \* [Client -> BOOLEAN]: the state isEncrypted, a closed lock
  stale,     \* [Client -> BOOLEAN]: the effect is to run again
  lookups,   \* the calls in fetch that the effect has made, SUBSET (Client \X Caller)
  elsewhere, \* the tabs where a lookup of another channel's method is under way
  misled     \* history: the tabs where a failed lookup was the last to set the lock

iconVars == <<inView, locked, stale, lookups, elsewhere, misled>>
allVars == <<vars, iconVars>>

IconInit == /\ Init
            /\ inView \in [Client -> BOOLEAN]
            /\ locked = [k \in Client |-> FALSE]
            /\ stale = [k \in Client |-> TRUE]
            /\ lookups = {} /\ elsewhere = {} /\ misled = {}

\* setIsEncrypted(meth.data !== 'none').
Show(k, method) == /\ locked' = [locked EXCEPT ![k] = method # "none"]
                   /\ misled' = misled \ {k}

\* A failed lookup has no data, which is not 'none' either.
ShowFailure(k) == /\ locked' = [locked EXCEPT ![k] = TRUE]
                  /\ misled' = misled \cup {k}

\* Fault: the map is no dependency of the effect.
MapIgnored(k) == UNCHANGED stale

\* The reducers make another map, so that the effect is to run again.
MapChanged(k) == stale' = [stale EXCEPT ![k] = TRUE]

\* The user goes to another channel, or comes back.
SwitchChannel(k) == /\ inView' = [inView EXCEPT ![k] = ~@]
                    /\ stale' = [stale EXCEPT ![k] = TRUE]
                    /\ UNCHANGED <<vars, locked, lookups, elsewhere, misled>>

\* The effect, with TheChan in view: a cached method, or a request.
LookUpHere(k) ==
  /\ stale[k] /\ inView[k]
  /\ stale' = [stale EXCEPT ![k] = FALSE]
  /\ \/ /\ status[k] # Unknown
        /\ Show(k, status[k].method)
        /\ UNCHANGED <<vars, lookups>>
     \/ \E x \in Caller : /\ StartFetch(k, x)
                          /\ lookups' = lookups \cup {<<k, x>>}
                          /\ UNCHANGED <<locked, misled>>
  /\ UNCHANGED <<inView, elsewhere>>

\* The effect, with another channel in view, whose method is anything.
LookUpElsewhere(k) ==
  /\ stale[k] /\ ~inView[k]
  /\ stale' = [stale EXCEPT ![k] = FALSE]
  /\ \/ \E m \in Server!Method : Show(k, m) /\ UNCHANGED elsewhere
     \/ /\ k \notin elsewhere
        /\ elsewhere' = elsewhere \cup {k}
        /\ UNCHANGED <<locked, misled>>
  /\ UNCHANGED <<vars, inView, lookups>>

\* The answer to a lookup of the effect is dispatched, then shown, whatever is in
\* view by now.
LookedUpHere(k, x) ==
  /\ <<k, x>> \in lookups
  /\ FinishFetch(k, x)
  /\ lookups' = lookups \ {<<k, x>>}
  /\ \/ fetch[k][x] \in Known /\ MapChanged(k) /\ Show(k, fetch[k][x].method)
     \/ fetch[k][x] = Refused /\ UNCHANGED stale /\ ShowFailure(k)
  /\ UNCHANGED <<inView, elsewhere>>

LookedUpElsewhere(k) ==
  /\ k \in elsewhere
  /\ elsewhere' = elsewhere \ {k}
  /\ \/ MapChanged(k) /\ \E m \in Server!Method : Show(k, m)
     \/ UNCHANGED stale /\ ShowFailure(k)
  /\ UNCHANGED <<vars, inView, lookups>>

\* The answer to another caller in the tab: a message or the toggle.
OtherAnswer(k, x) ==
  /\ <<k, x>> \notin lookups
  /\ FinishFetch(k, x)
  /\ IF fetch[k][x] \in Known THEN MapChanged(k) ELSE UNCHANGED stale
  /\ UNCHANGED <<inView, locked, lookups, elsewhere, misled>>

IconNext ==
  \/ \E r \in Request :
       /\ Decide(r) \/ Publish(r) \/ \E m \in Server!Method : Set(r, m)
       /\ UNCHANGED iconVars
  \/ \E k \in Client :
       \/ /\ \/ Leave(k) \/ Rejoin(k) \/ Disconnect(k)
             \/ \E x \in Caller : StartFetch(k, x) \/ AnswerFetch(k, x)
          /\ UNCHANGED iconVars
       \/ /\ Reconnect(k) \/ ChannelStateChanged(k) \/ LeaveChannel(k)
          /\ MapChanged(k)
          /\ UNCHANGED <<inView, locked, lookups, elsewhere, misled>>
       \/ SwitchChannel(k)
       \/ LookUpHere(k) \/ LookUpElsewhere(k) \/ LookedUpElsewhere(k)
       \/ \E x \in Caller : LookedUpHere(k, x) \/ OtherAnswer(k, x)

IconSpec == IconInit /\ [][IconNext]_allVars

------------------------------------------------------------------------------

\* Every variable has its type.
IconTypeOK == /\ TypeOK
              /\ inView \in [Client -> BOOLEAN]
              /\ locked \in [Client -> BOOLEAN]
              /\ stale \in [Client -> BOOLEAN]
              /\ lookups \subseteq Client \X Caller
              /\ elsewhere \subseteq Client /\ misled \subseteq Client

\* The effect has run since the last change, and so have all its lookups.
Settled(k) == /\ ~stale[k] /\ k \notin elsewhere
              /\ \A x \in Caller : <<k, x>> \notin lookups

\* Once the lookups have ended, the lock is that of the channel in view, as the map
\* has it, whichever answers, for this channel or the one before, came last;
\* except when the last one failed.
LockShowsStatus ==
  \A k \in Client :
    Settled(k) /\ inView[k] /\ status[k] # Unknown /\ k \notin misled
      => locked[k] = (status[k].method # "none")
==============================================================================
