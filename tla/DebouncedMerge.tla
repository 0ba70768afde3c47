---------------------------- MODULE DebouncedMerge ----------------------------
(***************************************************************************)
(* debouncedMerge of webapp/src/utils.ts, as the client uses it for        *)
(* getPubKeys (webapp/src/client/client.ts): the calls made while a timer  *)
(* runs share one request, whose answer each of them takes its own keys    *)
(* from.  JavaScript runs each action to its end; the timer and the answers *)
(* come in any order.                                                      *)
(***************************************************************************)
EXTENDS Naturals, FiniteSets

CONSTANTS Caller,  \* calls of the debounced function
          Id,      \* the user identifiers they ask for
          Arg,     \* [Caller -> SUBSET Id]: the argument of each call
          Value,   \* public keys
          None,    \* null: the user has no key
          MaxUsers \* bound on the users who have registered a key

ASSUME ArgAssumption == Arg \in [Caller -> (SUBSET Id) \ {{}}]
ASSUME MaxUsersAssumption == MaxUsers \in Nat
ASSUME ValueAssumption == None \notin Value

VARIABLES
  value,     \* [Id -> Value \cup {None}]: what the server has
  called,    \* the calls that were made
  outcome,   \* [Caller -> Outcome]
  merged,    \* the shared set of identifiers
  cbs,       \* the calls whose callbacks are registered (cbs_success, cbs_reject)
  timeout,   \* is the timer set?
  requests   \* the requests under way: [ids, cbs, answer], the keys read so far

vars == <<value, called, outcome, merged, cbs, timeout, requests>>

Nothing == [i \in {} |-> None]
Answer == Value \cup {None}
Pending == [state |-> "pending"]
Rejected == [state |-> "rejected"]
Resolved == UNION {[state : {"resolved"}, keys : [ids -> Answer]] : ids \in SUBSET Id}
Outcome == {Pending, Rejected} \cup Resolved

\* The calls that were made and have no outcome.
Waiting == {c \in called : outcome[c] = Pending}

Init == /\ value = [i \in Id |-> None]
        /\ called = {}
        /\ outcome = [c \in Caller |-> Pending]
        /\ merged = {} /\ cbs = {} /\ timeout = FALSE
        /\ requests = {}

\* Fault: the array itself is added to the set, not its elements.
CallAddingArray(c) ==
  /\ c \notin called
  /\ called' = called \cup {c}
  /\ merged' = merged \cup {Arg[c]}
  /\ cbs' = cbs \cup {c}
  /\ timeout' = TRUE
  /\ UNCHANGED <<value, outcome, requests>>

\* The debounced function: the identifiers join the shared set, the callbacks are
\* registered, and the timer is set unless it runs.
Call(c) ==
  /\ c \notin called
  /\ called' = called \cup {c}
  /\ merged' = merged \cup Arg[c]
  /\ cbs' = cbs \cup {c}
  /\ timeout' = TRUE
  /\ UNCHANGED <<value, outcome, requests>>

\* Fault: the callbacks are not cleared.
DoCallKeepingCallbacks ==
  /\ timeout
  /\ timeout' = FALSE
  /\ requests' = requests \cup {[ids |-> merged, cbs |-> cbs, answer |-> Nothing]}
  /\ merged' = {}
  /\ UNCHANGED <<value, called, outcome, cbs>>

\* doCall: the shared state is copied and cleared before func is called.
DoCall ==
  /\ timeout
  /\ timeout' = FALSE
  /\ requests' = requests \cup {[ids |-> merged, cbs |-> cbs, answer |-> Nothing]}
  /\ merged' = {} /\ cbs' = {}
  /\ UNCHANGED <<value, called, outcome>>

\* GetPubKeys: the server reads the keys of a request, one after the other.
Serve(r, i) ==
  /\ r \in requests /\ i \in r.ids \ DOMAIN r.answer
  /\ requests' = (requests \ {r}) \cup {[r EXCEPT !.answer =
       [j \in DOMAIN r.answer \cup {i} |-> IF j = i THEN value[i] ELSE r.answer[j]]]}
  /\ UNCHANGED <<value, called, outcome, merged, cbs, timeout>>

\* debouncedMergeMapArrayReducer: the entries that the call has asked for.
Reduce(answer, ids) == [i \in ids |-> answer[i]]

\* Fault: the callbacks are not copied, so that the answer goes to the next batch.
SucceedWithLateCallbacks(r) ==
  /\ r \in requests /\ DOMAIN r.answer = r.ids
  /\ requests' = requests \ {r}
  /\ outcome' = [c \in Caller |->
       IF c \in cbs
       THEN [state |-> "resolved", keys |-> Reduce(r.answer, Arg[c] \cap r.ids)]
       ELSE outcome[c]]
  /\ cbs' = {}
  /\ UNCHANGED <<value, called, merged, timeout>>

\* The answer arrives, and resolves every call of the request.
Succeed(r) ==
  /\ r \in requests /\ DOMAIN r.answer = r.ids
  /\ requests' = requests \ {r}
  /\ outcome' = [c \in Caller |->
       IF c \in r.cbs
       THEN [state |-> "resolved", keys |-> Reduce(r.answer, Arg[c])]
       ELSE outcome[c]]
  /\ UNCHANGED <<value, called, merged, cbs, timeout>>

\* Fault: the callbacks for errors are not called.
RejectSilently(r) ==
  /\ r \in requests
  /\ requests' = requests \ {r}
  /\ UNCHANGED <<value, called, outcome, merged, cbs, timeout>>

\* The request fails, and every call of it is rejected.
Reject(r) ==
  /\ r \in requests
  /\ requests' = requests \ {r}
  /\ outcome' = [c \in Caller |-> IF c \in r.cbs THEN Rejected ELSE outcome[c]]
  /\ UNCHANGED <<value, called, merged, cbs, timeout>>

\* A user registers a first or another key.
Register(i, v) ==
  /\ v # value[i]
  /\ Cardinality({j \in Id \ {i} : value[j] # None}) < MaxUsers
  /\ value' = [value EXCEPT ![i] = v]
  /\ UNCHANGED <<called, outcome, merged, cbs, timeout, requests>>

Respond == \E r \in requests : (\E i \in r.ids : Serve(r, i)) \/ Succeed(r) \/ Reject(r)

AllCalled == called = Caller /\ Waiting = {} /\ UNCHANGED vars

Next == \/ \E c \in Caller : Call(c)
        \/ DoCall
        \/ Respond
        \/ \E i \in Id, v \in Value : Register(i, v)
        \/ AllCalled

Spec == Init /\ [][Next]_vars

\* The timer fires, and every request is answered or times out.
FairSpec == /\ Spec
            /\ WF_vars(DoCall)
            /\ WF_vars(Respond)

------------------------------------------------------------------------------

\* Every variable has its type.
TypeOK == /\ value \in [Id -> Answer]
          /\ called \subseteq Caller
          /\ outcome \in [Caller -> Outcome]
          /\ merged \subseteq Id /\ cbs \subseteq Caller /\ timeout \in BOOLEAN
          /\ \A r \in requests : /\ r.ids \subseteq Id /\ r.cbs \subseteq Caller
                                 /\ DOMAIN r.answer \subseteq r.ids
                                 /\ r.answer \in [DOMAIN r.answer -> Answer]

\* A call without an outcome waits in exactly one place, the next batch or one
\* request: it is neither forgotten when the shared state is cleared nor answered
\* twice.
HeldOnce ==
  cbs \subseteq Waiting /\ \A c \in Caller :
    Cardinality({r \in requests : c \in r.cbs})
      = IF c \in Waiting /\ c \notin cbs THEN 1 ELSE 0

\* What the server has read for a call, in the one of the requests that the call is in.
KeysRead(reqs, c) ==
  LET own == {r \in reqs : c \in r.cbs}
  IN [i \in {j \in Arg[c] : \E r \in own : j \in DOMAIN r.answer} |->
        (CHOOSE r \in own : i \in DOMAIN r.answer).answer[i]]

Abs == INSTANCE DebouncedMergeAbs WITH read <- [c \in Caller |-> KeysRead(requests, c)]

\* The debounced function does what separate requests, one for each call, would do:
\* each call is answered once, with a key of each of its users that was read during
\* the call, whatever other calls it shares its requests with.
ImplementsSeparateRequests == Abs!Spec

\* Every call is resolved or rejected.
EveryCallEnds == \A c \in Caller : c \in Waiting ~> c \notin Waiting
==============================================================================
