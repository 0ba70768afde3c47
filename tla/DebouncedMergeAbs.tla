-------------------------- MODULE DebouncedMergeAbs ---------------------------
(***************************************************************************)
(* What debouncedMerge (webapp/src/utils.ts) promises those who call it:   *)
(* they cannot tell the debounced getPubKeys from one that sends a request *)
(* of its own for each of them.  Of every call the server reads each key   *)
(* once, at a moment of the call, and then the call is resolved with what  *)
(* was read, and with nothing else; or it is rejected.  Requests are       *)
(* independent, so that any number of them may move at once.               *)
(***************************************************************************)
CONSTANTS Caller,  \* calls
          Id,      \* the user identifiers they ask for
          Arg,     \* [Caller -> SUBSET Id]: the argument of each call
          Value,   \* public keys
          None     \* null: the user has no key

VARIABLES
  value,    \* [Id -> Value \cup {None}]: what the server has
  called,   \* the calls that were made
  read,     \* [Caller -> partial functions on Arg]: the keys read for each call
  outcome   \* [Caller -> outcome]

absVars == <<value, called, read, outcome>>

Nothing == [i \in {} |-> None]
Pending == [state |-> "pending"]
Rejected == [state |-> "rejected"]
Resolved(keys) == [state |-> "resolved", keys |-> keys]

Init == /\ value = [i \in Id |-> None]
        /\ called = {}
        /\ read = [c \in Caller |-> Nothing]
        /\ outcome = [c \in Caller |-> Pending]

Call(c) == /\ c \notin called
           /\ called' = called \cup {c}
           /\ UNCHANGED <<value, read, outcome>>

Waits(c) == c \in called /\ outcome[c] = Pending

\* The server reads the key of user i for the calls in S.
Read(i, S) ==
  /\ \A c \in S : Waits(c) /\ i \in Arg[c] \ DOMAIN read[c]
  /\ read' = [c \in Caller |->
       IF c \in S
       THEN [j \in DOMAIN read[c] \cup {i} |-> IF j = i THEN value[i] ELSE read[c][j]]
       ELSE read[c]]
  /\ UNCHANGED <<value, called, outcome>>

\* The calls in S end, and what was read for them is gone.
End(S, result) ==
  /\ outcome' = [c \in Caller |-> IF c \in S THEN result[c] ELSE outcome[c]]
  /\ read' = [c \in Caller |-> IF c \in S THEN Nothing ELSE read[c]]
  /\ UNCHANGED <<value, called>>

Resolve(S) == /\ \A c \in S : Waits(c) /\ DOMAIN read[c] = Arg[c]
              /\ End(S, [c \in S |-> Resolved(read[c])])

Reject(S) == /\ \A c \in S : Waits(c)
             /\ End(S, [c \in S |-> Rejected])

Register(i, v) == /\ value' = [value EXCEPT ![i] = v]
                  /\ UNCHANGED <<called, read, outcome>>

Next == \/ \E c \in Caller : Call(c)
        \/ \E S \in SUBSET Caller : Resolve(S) \/ Reject(S) \/ \E i \in Id : Read(i, S)
        \/ \E i \in Id, v \in Value : Register(i, v)

Spec == Init /\ [][Next]_absVars
===============================================================================
