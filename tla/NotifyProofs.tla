----------------------------- MODULE NotifyProofs -----------------------------
(***************************************************************************)
(* What Notify, and DebouncedMerge under it, guarantee for every set of    *)
(* calls, users and posts: their types, that a debounced call waits in one *)
(* place and is served as if it were alone, and that what is shown, or     *)
(* missed, has a reason.                                                   *)
(***************************************************************************)
EXTENDS Notify, FiniteSetTheorems, WellFoundedInduction, TLAPS

\* The fields of a request.
Requests == \A r \in requests : r = [ids |-> r.ids, cbs |-> r.cbs, answer |-> r.answer]

\* The calls in the next batch and those of the requests wait, no call is in two of
\* these places, and each that waits is in one.
BatchWaits == cbs \subseteq Waiting
RequestsWait == \A r \in requests : r.cbs \subseteq Waiting \ cbs
Apart == \A r, q \in requests : r # q => r.cbs \cap q.cbs = {}
NoneLost == \A c \in Waiting \ cbs : \E r \in requests : c \in r.cbs

\* A call that was not made has no outcome.
Uncalled == \A c \in Caller \ called : outcome[c] = Pending

\* A batch, or a request, asks for what its calls ask for.
Covered == /\ \A c \in cbs : Arg[c] \subseteq merged
           /\ \A r \in requests : \A c \in r.cbs : Arg[c] \subseteq r.ids

\* The inductive invariant of DebouncedMerge.
MergeInv == /\ TypeOK /\ Requests
            /\ BatchWaits /\ RequestsWait /\ Apart /\ NoneLost
            /\ Uncalled /\ Covered

\* What a handler has seen and read, while it is at work and w is what is wanted, and
\* what its text is.
Sound(h, w) ==
  /\ h.stage \in {"keys", "profile", "asking"} => w \in h.seen
  /\ h.stage \in {"profile", "asking"} => h.class \in {"must", "may"}
  /\ h.stage = "profile" => h.was \in h.seen
  /\ h.stage = "asking" => TRUE \in h.seen
HandlerInv == \A p \in Posted : Sound(handler[p], wanted)

\* The inductive invariant of Notify.
IInv == MergeInv /\ NotifyTypeOK /\ HandlerInv

------------------------------------------------------------------------------
\* DebouncedMerge.

\* What a call asks for.
LEMMA ArgType == \A c \in Caller : Arg[c] \subseteq Id
BY ArgAssumption

\* An answer's part is a right outcome, and no outcome of a call is pending.
LEMMA ResolvedType ==
  ASSUME NEW ids \in SUBSET Id, NEW f \in [ids -> Answer]
  PROVE  /\ [state |-> "resolved", keys |-> f] \in Outcome
         /\ [state |-> "resolved", keys |-> f] # Pending
         /\ Rejected \in Outcome /\ Rejected # Pending /\ Pending \in Outcome
<1>1. [state |-> "resolved", keys |-> f] \in [state : {"resolved"}, keys : [ids -> Answer]]
  OBVIOUS
<1>2. [state |-> "resolved", keys |-> f] \in Resolved
  BY <1>1 DEF Resolved
<1>3. [state |-> "resolved", keys |-> f].state = "resolved"
  OBVIOUS
<1>4. Pending.state = "pending" /\ Rejected.state = "rejected"
  BY DEF Pending, Rejected
<1> QED BY <1>2, <1>3, <1>4 DEF Outcome

\* The initial states satisfy the invariant.
LEMMA MergeInit == Init => MergeInv
<1> SUFFICES ASSUME Init PROVE MergeInv
  OBVIOUS
<1> USE DEF Init
<1>1. TypeOK
  BY DEF TypeOK, Outcome, Answer
<1>2. Waiting = {} /\ requests = {} /\ cbs = {}
  BY DEF Waiting
<1> QED BY <1>1, <1>2 DEF MergeInv, Requests, BatchWaits, RequestsWait, Apart, NoneLost, Uncalled, Covered

\* A call joins the next batch.
LEMMA CallStep ==
  ASSUME MergeInv, NEW c \in Caller, Call(c)
  PROVE  MergeInv'
<1> USE DEF MergeInv
<1>0. /\ c \notin called /\ called' = called \cup {c} /\ merged' = merged \cup Arg[c]
      /\ cbs' = cbs \cup {c} /\ timeout' = TRUE
      /\ value' = value /\ outcome' = outcome /\ requests' = requests
  BY DEF Call
<1>1. TypeOK'
  BY <1>0, ArgType DEF TypeOK
<1>2. Waiting' \subseteq Waiting \cup {c} /\ Waiting \subseteq Waiting'
  BY <1>0 DEF Waiting
<1>3. c \notin Waiting
  BY <1>0 DEF Waiting
<1>4. Requests' /\ Covered' /\ Uncalled'
  BY <1>0 DEF Requests, Covered, Uncalled
<1>5. BatchWaits' /\ RequestsWait' /\ Apart' /\ NoneLost'
  <2>1. c \in Waiting'
    <3>1. outcome[c] = Pending
      BY <1>0 DEF Uncalled
    <3> QED BY <1>0, <3>1 DEF Waiting
  <2> QED BY <1>0, <1>2, <1>3, <2>1 DEF BatchWaits, RequestsWait, Apart, NoneLost
<1> QED BY <1>1, <1>4, <1>5

\* The timer sends the batch.
LEMMA DoCallStep ==
  ASSUME MergeInv, DoCall
  PROVE  MergeInv'
<1> USE DEF MergeInv
<1> DEFINE q == [ids |-> merged, cbs |-> cbs, answer |-> Nothing]
<1>0. /\ requests' = requests \cup {q} /\ merged' = {} /\ cbs' = {} /\ timeout' = FALSE
      /\ UNCHANGED <<value, called, outcome>>
  BY DEF DoCall
<1>1. q.ids = merged /\ q.cbs = cbs /\ q.answer = Nothing /\ q = [ids |-> q.ids, cbs |-> q.cbs, answer |-> q.answer]
  OBVIOUS
<1> HIDE DEF q
<1> Nothing \in [DOMAIN Nothing -> Answer] /\ DOMAIN Nothing = {}
  BY DEF Nothing
<1>2. TypeOK'
  BY <1>0, <1>1 DEF TypeOK
<1>3. Requests' /\ Covered' /\ Uncalled'
  BY <1>0, <1>1 DEF Requests, Covered, Uncalled
<1>4. Waiting' = Waiting
  BY <1>0 DEF Waiting
<1>5. BatchWaits' /\ RequestsWait'
  BY <1>0, <1>1, <1>4 DEF BatchWaits, RequestsWait
<1>6. Apart'
  BY <1>0, <1>1 DEF Apart, RequestsWait
<1>7. NoneLost'
  BY <1>0, <1>1, <1>4 DEF NoneLost, BatchWaits
<1> QED BY <1>2, <1>3, <1>5, <1>6, <1>7

\* The server reads a key of a request.
LEMMA ServeStep ==
  ASSUME MergeInv, NEW r \in requests, NEW k \in r.ids, Serve(r, k)
  PROVE  MergeInv'
<1> USE DEF MergeInv
<1> DEFINE more == [j \in DOMAIN r.answer \cup {k} |-> IF j = k THEN value[k] ELSE r.answer[j]]
           q == [r EXCEPT !.answer = more]
<1>0. /\ requests' = (requests \ {r}) \cup {q}
      /\ UNCHANGED <<value, called, outcome, merged, cbs, timeout>>
  BY DEF Serve
<1>1. r = [ids |-> r.ids, cbs |-> r.cbs, answer |-> r.answer]
  BY DEF Requests
<1>2. /\ q.ids = r.ids /\ q.cbs = r.cbs /\ q.answer = more
      /\ q = [ids |-> q.ids, cbs |-> q.cbs, answer |-> q.answer]
  BY <1>1
<1>3. /\ r.ids \subseteq Id /\ r.cbs \subseteq Caller /\ value \in [Id -> Answer]
      /\ DOMAIN r.answer \subseteq r.ids /\ r.answer \in [DOMAIN r.answer -> Answer]
  BY DEF TypeOK
<1>12. DOMAIN more = DOMAIN r.answer \cup {k}
  OBVIOUS
<1>14. more \in [DOMAIN more -> Answer]
  BY <1>3
<1>15. DOMAIN more \subseteq r.ids
  BY <1>3, <1>12
<1> HIDE DEF q, more
<1>4. TypeOK'
  BY <1>0, <1>2, <1>3, <1>14, <1>15 DEF TypeOK
<1>5. Requests' /\ Covered' /\ Uncalled'
  BY <1>0, <1>2 DEF Requests, Covered, Uncalled
<1>6. Waiting' = Waiting
  BY <1>0 DEF Waiting
<1>7. BatchWaits' /\ RequestsWait'
  BY <1>0, <1>2, <1>6 DEF BatchWaits, RequestsWait
<1>8. Apart'
  BY <1>0, <1>2 DEF Apart
<1>9. NoneLost'
  BY <1>0, <1>2, <1>6 DEF NoneLost
<1> QED BY <1>4, <1>5, <1>7, <1>8, <1>9

\* A request ends, and gives each of its calls an outcome.
LEMMA EndStep ==
  ASSUME MergeInv, NEW r \in requests, NEW result,
         requests' = requests \ {r},
         outcome' = [c \in Caller |-> IF c \in r.cbs THEN result[c] ELSE outcome[c]],
         \A c \in r.cbs : result[c] \in Outcome /\ result[c] # Pending,
         UNCHANGED <<value, called, merged, cbs, timeout>>
  PROVE  MergeInv'
<1> USE DEF MergeInv
<1>0. r.cbs \subseteq Waiting \ cbs /\ Waiting \subseteq Caller
  BY DEF RequestsWait, Waiting, TypeOK
<1>1. TypeOK'
  <2>1. outcome' \in [Caller -> Outcome]
    BY DEF TypeOK
  <2> QED BY <2>1 DEF TypeOK
<1>2. Waiting' = Waiting \ r.cbs
  BY <1>0 DEF Waiting, TypeOK
<1>3. Requests' /\ Covered' /\ Uncalled'
  BY <1>0 DEF Requests, Covered, Uncalled, Waiting
<1>4. BatchWaits' /\ Apart'
  BY <1>0, <1>2 DEF BatchWaits, Apart
<1>5. RequestsWait'
  BY <1>2 DEF RequestsWait, Apart
<1>6. NoneLost'
  BY <1>2 DEF NoneLost
<1> QED BY <1>1, <1>3, <1>4, <1>5, <1>6

\* The answer to a request gives each of its calls the keys that it has asked for.
LEMMA SucceedAnswers ==
  ASSUME MergeInv, NEW r \in requests, Succeed(r), NEW c \in r.cbs
  PROVE  /\ Reduce(r.answer, Arg[c]) \in [Arg[c] -> Answer]
         /\ \A i \in Arg[c] : Reduce(r.answer, Arg[c])[i] = r.answer[i]
         /\ c \in Caller /\ Arg[c] \in SUBSET Id
<1>1. /\ DOMAIN r.answer = r.ids /\ r.answer \in [r.ids -> Answer]
      /\ Arg[c] \subseteq r.ids /\ c \in Caller
  BY DEF MergeInv, TypeOK, Succeed, Covered
<1> QED BY <1>1, ArgType DEF Reduce

\* A user registers a key.
LEMMA RegisterStep ==
  ASSUME MergeInv, NEW i \in Id, NEW v \in Value, Register(i, v)
  PROVE  MergeInv'
<1> USE DEF MergeInv
<1>0. /\ value' = [value EXCEPT ![i] = v]
      /\ UNCHANGED <<called, outcome, merged, cbs, timeout, requests>>
  BY DEF Register
<1>1. TypeOK'
  BY <1>0 DEF TypeOK, Answer
<1>2. Waiting' = Waiting
  BY <1>0 DEF Waiting
<1>3. Requests' /\ Covered' /\ Uncalled' /\ BatchWaits' /\ RequestsWait' /\ Apart' /\ NoneLost'
  BY <1>0, <1>2 DEF Requests, Covered, Uncalled, BatchWaits, RequestsWait, Apart, NoneLost
<1> QED BY <1>1, <1>3

\* A step of DebouncedMerge keeps the invariant.
LEMMA MergeStep ==
  ASSUME MergeInv, [Next]_vars
  PROVE  MergeInv'
<1>1. ASSUME NEW r \in requests, Succeed(r)
      PROVE  MergeInv'
  <2> DEFINE result == [c \in r.cbs |-> [state |-> "resolved", keys |-> Reduce(r.answer, Arg[c])]]
  <2>1. outcome' = [c \in Caller |-> IF c \in r.cbs THEN result[c] ELSE outcome[c]]
    BY <1>1 DEF Succeed
  <2>2. \A c \in r.cbs : result[c] \in Outcome /\ result[c] # Pending
    BY <1>1, SucceedAnswers, ResolvedType
  <2> HIDE DEF result
  <2> QED BY <1>1, <2>1, <2>2, EndStep DEF Succeed
<1>2. ASSUME NEW r \in requests, Reject(r)
      PROVE  MergeInv'
  <2> DEFINE result == [c \in r.cbs |-> Rejected]
  <2>1. outcome' = [c \in Caller |-> IF c \in r.cbs THEN result[c] ELSE outcome[c]]
    BY <1>2 DEF Reject
  <2>2. \A c \in r.cbs : result[c] \in Outcome /\ result[c] # Pending
    <3>1. Rejected \in Outcome /\ Rejected # Pending
      <4>1. Rejected.state = "rejected" /\ Pending.state = "pending"
        BY DEF Rejected, Pending
      <4> QED BY <4>1 DEF Outcome
    <3> QED BY <3>1
  <2> HIDE DEF result
  <2> QED BY <1>2, <2>1, <2>2, EndStep DEF Reject
<1>3. CASE UNCHANGED vars
  BY <1>3 DEF vars, MergeInv, TypeOK, Requests, BatchWaits, RequestsWait, Apart, NoneLost, Uncalled,
              Covered, Waiting
<1> QED BY <1>1, <1>2, <1>3, CallStep, DoCallStep, ServeStep, RegisterStep DEF Next, Respond, AllCalled

\* Each call that waits is in the batch or in one request.
LEMMA HeldOnceHolds == MergeInv => HeldOnce
<1> SUFFICES ASSUME MergeInv, NEW c \in Caller
             PROVE  Cardinality({r \in requests : c \in r.cbs})
                      = IF c \in Waiting /\ c \notin cbs THEN 1 ELSE 0
  BY DEF MergeInv, BatchWaits, HeldOnce
<1> USE DEF MergeInv
<1>1. CASE c \in Waiting /\ c \notin cbs
  <2>1. PICK r \in requests : c \in r.cbs
    BY <1>1 DEF NoneLost
  <2>2. {q \in requests : c \in q.cbs} = {r}
    BY <2>1 DEF Apart
  <2>3. Cardinality({q \in requests : c \in q.cbs}) = Cardinality({r})
    BY <2>2, Zenon
  <2>4. Cardinality({r}) = 1
    BY FS_Singleton
  <2> QED BY <1>1, <2>3, <2>4
<1>2. CASE ~(c \in Waiting /\ c \notin cbs)
  <2>1. {q \in requests : c \in q.cbs} = {}
    BY <1>2 DEF RequestsWait
  <2>2. Cardinality({q \in requests : c \in q.cbs}) = Cardinality({})
    BY <2>1, Zenon
  <2> QED BY <1>2, <2>2, FS_EmptySet
<1> QED BY <1>1, <1>2

------------------------------------------------------------------------------
\* The refinement of separate requests.

\* What is read in a request for one of its calls.
KeysOf(r, c) == [i \in Arg[c] \cap DOMAIN r.answer |-> r.answer[i]]

\* A call that is in one of the requests has the keys that were read for it there.
LEMMA KeysOfRequest ==
  ASSUME NEW reqs, NEW r \in reqs, NEW c, \A q \in reqs : c \in q.cbs <=> q = r
  PROVE  KeysRead(reqs, c) = KeysOf(r, c)
<1> DEFINE own == {q \in reqs : c \in q.cbs}
<1>1. own = {r}
  OBVIOUS
<1>2. KeysRead(reqs, c) = [i \in {j \in Arg[c] : \E q \in own : j \in DOMAIN q.answer} |->
                             (CHOOSE q \in own : i \in DOMAIN q.answer).answer[i]]
  BY DEF KeysRead
<1> HIDE DEF own
<1>3. {j \in Arg[c] : \E q \in own : j \in DOMAIN q.answer} = Arg[c] \cap DOMAIN r.answer
  BY <1>1
<1>4. \A i \in DOMAIN r.answer : (CHOOSE q \in own : i \in DOMAIN q.answer) = r
  BY <1>1
<1> QED BY <1>2, <1>3, <1>4 DEF KeysOf

\* Nothing was read for a call that is in no request.
LEMMA KeysOfNone ==
  ASSUME NEW reqs, NEW c, \A q \in reqs : c \notin q.cbs
  PROVE  KeysRead(reqs, c) = [i \in {} |-> None]
<1>1. {j \in Arg[c] : \E q \in {q \in reqs : c \in q.cbs} : j \in DOMAIN q.answer} = {}
  OBVIOUS
<1> QED BY <1>1 DEF KeysRead

\* What was read for a call depends on the requests that the call is in.
LEMMA KeysOfSame ==
  ASSUME NEW reqs, NEW qs, NEW c, {q \in reqs : c \in q.cbs} = {q \in qs : c \in q.cbs}
  PROVE  KeysRead(reqs, c) = KeysRead(qs, c)
<1> DEFINE F(own) == [i \in {j \in Arg[c] : \E r \in own : j \in DOMAIN r.answer} |->
                        (CHOOSE r \in own : i \in DOMAIN r.answer).answer[i]]
<1>1. /\ KeysRead(reqs, c) = F({q \in reqs : c \in q.cbs})
      /\ KeysRead(qs, c) = F({q \in qs : c \in q.cbs})
  BY DEF KeysRead
<1> HIDE DEF F
<1> QED BY <1>1, Zenon

\* The request of a call is the only one with it.
LEMMA OnlyRequest ==
  ASSUME MergeInv, NEW r \in requests, NEW c \in r.cbs
  PROVE  /\ \A q \in requests : c \in q.cbs <=> q = r
         /\ c \in Caller /\ Abs!Waits(c)
BY DEF MergeInv, Apart, RequestsWait, Waiting, TypeOK, Abs!Waits, Abs!Pending, Pending

\* The keys read for the calls when a batch is sent: none, as before.
LEMMA DoCallRefines ==
  ASSUME MergeInv, DoCall
  PROVE  UNCHANGED Abs!absVars
<1> DEFINE q == [ids |-> merged, cbs |-> cbs, answer |-> Nothing]
<1>0. /\ requests' = requests \cup {q}
      /\ UNCHANGED <<value, called, outcome>>
  BY DEF DoCall
<1>1. q.cbs = cbs /\ q.answer = Nothing /\ DOMAIN q.answer = {}
  BY DEF Nothing
<1> HIDE DEF q
<1>2. ASSUME NEW c \in Caller
      PROVE  KeysRead(requests', c) = KeysRead(requests, c)
  <2>1. CASE c \in cbs
    <3>1. \A r \in requests : c \notin r.cbs
      BY <2>1 DEF MergeInv, RequestsWait
    <3>2. KeysRead(requests, c) = [i \in {} |-> None]
      BY <3>1, KeysOfNone
    <3>3. \A r \in requests' : c \in r.cbs <=> r = q
      BY <1>0, <1>1, <2>1, <3>1
    <3>4. KeysRead(requests', c) = KeysOf(q, c)
      <4>1. q \in requests'
        BY <1>0
      <4> QED BY <4>1, <3>3, KeysOfRequest
    <3>5. Arg[c] \cap DOMAIN q.answer = {}
      BY <1>1
    <3> QED BY <3>2, <3>4, <3>5 DEF KeysOf
  <2>2. CASE c \notin cbs
    <3>1. {r \in requests : c \in r.cbs} = {r \in requests' : c \in r.cbs}
      BY <1>0, <1>1, <2>2
    <3> QED BY <3>1, KeysOfSame
  <2> QED BY <2>1, <2>2
<1> QED BY <1>0, <1>2 DEF Abs!absVars

\* The server reads a key for every call of the request that asks for it.
LEMMA ServeRefines ==
  ASSUME MergeInv, NEW r \in requests, NEW k \in r.ids, Serve(r, k)
  PROVE  Abs!Read(k, {c \in r.cbs : k \in Arg[c]})
<1> DEFINE S == {c \in r.cbs : k \in Arg[c]}
           more == [j \in DOMAIN r.answer \cup {k} |-> IF j = k THEN value[k] ELSE r.answer[j]]
           q == [r EXCEPT !.answer = more]
<1>0. /\ k \notin DOMAIN r.answer
      /\ requests' = (requests \ {r}) \cup {q}
      /\ UNCHANGED <<value, called, outcome>>
  BY DEF Serve
<1>1. r = [ids |-> r.ids, cbs |-> r.cbs, answer |-> r.answer]
  BY DEF MergeInv, Requests
<1>2. q.cbs = r.cbs /\ q.answer = more
  BY <1>1
<1> HIDE DEF q
<1>3. \A c \in r.cbs : KeysRead(requests, c) = KeysOf(r, c)
  BY OnlyRequest, KeysOfRequest
<1>4. ASSUME NEW c \in r.cbs
      PROVE  KeysRead(requests', c) = [i \in Arg[c] \cap DOMAIN more |-> more[i]]
  <2>1. \A p \in requests' : c \in p.cbs <=> p = q
    BY <1>0, <1>2, <1>4, OnlyRequest
  <2>2. q \in requests'
    BY <1>0
  <2>3. KeysRead(requests', c) = KeysOf(q, c)
    BY <2>1, <2>2, KeysOfRequest
  <2> QED BY <1>2, <2>3 DEF KeysOf
<1>5. ASSUME NEW c \in S
      PROVE  KeysRead(requests', c) =
               [j \in DOMAIN KeysRead(requests, c) \cup {k} |->
                  IF j = k THEN value[k] ELSE KeysRead(requests, c)[j]]
  <2>1. Arg[c] \cap DOMAIN more = (Arg[c] \cap DOMAIN r.answer) \cup {k}
    OBVIOUS
  <2>2. KeysRead(requests, c) = [i \in Arg[c] \cap DOMAIN r.answer |-> r.answer[i]]
    BY <1>3, <1>5 DEF KeysOf
  <2>3. KeysRead(requests', c) = [i \in Arg[c] \cap DOMAIN more |-> more[i]]
    BY <1>4, <1>5
  <2>4. \A i \in Arg[c] \cap DOMAIN more : more[i] = IF i = k THEN value[k] ELSE r.answer[i]
    OBVIOUS
  <2> HIDE DEF more
  <2> QED BY <2>1, <2>2, <2>3, <2>4
<1>6. ASSUME NEW c \in r.cbs \ S
      PROVE  KeysRead(requests', c) = KeysRead(requests, c)
  <2>1. Arg[c] \cap DOMAIN more = Arg[c] \cap DOMAIN r.answer
    OBVIOUS
  <2>2. \A i \in Arg[c] \cap DOMAIN r.answer : more[i] = r.answer[i]
    BY <1>0
  <2>3. KeysRead(requests, c) = [i \in Arg[c] \cap DOMAIN r.answer |-> r.answer[i]]
    BY <1>3, <1>6 DEF KeysOf
  <2>4. KeysRead(requests', c) = [i \in Arg[c] \cap DOMAIN more |-> more[i]]
    BY <1>4, <1>6
  <2> HIDE DEF more
  <2> QED BY <2>1, <2>2, <2>3, <2>4
<1>7. ASSUME NEW c, c \notin r.cbs
      PROVE  KeysRead(requests', c) = KeysRead(requests, c)
  <2>1. {p \in requests : c \in p.cbs} = {p \in requests' : c \in p.cbs}
    BY <1>0, <1>2, <1>7
  <2> QED BY <2>1, KeysOfSame
<1>8. \A c \in S : /\ c \in Caller /\ Abs!Waits(c)
                   /\ k \in Arg[c] \ DOMAIN KeysRead(requests, c)
  BY <1>0, <1>3, OnlyRequest DEF KeysOf
<1> HIDE DEF more
<1>9. S = {c \in r.cbs : k \in Arg[c]}
  OBVIOUS
<1> HIDE DEF S
<1>10. \A c \in Caller : KeysRead(requests', c) =
         IF c \in S THEN [j \in DOMAIN KeysRead(requests, c) \cup {k} |->
                            IF j = k THEN value[k] ELSE KeysRead(requests, c)[j]]
         ELSE KeysRead(requests, c)
  BY <1>5, <1>6, <1>7
<1>11. Abs!Read(k, S)
  BY <1>0, <1>8, <1>10 DEF Abs!Read
<1> QED BY <1>9, <1>11

\* When a request is gone, nothing is read for its calls any more.
LEMMA EndRefines ==
  ASSUME MergeInv, NEW r \in requests, requests' = requests \ {r}, NEW c \in Caller
  PROVE  KeysRead(requests', c) = IF c \in r.cbs THEN Abs!Nothing ELSE KeysRead(requests, c)
<1>1. CASE c \in r.cbs
  <2>1. \A q \in requests' : c \notin q.cbs
    BY <1>1, OnlyRequest
  <2> QED BY <1>1, <2>1, KeysOfNone DEF Abs!Nothing
<1>2. CASE c \notin r.cbs
  <2>1. {p \in requests : c \in p.cbs} = {p \in requests' : c \in p.cbs}
    BY <1>2
  <2> QED BY <1>2, <2>1, KeysOfSame
<1> QED BY <1>1, <1>2

\* The answer resolves every call of the request with what was read for it.
LEMMA SucceedRefines ==
  ASSUME MergeInv, NEW r \in requests, Succeed(r)
  PROVE  Abs!Resolve(r.cbs)
<1>0. /\ requests' = requests \ {r} /\ DOMAIN r.answer = r.ids
      /\ UNCHANGED <<value, called>>
      /\ outcome' = [c \in Caller |->
           IF c \in r.cbs THEN [state |-> "resolved", keys |-> Reduce(r.answer, Arg[c])]
           ELSE outcome[c]]
  BY DEF Succeed
<1>1. ASSUME NEW c \in r.cbs
      PROVE  /\ KeysRead(requests, c) = Reduce(r.answer, Arg[c])
             /\ DOMAIN KeysRead(requests, c) = Arg[c]
             /\ c \in Caller /\ Abs!Waits(c)
  <2>1. Arg[c] \cap DOMAIN r.answer = Arg[c]
    BY <1>0 DEF MergeInv, Covered
  <2>2. KeysRead(requests, c) = KeysOf(r, c)
    BY OnlyRequest, KeysOfRequest
  <2>3. KeysRead(requests, c) = [i \in Arg[c] |-> r.answer[i]]
    BY <2>1, <2>2 DEF KeysOf
  <2> QED BY <2>3, OnlyRequest DEF Reduce
<1>2. \A c \in Caller : KeysRead(requests', c) =
        IF c \in r.cbs THEN Abs!Nothing ELSE KeysRead(requests, c)
  BY <1>0, EndRefines
<1>3. Abs!End(r.cbs, [c \in r.cbs |-> Abs!Resolved([b \in Caller |-> KeysRead(requests, b)][c])])
  BY <1>0, <1>1, <1>2 DEF Abs!End, Abs!Resolved
<1> QED BY <1>1, <1>3 DEF Abs!Resolve

\* The failure rejects every call of the request.
LEMMA RejectRefines ==
  ASSUME MergeInv, NEW r \in requests, Reject(r)
  PROVE  Abs!Reject(r.cbs)
<1>0. /\ requests' = requests \ {r}
      /\ UNCHANGED <<value, called>>
      /\ outcome' = [c \in Caller |-> IF c \in r.cbs THEN Rejected ELSE outcome[c]]
  BY DEF Reject
<1>1. \A c \in r.cbs : c \in Caller /\ Abs!Waits(c)
  BY OnlyRequest
<1>2. \A c \in Caller : KeysRead(requests', c) =
        IF c \in r.cbs THEN Abs!Nothing ELSE KeysRead(requests, c)
  BY <1>0, EndRefines
<1>3. Abs!End(r.cbs, [c \in r.cbs |-> Abs!Rejected])
  BY <1>0, <1>1, <1>2 DEF Abs!End, Abs!Rejected, Rejected
<1> QED BY <1>1, <1>3 DEF Abs!Reject

\* A step of the debouncer is one of separate requests, or none.
LEMMA MergeRefines ==
  ASSUME MergeInv, [Next]_vars
  PROVE  [Abs!Next]_(Abs!absVars)
<1>1. ASSUME NEW c \in Caller, Call(c)
      PROVE  Abs!Call(c)
  BY <1>1 DEF Call, Abs!Call
<1>2. ASSUME NEW i \in Id, NEW v \in Value, Register(i, v)
      PROVE  Abs!Register(i, v)
  BY <1>2 DEF Register, Abs!Register
<1>3. ASSUME NEW r \in requests, NEW k \in r.ids, Serve(r, k)
      PROVE  Abs!Next
  <2>1. k \in Id /\ {c \in r.cbs : k \in Arg[c]} \in SUBSET Caller
    BY DEF MergeInv, TypeOK
  <2> QED BY <1>3, <2>1, ServeRefines DEF Abs!Next
<1>4. ASSUME NEW r \in requests, Succeed(r) \/ Reject(r)
      PROVE  Abs!Next
  <2>1. r.cbs \in SUBSET Caller
    BY DEF MergeInv, TypeOK
  <2> QED BY <1>4, <2>1, SucceedRefines, RejectRefines DEF Abs!Next
<1>5. CASE UNCHANGED vars
  BY <1>5 DEF vars, Abs!absVars
<1> QED BY <1>1, <1>2, <1>3, <1>4, <1>5, DoCallRefines DEF Next, Respond, AllCalled, Abs!Next

------------------------------------------------------------------------------
\* shouldNotify.

\* A set of natural numbers has a least element.
LEMMA Least ==
  ASSUME NEW T, T \subseteq Nat, T # {}
  PROVE  \E x \in T : \A y \in T : ~(y < x)
<1> DEFINE R == {ss \in Nat \X Nat : ss[1] < ss[2]}
<1>1. IsWellFoundedOn(R, Nat)
  BY NatLessThanWellFounded DEF OpToRel
<1> HIDE DEF R
<1>2. PICK x \in T : \A y \in T : ~(<<y, x>> \in R)
  BY <1>1, WFMin
<1>3. \A y \in T : ~(y < x)
  BY <1>2 DEF R
<1> QED BY <1>3

\* A text with mentions has a first one.
LEMMA FirstMention ==
  ASSUME NEW t \in Text, NEW k \in DOMAIN t, t[k] \in Mention
  PROVE  \E i \in DOMAIN t : t[i] \in Mention /\ \A j \in 1..(i - 1) : t[j] \notin Mention
<1>1. PICK n \in 0..MaxText : t \in [1..n -> Word]
  BY DEF Text
<1>2. DOMAIN t = 1..n /\ n \in Nat
  BY <1>1, MaxTextAssumption
<1> DEFINE T == {i \in DOMAIN t : t[i] \in Mention}
<1>3. T \subseteq Nat /\ T # {}
  BY <1>2
<1>4. PICK i \in T : \A y \in T : ~(y < i)
  BY <1>3, Least
<1>5. \A j \in 1..(i - 1) : j \in DOMAIN t /\ j < i
  BY <1>2, <1>4
<1> QED BY <1>4, <1>5

\* A text that shouldNotify accepts concerns the user by his settings.
LEMMA NotifiedConcerns ==
  ASSUME NEW t \in Text, NEW u \in User, ShouldNotify(t, u)
  PROVE  Concerns(t, u)
<1>1. ASSUME NEW i \in DOMAIN t, t[i] \in Mention, Allowed(t[i], u)
      PROVE  Concerns(t, u)
  BY <1>1 DEF Mention, Concerns
<1>2. ASSUME NEW i \in DOMAIN t, IsKey(t[i], u)
      PROVE  Concerns(t, u)
  BY <1>2 DEF IsKey, Concerns
<1>3. ASSUME NEW i \in DOMAIN t, u.first_name, t[i] = "First"
      PROVE  Concerns(t, u)
  BY <1>3 DEF Concerns
<1> QED BY <1>1, <1>2, <1>3 DEF ShouldNotify

\* shouldNotify accepts each text that concerns the user, unless it has a mention of
\* everybody that the user has switched off.
LEMMA ConcernedIsNotified ==
  ASSUME NEW t \in Text, NEW u \in User, Concerns(t, u), ~Unwanted(t, u)
  PROVE  ShouldNotify(t, u)
<1>1. CASE \E k \in DOMAIN t : t[k] \in Mention
  <2>1. PICK i \in DOMAIN t : t[i] \in Mention /\ \A j \in 1..(i - 1) : t[j] \notin Mention
    BY <1>1, FirstMention
  <2>2. Allowed(t[i], u)
    BY <2>1 DEF Mention, Allowed, Unwanted
  <2> QED BY <2>1, <2>2 DEF ShouldNotify
<1>2. CASE \A k \in DOMAIN t : t[k] \notin Mention
  <2>1. \E i \in DOMAIN t : \/ \E k \in u.mention_keys : Upper(k) = Upper(t[i])
                            \/ u.first_name /\ t[i] = "First"
    BY <1>2 DEF Concerns, Mention
  <2> QED BY <1>2, <2>1 DEF ShouldNotify, IsKey
<1> QED BY <1>1, <1>2

\* What a reading says: a text that is notified concerns the user, and one that is not
\* need not be.
LEMMA ReadingsRight ==
  ASSUME NEW r \in Readings
  PROVE  /\ r.class \in {"must", "may", "never"}
         /\ r.notify => r.class \in {"must", "may"}
         /\ ~r.notify => r.class # "must"
<1>1. PICK t \in Text, u \in User : r = [notify |-> ShouldNotify(t, u), class |-> Class(t, u)]
  BY DEF Readings
<1>2. r.notify = ShouldNotify(t, u) /\ r.class = Class(t, u)
  BY <1>1
<1>3. Class(t, u) \in {"must", "may", "never"}
  BY DEF Class
<1>4. ShouldNotify(t, u) => Class(t, u) \in {"must", "may"}
  BY NotifiedConcerns DEF Class
<1>5. ~ShouldNotify(t, u) => Class(t, u) # "must"
  BY ConcernedIsNotified DEF Class
<1> QED BY <1>2, <1>3, <1>4, <1>5

------------------------------------------------------------------------------
\* The handlers.

\* The reasons for which a post may be missed, or shown, when since is what was wanted
\* since it came.
Excused(since) == permission # "granted" \/ FALSE \in since
Welcome(since) == permission = "granted" /\ TRUE \in since
MissedRight(h, since) == h.stage = "missed" /\ h.class = "must" => Excused(since)
ShownRight(h, since) == h.stage = "shown" => h.class \in {"must", "may"} /\ Welcome(since)

\* A handler becomes one that has the invariant, and ends for a reason if it ends.
BecomesSound(p, since) ==
  /\ \E g \in Handler : /\ handler' = [handler EXCEPT ![p] = g]
                        /\ Sound(g, wanted) /\ MissedRight(g, since) /\ ShownRight(g, since)
  /\ requested' \in BOOLEAN

\* A handler's record, and what it becomes.
LEMMA HandlerFields ==
  ASSUME NEW h \in Handler
  PROVE  h.seen \subseteq BOOLEAN /\ h.was \in BOOLEAN /\ h.class \in {"must", "may", "never"}
BY DEF Handler

\* The run of a handler ends.
LEMMA Ended ==
  ASSUME NEW p, NEW h, h.class \in {"must", "may", "never"},
         NEW stage \in {"missed", "dropped", "shown"}, End(p, h, stage)
  PROVE  \E g \in Handler : /\ handler' = [handler EXCEPT ![p] = g]
                            /\ g.stage = stage /\ g.class = h.class
<1> DEFINE g == [Idle EXCEPT !.stage = stage, !.class = h.class]
<1>1. handler' = [handler EXCEPT ![p] = g]
  BY DEF End, Become
<1>2. g \in Handler
  BY DEF Handler, Idle
<1>3. g.stage = stage /\ g.class = h.class
  BY DEF Idle
<1> HIDE DEF g
<1> QED BY <1>1, <1>2, <1>3

\* It ends without a notification, ...
LEMMA MissedSound ==
  ASSUME NEW p, NEW h, h.class \in {"must", "may", "never"}, NEW since,
         End(p, h, "missed"), requested' \in BOOLEAN,
         h.class = "must" => Excused(since)
  PROVE  BecomesSound(p, since)
<1>1. PICK g \in Handler : /\ handler' = [handler EXCEPT ![p] = g]
                          /\ g.stage = "missed" /\ g.class = h.class
  BY Ended
<1>2. Sound(g, wanted) /\ MissedRight(g, since) /\ ShownRight(g, since)
  BY <1>1 DEF Sound, MissedRight, ShownRight
<1> QED BY <1>1, <1>2 DEF BecomesSound

\* ... without a reading, ...
LEMMA DroppedSound ==
  ASSUME NEW p, NEW h, h.class \in {"must", "may", "never"}, NEW since,
         End(p, h, "dropped"), requested' \in BOOLEAN
  PROVE  BecomesSound(p, since)
<1>1. PICK g \in Handler : handler' = [handler EXCEPT ![p] = g] /\ g.stage = "dropped"
  BY Ended
<1>2. Sound(g, wanted) /\ MissedRight(g, since) /\ ShownRight(g, since)
  BY <1>1 DEF Sound, MissedRight, ShownRight
<1> QED BY <1>1, <1>2 DEF BecomesSound

\* ... or with one.
LEMMA ShownSound ==
  ASSUME NEW p, NEW h, h.class \in {"must", "may"}, NEW since,
         End(p, h, "shown"), requested' \in BOOLEAN,
         Welcome(since)
  PROVE  BecomesSound(p, since)
<1>1. PICK g \in Handler : /\ handler' = [handler EXCEPT ![p] = g]
                          /\ g.stage = "shown" /\ g.class = h.class
  BY Ended
<1>2. Sound(g, wanted) /\ MissedRight(g, since) /\ ShownRight(g, since)
  BY <1>1 DEF Sound, MissedRight, ShownRight
<1> QED BY <1>1, <1>2 DEF BecomesSound

\* sendDesktopNotification, after the profile is there.
LEMMA NotifySound ==
  ASSUME NEW p, NEW h \in Handler, h.class \in {"must", "may"}, requested \in BOOLEAN,
         wanted \in h.seen, NEW was \in h.seen, Notify(p, h, was)
  PROVE  BecomesSound(p, h.seen)
<1>1. was \in BOOLEAN
  BY HandlerFields
<1>2. CASE was = FALSE
  <2>1. End(p, h, "missed") /\ requested' = requested
    BY <1>2 DEF Notify
  <2>2. requested' \in BOOLEAN
    BY <2>1
  <2>3. Excused(h.seen)
    BY <1>2 DEF Excused
  <2> QED BY <2>1, <2>2, <2>3, MissedSound
<1>3. CASE was = TRUE
  <2>1. ShowNotification(p, h) /\ TRUE \in h.seen
    BY <1>3 DEF Notify
  <2>2. CASE permission # "granted" /\ End(p, h, "missed") /\ requested' = requested
    <3>1. requested' \in BOOLEAN /\ Excused(h.seen)
      BY <2>2 DEF Excused
    <3> QED BY <2>2, <3>1, MissedSound
  <2>3. CASE requested' = TRUE /\ Become(p, [h EXCEPT !.stage = "asking", !.was = FALSE])
    <3> DEFINE g == [h EXCEPT !.stage = "asking", !.was = FALSE]
    <3>1. handler' = [handler EXCEPT ![p] = g]
      BY <2>3 DEF Become
    <3>2. g \in Handler /\ g.stage = "asking" /\ g.class = h.class /\ g.seen = h.seen
      BY DEF Handler
    <3> HIDE DEF g
    <3>3. Sound(g, wanted) /\ MissedRight(g, h.seen) /\ ShownRight(g, h.seen)
      BY <2>1, <3>2 DEF Sound, MissedRight, ShownRight
    <3> QED BY <2>3, <3>1, <3>2, <3>3 DEF BecomesSound
  <2> QED BY <2>1, <2>2, <2>3 DEF ShowNotification
<1> QED BY <1>1, <1>2, <1>3

\* sendDesktopNotification.
LEMMA SendSound ==
  ASSUME NEW p, NEW h \in Handler, h.class \in {"must", "may"}, requested \in BOOLEAN,
         wanted \in h.seen, SendDesktopNotification(p, h)
  PROVE  BecomesSound(p, h.seen)
<1>1. CASE End(p, [h EXCEPT !.class = "never"], "missed") /\ requested' = requested
  <2> DEFINE g == [h EXCEPT !.class = "never"]
  <2>1. g.class = "never"
    BY DEF Handler
  <2>2. End(p, g, "missed") /\ requested' \in BOOLEAN
    BY <1>1
  <2> HIDE DEF g
  <2> QED BY <2>1, <2>2, MissedSound
<1>2. CASE /\ Become(p, [h EXCEPT !.stage = "profile", !.was = wanted])
           /\ requested' = requested
  <2> DEFINE g == [h EXCEPT !.stage = "profile", !.was = wanted]
  <2>1. wanted \in BOOLEAN
    BY HandlerFields
  <2>2. handler' = [handler EXCEPT ![p] = g]
    BY <1>2 DEF Become
  <2>3. /\ g \in Handler
        /\ g.stage = "profile" /\ g.class = h.class /\ g.was = wanted /\ g.seen = h.seen
    BY <2>1 DEF Handler
  <2> HIDE DEF g
  <2>4. Sound(g, wanted) /\ MissedRight(g, h.seen) /\ ShownRight(g, h.seen)
    BY <2>3 DEF Sound, MissedRight, ShownRight
  <2> QED BY <1>2, <2>2, <2>3, <2>4 DEF BecomesSound
<1>3. CASE Notify(p, h, wanted)
  BY <1>3, NotifySound
<1> QED BY <1>1, <1>2, <1>3 DEF SendDesktopNotification

\* The post is read, and the user concerned or not.
LEMMA ReadSound ==
  ASSUME NEW p, NEW h \in Handler, requested \in BOOLEAN, wanted \in h.seen, Read(p, h)
  PROVE  BecomesSound(p, h.seen)
<1>1. PICK r \in Readings :
        \/ r.notify /\ SendDesktopNotification(p, [h EXCEPT !.class = r.class])
        \/ ~r.notify /\ End(p, [h EXCEPT !.class = r.class], "missed") /\ requested' = requested
  BY DEF Read
<1> DEFINE g == [h EXCEPT !.class = r.class]
<1>2. g \in Handler /\ g.class = r.class /\ g.seen = h.seen
  BY ReadingsRight DEF Handler
<1> HIDE DEF g
<1>3. CASE r.notify /\ SendDesktopNotification(p, g)
  <2>1. g.class \in {"must", "may"}
    BY <1>2, <1>3, ReadingsRight
  <2>2. BecomesSound(p, g.seen)
    BY <1>2, <1>3, <2>1, SendSound
  <2> QED BY <1>2, <2>2
<1>4. CASE ~r.notify /\ End(p, g, "missed") /\ requested' = requested
  <2>1. End(p, g, "missed") /\ requested' \in BOOLEAN
    BY <1>4
  <2>2. g.class \in {"must", "may", "never"} /\ g.class # "must"
    BY <1>2, <1>4, ReadingsRight
  <2> QED BY <1>2, <2>1, <2>2, MissedSound
<1> QED BY <1>1, <1>3, <1>4 DEF g

\* A handler's step.
HandlerStep(p) == OnPosted(p) \/ GotKey(p) \/ GotProfile(p) \/ GotPermission(p)

\* The step of one handler: what it becomes.
LEMMA HandlerSound ==
  ASSUME IInv, NEW p \in Posted, HandlerStep(p)
  PROVE  /\ UNCHANGED <<wanted, permission>>
         /\ BecomesSound(p, WantedSince(p))
         /\ handler[p].stage \notin {"missed", "shown"}
<1>0. /\ handler[p] \in Handler /\ requested \in BOOLEAN /\ wanted \in BOOLEAN
      /\ Sound(handler[p], wanted)
  BY DEF IInv, NotifyTypeOK, HandlerInv
<1>1. UNCHANGED <<wanted, permission>>
  BY DEF HandlerStep, OnPosted, GotKey, GotProfile, GotPermission
<1>2. ASSUME NEW since, since \subseteq WantedSince(p), BecomesSound(p, since)
      PROVE  BecomesSound(p, WantedSince(p))
  BY <1>2 DEF BecomesSound, MissedRight, ShownRight, Excused, Welcome
<1>3. CASE OnPosted(p)
  <2> DEFINE h == [Idle EXCEPT !.seen = {wanted}]
  <2>1. h \in Handler /\ h.seen = {wanted} /\ h.class = "never"
    BY <1>0 DEF Handler, Idle
  <2>2. \/ End(p, h, "dropped") /\ requested' = requested
        \/ Read(p, h)
        \/ Become(p, [h EXCEPT !.stage = "keys"]) /\ requested' = requested
    BY <1>3 DEF OnPosted
  <2> HIDE DEF h
  <2>3. h.seen \subseteq WantedSince(p)
    BY <2>1 DEF WantedSince
  <2>4. CASE End(p, h, "dropped") /\ requested' = requested
    <3>1. requested' \in BOOLEAN
      BY <1>0, <2>4
    <3> QED BY <1>1, <1>3, <2>1, <2>4, <3>1, DroppedSound DEF OnPosted
  <2>5. CASE Read(p, h)
    <3>1. BecomesSound(p, h.seen)
      BY <1>0, <2>1, <2>5, ReadSound
    <3> QED BY <1>1, <1>2, <1>3, <2>3, <3>1 DEF OnPosted
  <2>6. CASE Become(p, [h EXCEPT !.stage = "keys"]) /\ requested' = requested
    <3> DEFINE g == [h EXCEPT !.stage = "keys"]
    <3>1. g \in Handler /\ g.stage = "keys" /\ g.seen = {wanted}
      BY <2>1 DEF Handler
    <3>2. handler' = [handler EXCEPT ![p] = g]
      BY <2>6 DEF Become
    <3> HIDE DEF g
    <3>3. Sound(g, wanted) /\ MissedRight(g, WantedSince(p)) /\ ShownRight(g, WantedSince(p))
      BY <3>1 DEF Sound, MissedRight, ShownRight
    <3>4. BecomesSound(p, WantedSince(p))
      BY <1>0, <2>6, <3>1, <3>2, <3>3 DEF BecomesSound
    <3> QED BY <1>1, <1>3, <3>4 DEF OnPosted
  <2> QED BY <2>2, <2>4, <2>5, <2>6
<1>4. handler[p].seen \subseteq WantedSince(p) /\ handler[p].class \in {"must", "may", "never"}
  BY <1>0, HandlerFields DEF WantedSince
<1>5. CASE GotKey(p)
  <2>1. handler[p].stage = "keys" /\ wanted \in handler[p].seen
    BY <1>0, <1>5 DEF GotKey, Sound
  <2>2. CASE End(p, handler[p], "dropped") /\ requested' = requested
    <3>1. requested' \in BOOLEAN
      BY <1>0, <2>2
    <3> QED BY <1>1, <1>4, <2>1, <2>2, <3>1, DroppedSound
  <2>3. CASE Read(p, handler[p])
    <3>1. BecomesSound(p, handler[p].seen)
      BY <1>0, <2>1, <2>3, ReadSound
    <3> QED BY <1>1, <1>2, <1>4, <2>1, <3>1
  <2> QED BY <1>5, <2>2, <2>3 DEF GotKey
<1>6. CASE GotProfile(p)
  <2>1. /\ handler[p].stage = "profile" /\ wanted \in handler[p].seen
        /\ handler[p].was \in handler[p].seen /\ handler[p].class \in {"must", "may"}
        /\ Notify(p, handler[p], handler[p].was)
    BY <1>0, <1>6 DEF GotProfile, Sound
  <2>2. BecomesSound(p, handler[p].seen)
    BY <1>0, <2>1, NotifySound
  <2> QED BY <1>1, <1>2, <1>4, <2>1, <2>2
<1>7. CASE GotPermission(p)
  <2>1. /\ handler[p].stage = "asking" /\ TRUE \in WantedSince(p)
        /\ handler[p].class \in {"must", "may"}
        /\ End(p, handler[p], IF permission = "granted" THEN "shown" ELSE "missed")
    BY <1>0, <1>4, <1>7 DEF GotPermission, Sound
  <2>2. requested' \in BOOLEAN
    BY <1>0, <1>7 DEF GotPermission
  <2>3. CASE permission = "granted"
    <3>1. End(p, handler[p], "shown") /\ Welcome(WantedSince(p))
      BY <2>1, <2>3 DEF Welcome
    <3> QED BY <1>1, <2>1, <2>2, <3>1, ShownSound
  <2>4. CASE permission # "granted"
    <3>1. End(p, handler[p], "missed") /\ Excused(WantedSince(p))
      BY <2>1, <2>4 DEF Excused
    <3> QED BY <1>1, <1>4, <2>1, <2>2, <3>1, MissedSound
  <2> QED BY <2>3, <2>4
<1> QED BY <1>3, <1>5, <1>6, <1>7 DEF HandlerStep

\* Each step of Notify is one of DebouncedMerge, or leaves it alone.
LEMMA NotifyMerge ==
  ASSUME [NotifyNext]_notifyVars
  PROVE  [Next]_vars
BY PostedAssumption DEF NotifyNext, Next, OnPosted, GotKey, GotProfile, GotPermission, Turn,
      AnswerPrompt, notifyVars, vars

\* The initial states satisfy the inductive invariant.
LEMMA InitInv == NotifyInit => IInv
<1> SUFFICES ASSUME NotifyInit PROVE IInv
  OBVIOUS
<1> USE DEF NotifyInit
<1>1. MergeInv
  BY MergeInit
<1>2. Idle \in Handler /\ Idle.stage = "idle"
  BY DEF Idle, Handler
<1>3. NotifyTypeOK
  BY <1>1, <1>2 DEF NotifyTypeOK, MergeInv
<1>4. HandlerInv
  BY <1>2 DEF HandlerInv, Sound
<1> QED BY <1>1, <1>3, <1>4 DEF IInv

\* A step keeps the inductive invariant.
LEMMA InvStep == IInv /\ [NotifyNext]_notifyVars => IInv'
<1> SUFFICES ASSUME IInv, [NotifyNext]_notifyVars PROVE IInv'
  OBVIOUS
<1>1. MergeInv'
  BY NotifyMerge, MergeStep DEF IInv
<1>2. TypeOK'
  BY <1>1 DEF MergeInv
<1>3. /\ handler \in [Posted -> Handler] /\ wanted \in BOOLEAN /\ requested \in BOOLEAN
      /\ permission \in {"default", "granted", "denied"}
      /\ \A p \in Posted : Sound(handler[p], wanted)
  BY DEF IInv, NotifyTypeOK, HandlerInv
<1>4. ASSUME NEW p \in Posted, HandlerStep(p)
      PROVE  IInv'
  <2>1. UNCHANGED <<wanted, permission>> /\ BecomesSound(p, WantedSince(p))
    BY <1>4, HandlerSound
  <2>2. PICK g \in Handler : handler' = [handler EXCEPT ![p] = g] /\ Sound(g, wanted)
    BY <2>1 DEF BecomesSound
  <2>3. handler' \in [Posted -> Handler] /\ requested' \in BOOLEAN
    BY <1>3, <2>1, <2>2 DEF BecomesSound
  <2>4. \A q \in Posted : Sound(handler'[q], wanted)
    BY <1>3, <2>2
  <2>5. NotifyTypeOK'
    BY <1>2, <1>3, <2>1, <2>3 DEF NotifyTypeOK
  <2>6. HandlerInv'
    BY <2>1, <2>4 DEF HandlerInv
  <2> QED BY <1>1, <2>5, <2>6 DEF IInv
<1>5. CASE Turn
  <2>1. /\ wanted' \in BOOLEAN /\ UNCHANGED <<permission, requested>>
        /\ handler' = [p \in Posted |-> IF Active(p)
                         THEN [handler[p] EXCEPT !.seen = @ \cup {wanted'}] ELSE handler[p]]
    BY <1>3, <1>5 DEF Turn
  <2>2. ASSUME NEW p \in Posted
        PROVE  handler'[p] \in Handler /\ Sound(handler'[p], wanted')
    <3>1. CASE Active(p)
      <4>1. handler'[p] = [handler[p] EXCEPT !.seen = @ \cup {wanted'}]
        BY <2>1, <3>1
      <4>2. /\ handler'[p] \in Handler /\ handler'[p].stage = handler[p].stage
            /\ handler'[p].class = handler[p].class /\ handler'[p].was = handler[p].was
            /\ handler'[p].seen = handler[p].seen \cup {wanted'}
        BY <1>3, <2>1, <4>1 DEF Handler
      <4> QED BY <1>3, <2>1, <4>2 DEF Sound
    <3>2. CASE ~Active(p)
      BY <1>3, <2>1, <3>2 DEF Active, Sound
    <3> QED BY <3>1, <3>2
  <2>3. handler' \in [Posted -> Handler]
    BY <2>1, <2>2
  <2>4. NotifyTypeOK'
    BY <1>2, <1>3, <2>1, <2>3 DEF NotifyTypeOK
  <2>5. HandlerInv'
    BY <2>2 DEF HandlerInv
  <2> QED BY <1>1, <2>4, <2>5 DEF IInv
<1>6. CASE AnswerPrompt
  BY <1>1, <1>2, <1>3, <1>6 DEF AnswerPrompt, NotifyTypeOK, HandlerInv, IInv
<1>7. CASE UNCHANGED noteVars
  BY <1>1, <1>2, <1>3, <1>7 DEF noteVars, NotifyTypeOK, HandlerInv, IInv
<1> QED BY <1>4, <1>5, <1>6, <1>7 DEF NotifyNext, HandlerStep, notifyVars, noteVars

\* The inductive invariant holds in every reachable state.
THEOREM Invariance == NotifySpec => []IInv
BY InitInv, InvStep, PTL DEF NotifySpec

\* Every variable has its type.
THEOREM TypeCorrect == NotifySpec => []NotifyTypeOK
<1>1. IInv => NotifyTypeOK
  BY DEF IInv
<1> QED BY Invariance, <1>1, PTL

\* Whatever the order of the calls, the timer and the answers, debouncedMerge forgets no
\* call and answers none twice.
THEOREM CallsHeldOnce == NotifySpec => []HeldOnce
<1>1. IInv => HeldOnce
  BY HeldOnceHolds DEF IInv
<1> QED BY Invariance, <1>1, PTL

\* Those who call the debounced getPubKeys cannot tell it from one that sends a request
\* of its own for each of them.
THEOREM SeparateRequests == NotifySpec => ImplementsSeparateRequests
<1>1. NotifyInit => Abs!Init
  <2> SUFFICES ASSUME NotifyInit PROVE Abs!Init
    OBVIOUS
  <2>1. Init /\ requests = {}
    BY DEF NotifyInit, Init
  <2>2. \A c \in Caller : KeysRead(requests, c) = Abs!Nothing
    BY <2>1, KeysOfNone DEF Abs!Nothing
  <2> QED BY <2>1, <2>2 DEF Init, Abs!Init, Abs!Pending, Pending
<1>2. IInv /\ [NotifyNext]_notifyVars => [Abs!Next]_(Abs!absVars)
  BY NotifyMerge, MergeRefines DEF IInv
<1> QED BY <1>1, <1>2, Invariance, PTL DEF NotifySpec, ImplementsSeparateRequests, Abs!Spec

\* What a step ends, it ends for a reason.
LEMMA EndsRight ==
  ASSUME IInv, [NotifyNext]_notifyVars, NEW p \in Posted,
         Ends(p, "shown") \/ Ends(p, "missed")
  PROVE  MissedRight(handler'[p], WantedSince(p)) /\ ShownRight(handler'[p], WantedSince(p))
<1>1. handler \in [Posted -> Handler]
  BY DEF IInv, NotifyTypeOK
<1>2. handler'[p].stage # handler[p].stage
  BY DEF Ends
<1>3. HandlerStep(p)
  <2>1. CASE \E q \in Posted : HandlerStep(q)
    <3>1. PICK q \in Posted : HandlerStep(q)
      BY <2>1
    <3>2. BecomesSound(q, WantedSince(q))
      BY <3>1, HandlerSound
    <3>3. q = p
      BY <1>1, <1>2, <3>2 DEF BecomesSound
    <3> QED BY <3>1, <3>3
  <2>2. CASE Turn
    <3>1. handler'[p].stage = handler[p].stage
      BY <1>1, <2>2 DEF Turn, Handler
    <3> QED BY <1>2, <3>1
  <2>3. CASE UNCHANGED handler
    BY <1>2, <2>3
  <2> QED BY <2>1, <2>2, <2>3 DEF NotifyNext, HandlerStep, AnswerPrompt, notifyVars, noteVars
<1>4. BecomesSound(p, WantedSince(p))
  BY <1>3, HandlerSound
<1>5. PICK g \in Handler : /\ handler' = [handler EXCEPT ![p] = g]
                          /\ MissedRight(g, WantedSince(p)) /\ ShownRight(g, WantedSince(p))
  BY <1>4 DEF BecomesSound
<1>6. handler'[p] = g
  BY <1>1, <1>5
<1> QED BY <1>5, <1>6

\* What onPosted shows concerns the user, was permitted, and wanted since the post came,
\* for texts of every length and however late the answers are.
THEOREM ShownForAReason == NotifySpec => ShownHasReason
<1>1. ASSUME IInv, [NotifyNext]_notifyVars
      PROVE  [\A p \in Posted : Ends(p, "shown") =>
                /\ handler'[p].class \in {"must", "may"}
                /\ permission = "granted"
                /\ TRUE \in WantedSince(p)]_notifyVars
  BY <1>1, EndsRight DEF Ends, ShownRight, Welcome
<1> QED BY Invariance, <1>1, PTL DEF NotifySpec, ShownHasReason

\* onPosted misses no post that concerns the user but for want of the permission, or
\* when no notification was wanted at some moment since the post came.
THEOREM MissedForAReason == NotifySpec => MissedHasReason
<1>1. ASSUME IInv, [NotifyNext]_notifyVars
      PROVE  [\A p \in Posted : Ends(p, "missed") /\ handler'[p].class = "must" =>
                \/ permission # "granted"
                \/ FALSE \in WantedSince(p)]_notifyVars
  BY <1>1, EndsRight DEF Ends, MissedRight, Excused
<1> QED BY Invariance, <1>1, PTL DEF NotifySpec, MissedHasReason
==============================================================================
