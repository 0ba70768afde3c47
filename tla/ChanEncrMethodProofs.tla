------------------------- MODULE ChanEncrMethodProofs -------------------------
(***************************************************************************)
(* What ChanEncrMethod guarantees for every set of requests and channels:  *)
(* its types, the discipline of its mutex, the alternation of the stored   *)
(* methods, that every change is told once, and that it implements an      *)
(* atomic register.                                                        *)
(***************************************************************************)
EXTENDS ChanEncrMethod, FiniteSetTheorems, TLAPS

\* What the labels of a request say of its parameters and of its result.
LabelInv ==
  \A r \in Request :
    /\ pc[r] = "idle" <=> req[r] = NoCall
    /\ pc[r] = "compare" => IsSet(r)
    /\ pc[r] \in {"idle", "check", "lock", "kvget", "compare"} => ret[r] = "pending"
    /\ pc[r] = "unlock" /\ IsSet(r) => ret[r] \in {"changed", "torn", "same", "error"}

\* The inductive invariant.
IInv == /\ TypeOK
        /\ LabelInv
        /\ LockDiscipline
        /\ OldMethodIsCurrent
        /\ ChangesAlternate

\* The parameters of a request that has arrived have their types.
LEMMA CallFields ==
  ASSUME NEW x \in Call \cup {NoCall}, x # NoCall
  PROVE  x.op \in {"set", "get"} /\ x.chan \in Chan /\ x.arg \in Method
BY DEF Call, NoCall

\* Every request beyond "idle" has parameters of the right types.
LEMMA Arrived ==
  ASSUME IInv, NEW r \in Request, pc[r] # "idle"
  PROVE  /\ req[r] \in Call /\ req[r] # NoCall
         /\ req[r].op \in {"set", "get"}
         /\ req[r].chan \in Chan
         /\ req[r].arg \in Method
BY CallFields DEF IInv, TypeOK, LabelInv

\* The initial states satisfy the inductive invariant.
LEMMA InitInv == Init => IInv
BY NoReqAssumption
   DEF Init, IInv, TypeOK, LabelInv, LockDiscipline, OldMethodIsCurrent,
       ChangesAlternate, Stored, Label, Result, Locked, IsSet, IsGet, Method,
       Missing, MethodOf, NoCall

\* When the process stops, its requests end and its mutex is free.
LEMMA Crashed ==
  ASSUME TypeOK, Crash
  PROVE  /\ UNCHANGED <<kv, req, old, ret, changes, events, posts>>
         /\ writer' = NoReq /\ readers' = {}
         /\ pc' \in [Request -> Label]
         /\ \A r \in Request : /\ pc'[r] \in Ended \/ (pc'[r] = "idle" /\ pc[r] = "idle")
                               /\ pc'[r] # pc[r] => pc[r] # "idle"
                               /\ pc[r] \in Ended => pc'[r] = pc[r]
                               /\ ret[r] \in {"changed", "torn"} =>
                                    (pc'[r] = "cut" <=> pc[r] \in {"unlock", "publish", "cut"})
<1>1. /\ UNCHANGED <<kv, req, old, ret, changes, events, posts>>
      /\ writer' = NoReq /\ readers' = {}
  BY DEF Crash, outVars
<1>2. \A r \in Request : pc[r] \in Label
  BY DEF TypeOK
<1>3. pc' = [r \in Request |->
               IF ret[r] \in {"changed", "torn"} /\ pc[r] \in {"unlock", "publish"} THEN "cut"
               ELSE IF pc[r] \notin Ended \cup {"idle"} THEN "lost" ELSE pc[r]]
  BY DEF Crash
<1>4. pc' \in [Request -> Label]
  BY <1>2, <1>3 DEF Label
<1> QED BY <1>1, <1>2, <1>3, <1>4 DEF Label, Ended

\* A step keeps the types.
LEMMA TypeStep ==
  ASSUME IInv, [Next]_vars
  PROVE  TypeOK'
<1> USE DEF IInv, TypeOK, Method, Stored, Label, Result, lockVars, outVars
<1>1. ASSUME NEW r \in Request, NEW call \in Call, Arrive(r, call)
      PROVE  TypeOK'
  BY <1>1 DEF Arrive, Goto
<1>2. ASSUME NEW r \in Request, Step(r)
      PROVE  TypeOK'
  <2>1. CASE CheckMember(r)
    BY Arrived, <2>1 DEF CheckMember, Goto
  <2>2. CASE Lock(r)
    BY Arrived, <2>2 DEF Lock, Goto, IsSet, IsGet
  <2>3. CASE RLock(r)
    BY Arrived, <2>3 DEF RLock, Goto, IsSet, IsGet
  <2>4. CASE ReadOld(r)
    BY Arrived, <2>4 DEF ReadOld, Goto, Return, IsSet, MethodOf, Missing
  <2>5. CASE Get(r)
    <3>1. req[r].chan \in Chan
      BY Arrived, <2>5 DEF Get
    <3>2. PICK m \in {MethodOf(kv[req[r].chan]), "none"} : Return(r, m)
      BY <2>5 DEF Get
    <3>3. m \in Method
      BY <3>1, <3>2 DEF MethodOf, Missing
    <3> QED BY <2>5, <3>2, <3>3 DEF Get, Goto, Return
  <2>6. CASE SameMethod(r)
    BY Arrived, <2>6 DEF SameMethod, Goto, Return
  <2>7. CASE StoreNew(r)
    <3>1. req[r].chan \in Chan /\ req[r].arg \in Method
      BY Arrived, <2>7 DEF StoreNew
    <3>2. Append(changes[req[r].chan], req[r].arg) \in Seq(Method)
      BY <3>1
    <3>3. kv' \in [Chan -> Stored]
      BY <2>7, <3>1 DEF StoreNew
    <3>4. CASE UNCHANGED changes
      BY <2>7, <3>3, <3>4 DEF StoreNew, Goto, Return
    <3>5. CASE changes' = [changes EXCEPT ![req[r].chan] = Append(@, req[r].arg)]
      <4>1. changes' \in [Chan -> Seq(Method)]
        BY <3>2, <3>5
      <4> QED BY <2>7, <3>3, <4>1 DEF StoreNew, Goto, Return
    <3> QED BY <2>7, <3>4, <3>5 DEF StoreNew
  <2>8. CASE Unlock(r)
    <3>1. /\ pc' = [pc EXCEPT ![r] = AfterSet[ret[r]]] \/ pc' = [pc EXCEPT ![r] = "done"]
          /\ writer' \in {writer, NoReq} /\ readers' \in {readers, readers \ {r}}
          /\ UNCHANGED <<kv, req, old, ret, changes, events, posts>>
      BY <2>8 DEF Unlock, Goto
    <3>2. CASE pc' = [pc EXCEPT ![r] = "done"]
      BY <3>1, <3>2
    <3>3. CASE pc' # [pc EXCEPT ![r] = "done"]
      <4>1. IsSet(r) /\ pc[r] = "unlock"
        BY <2>8, <3>3 DEF Unlock, Goto
      <4>2. AfterSet[ret[r]] \in Label
        BY <4>1 DEF LabelInv, AfterSet, Label
      <4> QED BY <3>1, <3>3, <4>2
    <3> QED BY <3>2, <3>3
  <2>9. CASE TellAlready(r)
    BY Arrived, <2>9 DEF TellAlready, Goto
  <2>10. CASE Publish(r)
    BY Arrived, <2>10 DEF Publish, Goto
  <2>11. CASE GetRequester(r)
    BY Arrived, <2>11 DEF GetRequester, Goto
  <2>12. CASE GetChannelMembersWithoutKeys(r)
    BY Arrived, <2>12 DEF GetChannelMembersWithoutKeys, Goto
  <2>13. CASE Announce(r)
    <3>1. req[r].chan \in Chan /\ req[r].arg \in Method
      BY Arrived, <2>13 DEF Announce
    <3>2. Append(posts[req[r].chan], req[r].arg) \in Seq(Method)
      BY <3>1
    <3>3. posts' \in [Chan -> Seq(Method)]
      BY <2>13, <3>2 DEF Announce
    <3> QED BY <2>13, <3>3 DEF Announce, Goto
  <2> QED BY <1>2, <2>1, <2>2, <2>3, <2>4, <2>5, <2>6, <2>7, <2>8, <2>9, <2>10, <2>11, <2>12, <2>13 DEF Step
<1>4. CASE Crash
  BY <1>4, Crashed
<1>3. CASE UNCHANGED vars
  BY <1>3 DEF vars
<1> QED BY <1>1, <1>2, <1>3, <1>4 DEF Next, AllServed

\* A step keeps what the labels say.
LEMMA LabelStep ==
  ASSUME IInv, [Next]_vars
  PROVE  LabelInv'
<1> USE DEF IInv, TypeOK, LabelInv, lockVars, outVars, IsSet, NoCall
<1> TypeOK' BY TypeStep
<1>1. ASSUME NEW r \in Request, NEW call \in Call, Arrive(r, call)
      PROVE  LabelInv'
  BY <1>1, CallFields DEF Arrive, Goto, Call
<1>2. ASSUME NEW r \in Request, Step(r)
      PROVE  LabelInv'
  <2>1. CASE CheckMember(r)
    BY Arrived, <2>1 DEF CheckMember, Goto
  <2>2. CASE Lock(r)
    BY Arrived, <2>2 DEF Lock, Goto, IsSet, IsGet
  <2>3. CASE RLock(r)
    BY Arrived, <2>3 DEF RLock, Goto, IsSet, IsGet
  <2>4. CASE ReadOld(r)
    <3>1. CASE Goto(r, "compare") /\ UNCHANGED ret
      BY Arrived, <2>4, <3>1 DEF ReadOld, Goto
    <3>2. CASE Goto(r, "unlock") /\ Return(r, "error")
      BY Arrived, <2>4, <3>2 DEF ReadOld, Goto, Return, Result
    <3> QED BY <2>4, <3>1, <3>2 DEF ReadOld
  <2>5. CASE Get(r)
    BY Arrived, <2>5 DEF Get, Goto, Return, IsGet
  <2>6. CASE SameMethod(r)
    BY Arrived, <2>6 DEF SameMethod, Goto, Return
  <2>7. CASE StoreNew(r)
    BY Arrived, <2>7 DEF StoreNew, Goto, Return
  <2>8. CASE Unlock(r)
    BY Arrived, <2>8 DEF Unlock, Goto, AfterSet, IsSet, IsGet
  <2>9. CASE TellAlready(r)
    BY Arrived, <2>9 DEF TellAlready, Goto
  <2>10. CASE Publish(r)
    BY Arrived, <2>10 DEF Publish, Goto
  <2>11. CASE GetRequester(r)
    BY Arrived, <2>11 DEF GetRequester, Goto
  <2>12. CASE GetChannelMembersWithoutKeys(r)
    BY Arrived, <2>12 DEF GetChannelMembersWithoutKeys, Goto
  <2>13. CASE Announce(r)
    BY Arrived, <2>13 DEF Announce, Goto
  <2> QED BY <1>2, <2>1, <2>2, <2>3, <2>4, <2>5, <2>6, <2>7, <2>8, <2>9, <2>10, <2>11, <2>12, <2>13 DEF Step
<1>4. CASE Crash
  <2>1. UNCHANGED <<req, ret>>
    BY <1>4, Crashed
  <2>2. ASSUME NEW r \in Request
        PROVE  /\ pc'[r] \in {"done", "lost", "cut", "idle"}
               /\ pc'[r] = "idle" <=> pc[r] = "idle"
    BY <1>4, Crashed DEF Ended
  <2> QED BY <2>1, <2>2
<1>3. CASE UNCHANGED vars
  BY <1>3 DEF vars
<1> QED BY <1>1, <1>2, <1>3, <1>4 DEF Next, AllServed

\* A step keeps the discipline of the mutex.
LEMMA LockStep ==
  ASSUME IInv, [Next]_vars
  PROVE  LockDiscipline'
<1> USE DEF IInv, TypeOK, LabelInv, LockDiscipline, Locked, lockVars, outVars, IsSet, IsGet
<1> TypeOK' BY TypeStep
<1>1. ASSUME NEW r \in Request, NEW call \in Call, Arrive(r, call)
      PROVE  LockDiscipline'
  BY <1>1, CallFields DEF Arrive, Goto
<1>2. ASSUME NEW r \in Request, Step(r)
      PROVE  LockDiscipline'
  <2>1. CASE CheckMember(r)
    BY Arrived, <2>1 DEF CheckMember, Goto
  <2>2. CASE Lock(r)
    <3>1. pc' = [pc EXCEPT ![r] = "kvget"] /\ req' = req
      BY <2>2 DEF Lock, Goto
    <3>2. \A x \in Request : ~(pc[x] \in Locked /\ IsSet(x))
      BY <2>2, NoReqAssumption DEF Lock
    <3>3. \A x \in Request : writer' = x <=> x = r
      BY <2>2 DEF Lock
    <3>4. \A x \in Request : writer' = x <=> pc'[x] \in Locked /\ IsSet(x)'
      BY <2>2, <3>1, <3>2, <3>3 DEF Lock
    <3>5. readers' = {x \in Request : pc'[x] \in Locked /\ IsGet(x)'}
      BY <2>2, <3>1 DEF Lock
    <3>6. readers' = {}
      BY <2>2 DEF Lock
    <3> QED BY <3>4, <3>5, <3>6
  <2>3. CASE RLock(r)
    BY Arrived, <2>3 DEF RLock, Goto, IsSet, IsGet
  <2>4. CASE ReadOld(r)
    BY Arrived, <2>4 DEF ReadOld, Goto, Return, IsSet
  <2>5. CASE Get(r)
    BY Arrived, <2>5 DEF Get, Goto, Return, IsGet
  <2>6. CASE SameMethod(r)
    BY Arrived, <2>6 DEF SameMethod, Goto, Return
  <2>7. CASE StoreNew(r)
    BY Arrived, <2>7 DEF StoreNew, Goto, Return
  <2>8. CASE Unlock(r)
    <3>1. pc[r] \in Locked /\ req' = req
      BY <2>8 DEF Unlock
    <3>2. CASE IsSet(r)
      <4>1. writer = r /\ readers = {}
        BY <3>1, <3>2, NoReqAssumption
      <4>2. ret[r] \in {"changed", "torn", "same", "error"}
        BY <2>8, <3>2 DEF Unlock
      <4>3. AfterSet[ret[r]] \notin Locked
        BY <4>2 DEF AfterSet
      <4>4. /\ writer' = NoReq /\ readers' = readers
            /\ pc' = [pc EXCEPT ![r] = AfterSet[ret[r]]]
        BY <2>8, <3>2 DEF Unlock, Goto
      <4>5. \A x \in Request : ~(pc'[x] \in Locked /\ IsSet(x)')
        BY <3>1, <4>1, <4>3, <4>4
      <4>6. \A x \in Request : ~(pc'[x] \in Locked /\ IsGet(x)')
        BY <3>1, <3>2, <4>1, <4>3, <4>4
      <4> QED BY <4>1, <4>4, <4>5, <4>6, NoReqAssumption
    <3>3. CASE IsGet(r)
      <4>1. /\ writer' = writer /\ readers' = readers \ {r}
            /\ pc' = [pc EXCEPT ![r] = "done"]
        BY <2>8, <3>3 DEF Unlock, Goto
      <4> QED BY <3>1, <3>3, <4>1
    <3> QED BY <2>8, <3>2, <3>3 DEF Unlock
  <2>9. CASE TellAlready(r)
    BY Arrived, <2>9 DEF TellAlready, Goto
  <2>10. CASE Publish(r)
    BY Arrived, <2>10 DEF Publish, Goto
  <2>11. CASE GetRequester(r)
    BY Arrived, <2>11 DEF GetRequester, Goto
  <2>12. CASE GetChannelMembersWithoutKeys(r)
    BY Arrived, <2>12 DEF GetChannelMembersWithoutKeys, Goto
  <2>13. CASE Announce(r)
    BY Arrived, <2>13 DEF Announce, Goto
  <2> QED BY <1>2, <2>1, <2>2, <2>3, <2>4, <2>5, <2>6, <2>7, <2>8, <2>9, <2>10, <2>11, <2>12, <2>13 DEF Step
<1>4. CASE Crash
  <2>1. writer' = NoReq /\ readers' = {}
    BY <1>4, Crashed
  <2>2. ASSUME NEW r \in Request
        PROVE  pc'[r] \notin {"kvget", "compare", "unlock"}
    BY <1>4, Crashed DEF Ended
  <2> QED BY <2>1, <2>2, NoReqAssumption
<1>3. CASE UNCHANGED vars
  BY <1>3 DEF vars
<1> QED BY <1>1, <1>2, <1>3, <1>4 DEF Next, AllServed

\* A step keeps the method read under the mutex current.
LEMMA OldMethodStep ==
  ASSUME IInv, [Next]_vars
  PROVE  OldMethodIsCurrent'
<1> USE DEF IInv, TypeOK, LabelInv, LockDiscipline, OldMethodIsCurrent, Locked, lockVars, outVars, IsSet, IsGet
<1> TypeOK' BY TypeStep
<1>1. ASSUME NEW r \in Request, NEW call \in Call, Arrive(r, call)
      PROVE  OldMethodIsCurrent'
  BY <1>1, CallFields DEF Arrive, Goto
<1>2. ASSUME NEW r \in Request, Step(r)
      PROVE  OldMethodIsCurrent'
  <2>1. CASE CheckMember(r)
    BY Arrived, <2>1 DEF CheckMember, Goto
  <2>2. CASE Lock(r)
    BY Arrived, <2>2 DEF Lock, Goto, IsSet, IsGet
  <2>3. CASE RLock(r)
    BY Arrived, <2>3 DEF RLock, Goto, IsSet, IsGet
  <2>4. CASE ReadOld(r)
    BY Arrived, <2>4 DEF ReadOld, Goto, Return, IsSet, MethodOf
  <2>5. CASE Get(r)
    BY Arrived, <2>5 DEF Get, Goto, Return, IsGet
  <2>6. CASE SameMethod(r)
    BY Arrived, <2>6 DEF SameMethod, Goto, Return
  <2>7. CASE StoreNew(r)
    BY Arrived, <2>7 DEF StoreNew, Goto, Return
  <2>8. CASE Unlock(r)
    BY Arrived, <2>8 DEF Unlock, Goto, AfterSet, IsSet, IsGet
  <2>9. CASE TellAlready(r)
    BY Arrived, <2>9 DEF TellAlready, Goto
  <2>10. CASE Publish(r)
    BY Arrived, <2>10 DEF Publish, Goto
  <2>11. CASE GetRequester(r)
    BY Arrived, <2>11 DEF GetRequester, Goto
  <2>12. CASE GetChannelMembersWithoutKeys(r)
    BY Arrived, <2>12 DEF GetChannelMembersWithoutKeys, Goto
  <2>13. CASE Announce(r)
    BY Arrived, <2>13 DEF Announce, Goto
  <2> QED BY <1>2, <2>1, <2>2, <2>3, <2>4, <2>5, <2>6, <2>7, <2>8, <2>9, <2>10, <2>11, <2>12, <2>13 DEF Step
<1>4. CASE Crash
  BY <1>4, Crashed DEF Ended
<1>3. CASE UNCHANGED vars
  BY <1>3 DEF vars
<1> QED BY <1>1, <1>2, <1>3, <1>4 DEF Next, AllServed

\* A step keeps the stored methods alternating.
LEMMA AlternateStep ==
  ASSUME IInv, [Next]_vars
  PROVE  ChangesAlternate'
<1> USE DEF IInv, TypeOK, ChangesAlternate, lockVars, outVars
<1> TypeOK' BY TypeStep
<1>1. ASSUME NEW r \in Request, NEW call \in Call, Arrive(r, call)
      PROVE  ChangesAlternate'
  BY <1>1 DEF Arrive, Goto
<1>2. ASSUME NEW r \in Request, Step(r)
      PROVE  ChangesAlternate'
  <2>1. CASE CheckMember(r)
    BY <2>1 DEF CheckMember, Goto
  <2>2. CASE Lock(r)
    BY <2>2 DEF Lock, Goto, IsSet, IsGet
  <2>3. CASE RLock(r)
    BY <2>3 DEF RLock, Goto, IsSet, IsGet
  <2>4. CASE ReadOld(r)
    BY <2>4 DEF ReadOld, Goto, Return, IsSet
  <2>5. CASE Get(r)
    BY <2>5 DEF Get, Goto, Return, IsGet
  <2>6. CASE SameMethod(r)
    BY <2>6 DEF SameMethod, Goto, Return
  <2>7. CASE StoreNew(r)
    <3>1. CASE UNCHANGED <<kv, changes>>
      BY <3>1
    <3>2. CASE changes' # changes \/ kv' # kv
      <4> DEFINE c == req[r].chan
                 m == req[r].arg
      <4>1. c \in Chan /\ m \in Method
        BY Arrived, <2>7 DEF StoreNew
      <4>2. /\ kv' = [kv EXCEPT ![c] = m]
            /\ changes' = [changes EXCEPT ![c] = Append(changes[c], m)]
        BY <2>7, <3>2 DEF StoreNew
      <4>3. MethodOf(kv[c]) # m
        BY <2>7 DEF StoreNew, OldMethodIsCurrent
      <4>4. MethodOf(m) = m
        BY <4>1 DEF MethodOf, Missing, Method
      <4>5. changes[c] \in Seq(Method)
        BY <4>1
      <4> HIDE DEF c, m
      <4>6. /\ \A i \in 1..Len(changes'[c]) :
                 changes'[c][i] # IF i = 1 THEN "none" ELSE changes'[c][i - 1]
            /\ MethodOf(kv'[c]) = IF changes'[c] = <<>> THEN "none"
                                     ELSE changes'[c][Len(changes'[c])]
        BY <4>1, <4>2, <4>3, <4>4, <4>5
      <4>7. \A d \in Chan \ {c} : kv'[d] = kv[d] /\ changes'[d] = changes[d]
        BY <4>1, <4>2
      <4>8. ASSUME NEW d \in Chan
            PROVE  /\ \A i \in 1..Len(changes'[d]) :
                        changes'[d][i] # IF i = 1 THEN "none" ELSE changes'[d][i - 1]
                   /\ MethodOf(kv'[d]) = IF changes'[d] = <<>> THEN "none"
                                            ELSE changes'[d][Len(changes'[d])]
        <5>1. CASE d = c
          BY <4>6, <5>1
        <5>2. CASE d # c
          BY <4>7, <5>2
        <5> QED BY <5>1, <5>2
      <4> QED BY <4>8
    <3> QED BY <3>1, <3>2
  <2>8. CASE Unlock(r)
    BY <2>8 DEF Unlock
  <2>9. CASE TellAlready(r)
    BY <2>9 DEF TellAlready, Goto
  <2>10. CASE Publish(r)
    BY <2>10 DEF Publish, Goto
  <2>11. CASE GetRequester(r)
    BY <2>11 DEF GetRequester, Goto
  <2>12. CASE GetChannelMembersWithoutKeys(r)
    BY <2>12 DEF GetChannelMembersWithoutKeys, Goto
  <2>13. CASE Announce(r)
    BY <2>13 DEF Announce, Goto
  <2> QED BY <1>2, <2>1, <2>2, <2>3, <2>4, <2>5, <2>6, <2>7, <2>8, <2>9, <2>10, <2>11, <2>12, <2>13 DEF Step
<1>4. CASE Crash
  BY <1>4 DEF Crash
<1>3. CASE UNCHANGED vars
  BY <1>3 DEF vars
<1> QED BY <1>1, <1>2, <1>3, <1>4 DEF Next, AllServed

\* A step keeps the inductive invariant.
LEMMA InvStep == IInv /\ [Next]_vars => IInv'
BY TypeStep, LabelStep, LockStep, OldMethodStep, AlternateStep DEF IInv

\* In every behaviour of the handlers the inductive invariant holds.
THEOREM Invariance == Spec => []IInv
BY InitInv, InvStep, PTL DEF Spec

\* Every variable keeps its type, for any number of requests and channels.
THEOREM TypeCorrect == Spec => []TypeOK
<1>1. IInv => TypeOK
  BY DEF IInv
<1> QED BY <1>1, Invariance, PTL

\* The mutex is held by the requests between their lock and their unlock, and a
\* writer excludes everybody, on every path of setIfDifferent and get.
THEOREM MutexHeld == Spec => []LockDiscipline
<1>1. IInv => LockDiscipline
  BY DEF IInv
<1> QED BY <1>1, Invariance, PTL

\* The method setIfDifferent compares with is the stored one when it stores.
THEOREM ComparedIsStored == Spec => []OldMethodIsCurrent
<1>1. IInv => OldMethodIsCurrent
  BY DEF IInv
<1> QED BY <1>1, Invariance, PTL

\* No interleaving of the setters stores the same method twice in a row.
THEOREM Alternation == Spec => []ChangesAlternate
<1>1. IInv => ChangesAlternate
  BY DEF IInv
<1> QED BY <1>1, Invariance, PTL

------------------------------------------------------------------------------

\* Beyond the mutex, a request that has not returned is about a change; only
\* finitely many requests have arrived.
ToldLabels ==
  \A r \in Request : pc[r] \in {"publish", "user", "members", "post"} =>
    IsSet(r) /\ ret[r] = "changed"
FiniteArrived == IsFiniteSet({r \in Request : pc[r] # "idle"})

\* The inductive invariant about the changes that are told, beside IInv.
ToldInv == ToldLabels /\ FiniteArrived /\ EveryChangeToldOnce

\* Where a change is between KVSet and its event, if this comes, and between its event and its post.
Unsent == {"unlock", "publish", "cut"}
Unposted == {"user", "members", "post"}

\* What appending a method to a sequence does to a count.
LEMMA CountAppend ==
  ASSUME NEW s \in Seq(Method), NEW x \in Method, NEW m
  PROVE  /\ Count(s, m) \in Nat
         /\ Count(Append(s, x), m) = Count(s, m) + (IF x = m THEN 1 ELSE 0)
<1> DEFINE at(t) == {i \in DOMAIN t : t[i] = m}
           t == Append(s, x)
<1>1. /\ Len(s) \in Nat /\ DOMAIN s = 1..Len(s) /\ DOMAIN t = 1..(Len(s) + 1)
      /\ \A i \in 1..Len(s) : t[i] = s[i]
      /\ t[Len(s) + 1] = x
  OBVIOUS
<1> HIDE DEF t
<1>2. IsFiniteSet(at(s)) /\ Cardinality(at(s)) \in Nat
  <2>1. IsFiniteSet(1..Len(s))
    BY <1>1, FS_Interval
  <2>2. at(s) \in SUBSET (1..Len(s))
    BY <1>1
  <2>3. IsFiniteSet(at(s))
    BY <2>1, <2>2, FS_Subset
  <2> QED BY <2>3, FS_CardinalityType
<1>3. at(t) = IF x = m THEN at(s) \cup {Len(s) + 1} ELSE at(s)
  BY <1>1
<1>4. Len(s) + 1 \notin at(s)
  BY <1>1
<1> HIDE DEF at
<1>5. Cardinality(at(t)) = Cardinality(at(s)) + (IF x = m THEN 1 ELSE 0)
  <2>1. CASE x = m
    BY <1>2, <1>3, <1>4, <2>1, FS_AddElement
  <2>2. CASE x # m
    BY <1>2, <1>3, <2>2
  <2> QED BY <2>1, <2>2
<1> QED BY <1>2, <1>5 DEF Count, at, t

\* A set's cardinality without one element, and with it.
LEMMA CardSplit ==
  ASSUME NEW S, IsFiniteSet(S), NEW x
  PROVE  /\ Cardinality(S \ {x}) \in Nat
         /\ Cardinality(S) = Cardinality(S \ {x}) + (IF x \in S THEN 1 ELSE 0)
<1>1. IsFiniteSet(S \ {x}) /\ x \notin S \ {x}
  BY FS_RemoveElement
<1>2. Cardinality(S \ {x}) \in Nat
  BY <1>1, FS_CardinalityType
<1>3. CASE x \in S
  <2>1. S = (S \ {x}) \cup {x}
    BY <1>3
  <2>2. Cardinality((S \ {x}) \cup {x}) = Cardinality(S \ {x}) + 1
    BY <1>1, FS_AddElement
  <2> QED BY <1>2, <1>3, <2>1, <2>2
<1>4. CASE x \notin S
  <2>1. S = S \ {x}
    BY <1>4
  <2>2. Cardinality(S) = Cardinality(S \ {x})
    BY <2>1, Zenon
  <2> QED BY <1>2, <1>4, <2>2
<1> QED BY <1>3, <1>4

\* The requests at labels other than "idle" are finitely many.
LEMMA ChangedFinite ==
  ASSUME FiniteArrived, NEW c, NEW m, NEW labels, "idle" \notin labels
  PROVE  IsFiniteSet(ChangedAt(c, m, labels))
<1>1. ChangedAt(c, m, labels) \in SUBSET {r \in Request : pc[r] # "idle"}
  BY DEF ChangedAt
<1> QED BY <1>1, FS_Subset DEF FiniteArrived

\* A step changes nothing of the requests beside r.
Beside(r) == \A x \in Request \ {r} : pc'[x] = pc[x] /\ req'[x] = req[x] /\ ret'[x] = ret[x]

\* Such a step changes the number of the requests at some labels by r alone.
LEMMA ChangedStep ==
  ASSUME FiniteArrived, FiniteArrived', NEW r \in Request, Beside(r),
         NEW c, NEW m, NEW labels, "idle" \notin labels
  PROVE  \E n \in Nat :
           /\ Cardinality(ChangedAt(c, m, labels))
                = n + (IF r \in ChangedAt(c, m, labels) THEN 1 ELSE 0)
           /\ Cardinality(ChangedAt(c, m, labels)')
                = n + (IF r \in ChangedAt(c, m, labels)' THEN 1 ELSE 0)
<1> DEFINE before == ChangedAt(c, m, labels)
           after == ChangedAt(c, m, labels)'
<1>1. IsFiniteSet(before)
  BY ChangedFinite
<1>2. IsFiniteSet(after)
  <2>1. after \in SUBSET {x \in Request : pc'[x] # "idle"}
    BY DEF ChangedAt
  <2> QED BY <2>1, FS_Subset DEF FiniteArrived
<1>3. before \ {r} = after \ {r}
  BY DEF ChangedAt, Beside, IsSet
<1> HIDE DEF before, after
<1>4. /\ Cardinality(before \ {r}) \in Nat
      /\ Cardinality(before) = Cardinality(before \ {r}) + (IF r \in before THEN 1 ELSE 0)
  BY <1>1, CardSplit
<1>5. Cardinality(after) = Cardinality(after \ {r}) + (IF r \in after THEN 1 ELSE 0)
  BY <1>2, CardSplit
<1> QED BY <1>3, <1>4, <1>5 DEF before, after

\* A step of one request leaves the others alone, and only finitely many arrived.
LEMMA ArrivedStep ==
  ASSUME IInv, FiniteArrived, NEW r \in Request,
         Step(r) \/ \E call \in Call : Arrive(r, call)
  PROVE  Beside(r) /\ FiniteArrived'
<1> DEFINE arrived == {x \in Request : pc[x] # "idle"}
<1>1. Beside(r)
  BY DEF IInv, TypeOK, Beside, Step, Arrive, CheckMember, Lock, RLock, ReadOld, Get, SameMethod,
         StoreNew, Unlock, TellAlready, Publish, GetRequester, GetChannelMembersWithoutKeys,
         Announce, Goto, Return
<1>2. IsFiniteSet(arrived \cup {r})
  BY FS_AddElement DEF FiniteArrived
<1>3. arrived' \in SUBSET (arrived \cup {r})
  BY <1>1 DEF Beside
<1>4. IsFiniteSet(arrived')
  BY <1>2, <1>3, FS_Subset
<1> QED BY <1>1, <1>4 DEF FiniteArrived

\* The numbers of the invariant before and after a step of r, but for r itself.
LEMMA Numbers ==
  ASSUME TypeOK, ToldInv, FiniteArrived', NEW r \in Request, Beside(r),
         NEW c \in Chan, NEW m \in Method
  PROVE  \E n \in Nat, k \in Nat :
           /\ Count(changes[c], m)
                = Count(events[c], m) + n + (IF r \in ChangedAt(c, m, Unsent) THEN 1 ELSE 0)
           /\ Count(posts[c], m) + k + (IF r \in ChangedAt(c, m, Unposted) THEN 1 ELSE 0)
                <= Count(events[c], m)
           /\ Cardinality(ChangedAt(c, m, Unsent)')
                = n + (IF r \in ChangedAt(c, m, Unsent)' THEN 1 ELSE 0)
           /\ Cardinality(ChangedAt(c, m, Unposted)')
                = k + (IF r \in ChangedAt(c, m, Unposted)' THEN 1 ELSE 0)
           /\ Count(changes[c], m) \in Nat /\ Count(events[c], m) \in Nat
           /\ Count(posts[c], m) \in Nat
<1>1. /\ Count(changes[c], m) = Count(events[c], m) + Cardinality(ChangedAt(c, m, Unsent))
      /\ Count(posts[c], m) + Cardinality(ChangedAt(c, m, Unposted)) <= Count(events[c], m)
  BY DEF ToldInv, EveryChangeToldOnce, Unsent, Unposted
<1>2. Count(changes[c], m) \in Nat /\ Count(posts[c], m) \in Nat /\ Count(events[c], m) \in Nat
  BY CountAppend DEF TypeOK, Method
<1>3. "idle" \notin Unsent /\ "idle" \notin Unposted
  BY DEF Unsent, Unposted
<1>4. PICK n \in Nat :
        /\ Cardinality(ChangedAt(c, m, Unsent)) = n + (IF r \in ChangedAt(c, m, Unsent) THEN 1 ELSE 0)
        /\ Cardinality(ChangedAt(c, m, Unsent)') = n + (IF r \in ChangedAt(c, m, Unsent)' THEN 1 ELSE 0)
  BY <1>3, ChangedStep DEF ToldInv
<1>5. PICK k \in Nat :
        /\ Cardinality(ChangedAt(c, m, Unposted)) = k + (IF r \in ChangedAt(c, m, Unposted) THEN 1 ELSE 0)
        /\ Cardinality(ChangedAt(c, m, Unposted)') = k + (IF r \in ChangedAt(c, m, Unposted)' THEN 1 ELSE 0)
  BY <1>3, ChangedStep DEF ToldInv
<1> QED BY <1>1, <1>2, <1>4, <1>5

\* A step of one request keeps what its labels say of it.
LEMMA ToldLabelsStep ==
  ASSUME IInv, ToldLabels, NEW r \in Request, Step(r) \/ \E call \in Call : Arrive(r, call), Beside(r)
  PROVE  ToldLabels'
<1> USE DEF IInv, TypeOK, ToldLabels, IsSet
<1> SUFFICES ASSUME pc'[r] \in {"publish", "user", "members", "post"}
             PROVE  IsSet(r)' /\ ret'[r] = "changed"
  BY DEF Beside
<1>1. CASE Unlock(r)
  <2>1. /\ IsSet(r) /\ pc'[r] = AfterSet[ret[r]] /\ req' = req /\ ret' = ret
    BY <1>1 DEF Unlock, Goto, IsGet
  <2>2. ret[r] \in {"changed", "torn", "same", "error"}
    BY <1>1, <2>1 DEF Unlock, LabelInv
  <2> QED BY <2>1, <2>2 DEF AfterSet
<1>2. CASE Publish(r)
  BY <1>2 DEF Publish, Goto
<1>3. CASE GetRequester(r)
  BY <1>3 DEF GetRequester, Goto
<1>4. CASE GetChannelMembersWithoutKeys(r)
  BY <1>4 DEF GetChannelMembersWithoutKeys, Goto
<1>5. CASE \E call \in Call : Arrive(r, call)
  BY <1>5 DEF Arrive, Goto
<1>6. CASE CheckMember(r) \/ Lock(r) \/ RLock(r) \/ TellAlready(r) \/ Announce(r)
  BY <1>6 DEF CheckMember, Lock, RLock, TellAlready, Announce, Goto
<1>7. CASE ReadOld(r) \/ Get(r)
  BY <1>7 DEF ReadOld, Get, Goto
<1>8. CASE SameMethod(r) \/ StoreNew(r)
  BY <1>8 DEF SameMethod, StoreNew, Goto
<1> QED BY <1>1, <1>2, <1>3, <1>4, <1>5, <1>6, <1>7, <1>8 DEF Step

\* A step keeps every change told once.
LEMMA ToldStep ==
  ASSUME IInv, ToldInv, [Next]_vars
  PROVE  ToldInv'
<1>1. CASE UNCHANGED vars
  <2>1. UNCHANGED <<pc, req, ret, changes, events, posts>>
    BY <1>1 DEF vars
  <2>2. ToldLabels' /\ FiniteArrived'
    BY <2>1 DEF ToldInv, ToldLabels, FiniteArrived, IsSet
  <2>3. EveryChangeToldOnce'
    BY <2>1 DEF ToldInv, EveryChangeToldOnce, ChangedAt, IsSet
  <2> QED BY <2>2, <2>3 DEF ToldInv
<1> USE DEF IInv, TypeOK
<1>2. ASSUME NEW r \in Request, Step(r) \/ \E call \in Call : Arrive(r, call)
      PROVE  ToldInv'
  <2>1. Beside(r) /\ FiniteArrived'
    BY <1>2, ArrivedStep DEF ToldInv
  <2>2. ToldLabels'
    BY <1>2, <2>1, ToldLabelsStep DEF ToldInv
  <2>3. ASSUME NEW c \in Chan, NEW m \in Method
        PROVE  /\ Count(changes'[c], m) = Count(events'[c], m) + Cardinality(ChangedAt(c, m, Unsent)')
               /\ Count(posts'[c], m) + Cardinality(ChangedAt(c, m, Unposted)')
                    <= Count(events'[c], m)
    <3> DEFINE This == c = req[r].chan /\ m = req[r].arg
               Was(labels) == r \in ChangedAt(c, m, labels)
               Is(labels) == r \in ChangedAt(c, m, labels)'
               Quiet == /\ UNCHANGED <<changes, events, posts>>
                        /\ Was(Unsent) <=> Is(Unsent)
                        /\ Is(Unposted) => Was(Unposted)
    <3>1. PICK n \in Nat, k \in Nat :
            /\ Count(changes[c], m) = Count(events[c], m) + n + (IF Was(Unsent) THEN 1 ELSE 0)
            /\ Count(posts[c], m) + k + (IF Was(Unposted) THEN 1 ELSE 0) <= Count(events[c], m)
            /\ Cardinality(ChangedAt(c, m, Unsent)') = n + (IF Is(Unsent) THEN 1 ELSE 0)
            /\ Cardinality(ChangedAt(c, m, Unposted)') = k + (IF Is(Unposted) THEN 1 ELSE 0)
            /\ Count(changes[c], m) \in Nat /\ Count(events[c], m) \in Nat
            /\ Count(posts[c], m) \in Nat
      BY <2>1, Numbers
    <3>2. pc[r] # "idle" => req[r].chan \in Chan /\ req[r].arg \in Method
      BY Arrived
    <3> USE DEF IsSet, IsGet, Goto, Return
    <3>3. ASSUME CheckMember(r) \/ Lock(r) \/ RLock(r) \/ TellAlready(r)
                   \/ \E call \in Call : Arrive(r, call)
          PROVE  Quiet
      BY <3>3 DEF CheckMember, Lock, RLock, TellAlready, Arrive, outVars, LabelInv, ChangedAt, Unsent, Unposted
    <3>4. ASSUME ReadOld(r) \/ Get(r) \/ SameMethod(r)
          PROVE  Quiet
      BY <3>4 DEF ReadOld, Get, SameMethod, outVars, ChangedAt, Unsent, Unposted
    <3>5. ASSUME Unlock(r)
          PROVE  Quiet
      <4>1. /\ UNCHANGED <<changes, events, posts, req, ret>> /\ pc[r] = "unlock"
            /\ \/ IsSet(r) /\ pc'[r] = AfterSet[ret[r]]
               \/ IsGet(r) /\ pc'[r] = "done"
        BY <3>5 DEF Unlock, outVars
      <4>2. IsSet(r) => ret[r] \in {"changed", "torn", "same", "error"}
        BY <4>1 DEF LabelInv
      <4>3. IsSet(r) => /\ ret[r] = "changed" => pc'[r] = "publish"
                        /\ ret[r] = "torn" => pc'[r] = "cut"
                        /\ pc'[r] \in {"publish", "already", "done", "cut"}
                        /\ pc'[r] = "cut" => ret[r] = "torn"
        BY <4>1, <4>2 DEF AfterSet
      <4> QED BY <4>1, <4>3 DEF ChangedAt, Unsent, Unposted
    <3>6. ASSUME GetRequester(r) \/ GetChannelMembersWithoutKeys(r)
          PROVE  Quiet
      BY <3>6 DEF GetRequester, GetChannelMembersWithoutKeys, outVars, ChangedAt, Unsent, Unposted
    <3>7. ASSUME StoreNew(r), ~Quiet
          PROVE  /\ changes' = [changes EXCEPT ![req[r].chan] = Append(@, req[r].arg)]
                 /\ UNCHANGED <<events, posts>> /\ pc[r] # "idle"
                 /\ ~Was(Unsent) /\ (Is(Unsent) <=> This) /\ ~Was(Unposted) /\ ~Is(Unposted)
      BY <3>7 DEF StoreNew, outVars, LabelInv, ChangedAt, Unsent, Unposted
    <3>8. ASSUME Publish(r)
          PROVE  /\ events' = [events EXCEPT ![req[r].chan] = Append(@, req[r].arg)]
                 /\ UNCHANGED <<changes, posts>> /\ pc[r] # "idle"
                 /\ (Was(Unsent) <=> This) /\ ~Is(Unsent) /\ ~Was(Unposted) /\ (Is(Unposted) <=> This)
      BY <3>8 DEF Publish, ToldInv, ToldLabels, ChangedAt, Unsent, Unposted
    <3>9. ASSUME Announce(r), ~Quiet
          PROVE  /\ posts' = [posts EXCEPT ![req[r].chan] = Append(@, req[r].arg)]
                 /\ UNCHANGED <<changes, events>> /\ pc[r] # "idle"
                 /\ ~Was(Unsent) /\ ~Is(Unsent) /\ (Was(Unposted) <=> This) /\ ~Is(Unposted)
      BY <3>9 DEF Announce, ToldInv, ToldLabels, ChangedAt, Unsent, Unposted
    <3>10. CASE Quiet
      BY <3>1, <3>10
    <3> HIDE DEF Quiet
    <3>11. CASE StoreNew(r) /\ ~Quiet
      <4>1. Count(changes'[c], m) = Count(changes[c], m) + (IF This THEN 1 ELSE 0)
        <5>1. changes[c] \in Seq(Method) /\ req[r].arg \in Method
          BY <3>2, <3>7, <3>11
        <5>2. CASE c = req[r].chan
          <6>1. changes'[c] = Append(changes[c], req[r].arg)
            BY <3>2, <3>7, <3>11, <5>2
          <6> QED BY <5>1, <5>2, <6>1, CountAppend
        <5>3. CASE c # req[r].chan
          <6>1. changes'[c] = changes[c]
            BY <3>2, <3>7, <3>11, <5>3
          <6> QED BY <3>1, <5>3, <6>1
        <5> QED BY <5>2, <5>3
      <4> QED BY <3>1, <3>7, <3>11, <4>1
    <3>12. CASE Publish(r)
      <4>1. Count(events'[c], m) = Count(events[c], m) + (IF This THEN 1 ELSE 0)
        <5>1. events[c] \in Seq(Method) /\ req[r].arg \in Method
          BY <3>2, <3>8, <3>12
        <5>2. CASE c = req[r].chan
          <6>1. events'[c] = Append(events[c], req[r].arg)
            BY <3>2, <3>8, <3>12, <5>2
          <6> QED BY <5>1, <5>2, <6>1, CountAppend
        <5>3. CASE c # req[r].chan
          <6>1. events'[c] = events[c]
            BY <3>2, <3>8, <3>12, <5>3
          <6> QED BY <3>1, <5>3, <6>1
        <5> QED BY <5>2, <5>3
      <4>2. /\ (Was(Unsent) <=> This) /\ ~Is(Unsent) /\ ~Was(Unposted) /\ (Is(Unposted) <=> This)
            /\ changes' = changes /\ posts' = posts
        BY <3>8, <3>12
      <4> QED BY <3>1, <4>1, <4>2
    <3>13. CASE Announce(r) /\ ~Quiet
      <4>1. Count(posts'[c], m) = Count(posts[c], m) + (IF This THEN 1 ELSE 0)
        <5>1. posts[c] \in Seq(Method) /\ req[r].arg \in Method
          BY <3>2, <3>9, <3>13
        <5>2. CASE c = req[r].chan
          <6>1. posts'[c] = Append(posts[c], req[r].arg)
            BY <3>2, <3>9, <3>13, <5>2
          <6> QED BY <5>1, <5>2, <6>1, CountAppend
        <5>3. CASE c # req[r].chan
          <6>1. posts'[c] = posts[c]
            BY <3>2, <3>9, <3>13, <5>3
          <6> QED BY <3>1, <5>3, <6>1
        <5> QED BY <5>2, <5>3
      <4> QED BY <3>1, <3>9, <3>13, <4>1
    <3> QED BY <1>2, <3>3, <3>4, <3>5, <3>6, <3>10, <3>11, <3>12, <3>13 DEF Step
  <2>4. EveryChangeToldOnce'
    BY <2>3 DEF EveryChangeToldOnce, Unsent, Unposted
  <2> QED BY <2>1, <2>2, <2>4 DEF ToldInv
<1>3. ASSUME Crash
      PROVE  ToldInv'
  <2>1. /\ UNCHANGED <<changes, events, posts, req, ret>>
        /\ \A r \in Request : /\ pc'[r] \in Ended \cup {"idle"}
                              /\ pc'[r] # "idle" => pc[r] # "idle"
                              /\ ret[r] \in {"changed", "torn"} =>
                                   (pc'[r] = "cut" <=> pc[r] \in {"unlock", "publish", "cut"})
    BY <1>3, Crashed
  <2>2. ToldLabels'
    BY <2>1 DEF ToldLabels, Ended
  <2>3. FiniteArrived'
    <3>1. {r \in Request : pc'[r] # "idle"} \in SUBSET {r \in Request : pc[r] # "idle"}
      BY <2>1
    <3> QED BY <3>1, FS_Subset DEF ToldInv, FiniteArrived
  <2>4. ASSUME NEW c \in Chan, NEW m \in Method
        PROVE  /\ Count(changes'[c], m) = Count(events'[c], m) + Cardinality(ChangedAt(c, m, Unsent)')
               /\ Count(posts'[c], m) + Cardinality(ChangedAt(c, m, Unposted)')
                    <= Count(events'[c], m)
    <3>1. /\ Count(changes[c], m) = Count(events[c], m) + Cardinality(ChangedAt(c, m, Unsent))
          /\ Count(posts[c], m) + Cardinality(ChangedAt(c, m, Unposted)) <= Count(events[c], m)
      BY DEF ToldInv, EveryChangeToldOnce, Unsent, Unposted
    <3>2. ChangedAt(c, m, Unsent)' = ChangedAt(c, m, Unsent)
      BY <2>1 DEF ChangedAt, IsSet, Unsent, Ended
    <3>3. ChangedAt(c, m, Unposted)' = {}
      BY <2>1 DEF ChangedAt, Unposted, Ended
    <3>4. Cardinality(ChangedAt(c, m, Unposted)) \in Nat /\ Cardinality(ChangedAt(c, m, Unposted)') = 0
      <4>1. IsFiniteSet(ChangedAt(c, m, Unposted))
        BY ChangedFinite DEF ToldInv, Unposted
      <4> QED BY <3>3, <4>1, FS_CardinalityType, FS_EmptySet
    <3>5. Count(posts[c], m) \in Nat /\ Count(events[c], m) \in Nat
      BY CountAppend DEF Method
    <3> HIDE DEF IInv, TypeOK
    <3>6. Cardinality(ChangedAt(c, m, Unsent)') = Cardinality(ChangedAt(c, m, Unsent))
      BY <3>2
    <3>7. /\ Count(changes'[c], m) = Count(changes[c], m) /\ Count(posts'[c], m) = Count(posts[c], m)
          /\ Count(events'[c], m) = Count(events[c], m)
      BY <2>1
    <3> QED BY <3>1, <3>4, <3>5, <3>6, <3>7
  <2>5. EveryChangeToldOnce'
    BY <2>4 DEF EveryChangeToldOnce, Unsent, Unposted
  <2> QED BY <2>2, <2>3, <2>5 DEF ToldInv
<1> QED BY <1>1, <1>2, <1>3 DEF Next, AllServed

\* No change is told before the first request.
LEMMA ToldInit == Init => ToldInv
<1> SUFFICES ASSUME Init PROVE ToldInv
  OBVIOUS
<1> USE DEF Init
<1>1. ToldLabels
  BY DEF ToldLabels
<1>2. FiniteArrived
  <2>1. {r \in Request : pc[r] # "idle"} = {}
    OBVIOUS
  <2> QED BY <2>1, FS_EmptySet DEF FiniteArrived
<1>3. ASSUME NEW c \in Chan, NEW m \in Method, NEW labels, "idle" \notin labels
      PROVE  /\ Count(<<>>, m) = 0
             /\ Cardinality(ChangedAt(c, m, labels)) = 0
  <2>1. {i \in DOMAIN <<>> : <<>>[i] = m} = {}
    OBVIOUS
  <2>2. ChangedAt(c, m, labels) = {}
    BY <1>3 DEF ChangedAt
  <2> QED BY <2>1, <2>2, FS_EmptySet DEF Count
<1>4. EveryChangeToldOnce
  BY <1>3 DEF EveryChangeToldOnce
<1> QED BY <1>1, <1>2, <1>4 DEF ToldInv

\* Whatever fails, wherever the process stops and however the requests interleave, each
\* stored change is sent to the members of its channel once, or one request is about to
\* send it or was cut off then, and the bot announces no change that was not sent.
THEOREM ToldOnce == Spec => []EveryChangeToldOnce
<1>1. ToldInv => EveryChangeToldOnce
  BY DEF ToldInv
<1> QED BY <1>1, Invariance, ToldInit, ToldStep, PTL DEF Spec

------------------------------------------------------------------------------

\* A step of the handlers is a step of the atomic register, or leaves it alone.
LEMMA RefinementStep ==
  ASSUME IInv, [Next]_vars
  PROVE  [Abs!ANext]_(Abs!absVars)
<1> DEFINE Mode == [c \in Chan |-> MethodOf(kv[c])]
           Res == [q \in Request |-> IF ret[q] = "torn" THEN "error" ELSE ret[q]]
<1> USE DEF IInv, TypeOK, lockVars, outVars, IsSet, IsGet
<1>1. ASSUME NEW r \in Request, NEW call \in Call, Arrive(r, call)
      PROVE  Abs!Invoke(r, call)
  BY <1>1 DEF Arrive, Abs!Invoke, LabelInv, Abs!NoCall, NoCall
<1>2. ASSUME NEW r \in Request, ReadOld(r)
      PROVE  Abs!Fail(r) \/ UNCHANGED <<kv, req, ret>>
  BY <1>2, Arrived DEF ReadOld, Return, Abs!Fail, Abs!Undecided, Abs!Decide, LabelInv
<1>3. ASSUME NEW r \in Request, Get(r)
      PROVE  Abs!Read(r)
  <2>1. req[r].chan \in Chan /\ UNCHANGED <<kv, req>>
    BY <1>3, Arrived DEF Get
  <2>2. PICK m \in {MethodOf(kv[req[r].chan]), "none"} : Return(r, m)
    BY <1>3 DEF Get
  <2>3. m \in {Mode[req[r].chan], "none"} /\ m # "torn"
    BY <2>1, <2>2 DEF MethodOf, Missing, Stored, Method
  <2>4. Abs!Undecided(r, "get")
    BY <1>3 DEF Get, Abs!Undecided, LabelInv
  <2>5. Res' = [Res EXCEPT ![r] = m]
    BY <2>2, <2>3 DEF Return
  <2>6. Mode' = Mode
    BY <2>1
  <2> QED BY <2>1, <2>3, <2>4, <2>5, <2>6 DEF Abs!Read, Abs!Decide
<1>4. ASSUME NEW r \in Request, SameMethod(r)
      PROVE  Abs!Keep(r)
  BY <1>4, Arrived
     DEF SameMethod, Return, Abs!Keep, Abs!Undecided, Abs!Decide, LabelInv, OldMethodIsCurrent
<1>5. ASSUME NEW r \in Request, StoreNew(r)
      PROVE  Abs!Change(r) \/ Abs!Fail(r)
  <2> DEFINE c == req[r].chan
             m == req[r].arg
  <2>1. req[r] \in Call /\ c \in Chan /\ m \in Method
    BY <1>5, Arrived DEF StoreNew
  <2>2. Abs!Undecided(r, "set")
    BY <1>5 DEF StoreNew, Abs!Undecided, LabelInv
  <2>3. CASE Return(r, "error") /\ UNCHANGED kv
    BY <1>5, <2>2, <2>3 DEF StoreNew, Return, Abs!Fail, Abs!Decide
  <2>4. CASE (Return(r, "changed") \/ Return(r, "torn")) /\ kv' = [kv EXCEPT ![c] = m]
    <3>1. MethodOf(kv[c]) # m
      BY <1>5 DEF StoreNew, OldMethodIsCurrent
    <3>2. MethodOf(m) = m
      BY <2>1 DEF MethodOf, Missing, Method
    <3>3. Mode' = [Mode EXCEPT ![c] = m]
      BY <2>1, <2>4, <3>2
    <3>4. Mode[c] # m
      BY <2>1, <3>1
    <3>5. CASE Return(r, "changed")
      <4>1. Abs!Decide(r, "changed")
        BY <1>5, <3>5 DEF StoreNew, Return, Abs!Decide
      <4> QED BY <2>2, <3>3, <3>4, <4>1 DEF Abs!Change
    <3>6. CASE Return(r, "torn")
      <4>1. Abs!Decide(r, "error")
        BY <1>5, <3>6 DEF StoreNew, Return, Abs!Decide
      <4> QED BY <2>2, <3>3, <4>1 DEF Abs!Fail
    <3> QED BY <2>4, <3>5, <3>6
  <2>5. \/ Return(r, "error") /\ UNCHANGED kv
        \/ (Return(r, "changed") \/ Return(r, "torn")) /\ kv' = [kv EXCEPT ![c] = m]
    BY <1>5 DEF StoreNew
  <2> QED BY <2>3, <2>4, <2>5
<1>6. ASSUME NEW r \in Request, Step(r),
             ~ReadOld(r), ~Get(r), ~SameMethod(r), ~StoreNew(r)
      PROVE  UNCHANGED <<kv, req, ret>>
  BY <1>6 DEF Step, CheckMember, Lock, RLock, Unlock, TellAlready, Publish,
              GetRequester, GetChannelMembersWithoutKeys, Announce
<1>7. ASSUME UNCHANGED <<kv, req, ret>>
      PROVE  UNCHANGED Abs!absVars
  BY <1>7 DEF Abs!absVars
<1>8. UNCHANGED vars \/ Crash => UNCHANGED <<kv, req, ret>>
  BY DEF vars, Crash
<1>9. Call = Abs!Call
  BY DEF Call, Abs!Call, Method, Abs!Method
<1> QED BY <1>1, <1>2, <1>3, <1>4, <1>5, <1>6, <1>7, <1>8, <1>9
        DEF Next, AllServed, Abs!ANext

\* setIfDifferent and get, whatever the interleaving of the requests and
\* whichever storage calls fail, behave as an atomic compare-and-set register.
THEOREM Implementation == Spec => ImplementsAtomicRegister
<1>1. Init => Abs!AInit
  BY DEF Init, Abs!AInit, MethodOf, Abs!NoCall, NoCall
<1> QED BY <1>1, RefinementStep, Invariance, PTL
        DEF Spec, ImplementsAtomicRegister, Abs!ASpec
==============================================================================
