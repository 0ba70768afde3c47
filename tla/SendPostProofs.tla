---------------------------- MODULE SendPostProofs ----------------------------
(***************************************************************************)
(* What SendPost guarantees for every set of messages and tabs: its types, *)
(* and that no message goes out in clear behind the user's back.           *)
(***************************************************************************)
EXTENDS SendPost, TLAPS

\* A call that began alone has run alone so far: alone holds the last call that
\* began, and is emptied when another one begins before it ends.
SoleInv ==
  \A x \in alone :
    /\ \A p \in Active : p = x /\ \A t \in Tab : set[t] = NoSet
    /\ \A t \in Tab : set[t] # NoSet => t = x

\* Until it is decided what becomes of a message that runs alone, localStorage holds
\* what it read; and a message that is being encrypted was remembered as such.
ReadInv ==
  \A p \in alone \cap Post :
    pc[p] \in {"asked", "answered", "known"} => lastRead[p] = last
EncryptInv ==
  \A p \in Post : pc[p] = "encrypt" => got[p] = "p2p" /\ (p \in alone => last = "p2p")

\* localStorage still says "p2p" after an encrypted message or choice that nothing
\* overlapped, until something else is logged.
LastInv ==
  log # <<>> /\ log[Len(log)].alone /\ log[Len(log)].method = "p2p" => last = "p2p"

\* The inductive invariant.
IInv == TypeOK /\ SoleInv /\ ReadInv /\ EncryptInv /\ LastInv /\ NoSilentClear

\* The records of a tab's call.
LEMMA SetFields ==
  ASSUME NEW s \in SetState
  PROVE  s.stage \in {"asked", "stored"} => s # NoSet /\ s.method \in Method
BY DEF SetState, NoSet

\* The initial states satisfy the inductive invariant.
LEMMA InitInv == Init => IInv
<1> SUFFICES ASSUME Init PROVE IInv
  OBVIOUS
<1> USE DEF Init
<1>1. TypeOK
  BY BoundsAssumption DEF TypeOK, Method, Label, SetState
<1>2. SoleInv /\ ReadInv /\ EncryptInv /\ LastInv /\ NoSilentClear
  BY DEF SoleInv, ReadInv, EncryptInv, LastInv, NoSilentClear
<1> QED BY <1>1, <1>2 DEF IInv

\* A step keeps the types.
LEMMA TypeStep ==
  ASSUME TypeOK, EncryptInv, [Next]_vars
  PROVE  TypeOK'
<1> USE DEF TypeOK, sendVars, histVars
<1>1. CASE Flip
  BY <1>1, BoundsAssumption DEF Flip
<1>2. ASSUME NEW t \in Tab, Notice(t)
      PROVE  TypeOK'
  BY <1>2 DEF Notice
<1>3. ASSUME NEW t \in Tab, NEW m \in Method, StartSet(t, m)
      PROVE  TypeOK'
  <2>1. [stage |-> "asked", method |-> m] \in SetState
    BY DEF SetState
  <2>2. set' \in [Tab -> SetState] /\ sets' \in 0..MaxSets /\ alone' \subseteq Post \cup Tab
    BY <1>3, <2>1, BoundsAssumption DEF StartSet, Begin
  <2> QED BY <1>3, <2>2 DEF StartSet
<1>4. ASSUME NEW t \in Tab, AnswerSet(t)
      PROVE  TypeOK'
  <2>1. set[t].method \in Method
    BY <1>4, SetFields DEF AnswerSet
  <2>2. [set[t] EXCEPT !.stage = "stored"] \in SetState
    <3>1. set[t] \in [stage : {"asked", "stored"}, method : Method]
      BY <1>4 DEF AnswerSet, SetState, NoSet
    <3> QED BY <3>1 DEF SetState
  <2>3. NoSet \in SetState
    BY DEF SetState
  <2>4. set' \in [Tab -> SetState] /\ method' \in Method
    BY <1>4, <2>1, <2>2, <2>3 DEF AnswerSet
  <2> QED BY <1>4, <2>4 DEF AnswerSet
<1>5. ASSUME NEW t \in Tab, FinishSet(t)
      PROVE  TypeOK'
  <2>1. set[t].method \in Method
    BY <1>5, SetFields DEF FinishSet
  <2>2. [what |-> "set", method |-> set[t].method,
         prompted |-> FALSE, alone |-> t \in alone] \in Entry
    BY <2>1 DEF Entry
  <2>3. NoSet \in SetState
    BY DEF SetState
  <2>4. log' \in Seq(Entry)
    BY <1>5, <2>2 DEF FinishSet
  <2>5. set' \in [Tab -> SetState] /\ last' \in Method
    BY <1>5, <2>1, <2>3 DEF FinishSet
  <2> QED BY <1>5, <2>4, <2>5 DEF FinishSet
<1>6. ASSUME NEW p \in Post, Start(p) \/ EmptyEdit(p)
      PROVE  TypeOK'
  BY <1>6 DEF Start, EmptyEdit, Begin, Goto, Label
<1>7. ASSUME NEW p \in Post, Answer(p) \/ Received(p) \/ Discard(p) \/ Deliver(p)
      PROVE  TypeOK'
  BY <1>7 DEF Answer, Received, Discard, Deliver, Goto, Label
<1>8. ASSUME NEW p \in Post, Proceed(p) \/ Encrypt(p)
      PROVE  TypeOK'
  <2>1. prompted' \subseteq Post /\ last' \in Method /\ pc' \in [Post -> Label]
    BY <1>8 DEF Proceed, Encrypt, Goto, Label
  <2>2. [what |-> "post", method |-> got[p],
         prompted |-> p \in prompted', alone |-> p \in alone] \in Entry
    BY DEF Entry
  <2>3. Handed(p) \in Seq(Entry)
    BY <2>2 DEF Handed
  <2>4. log' \in Seq(Entry)
    BY <1>8, <2>3 DEF Proceed, Encrypt
  <2> QED BY <1>8, <2>1, <2>4 DEF Proceed, Encrypt
<1>9. CASE UNCHANGED vars
  BY <1>9 DEF vars
<1> QED BY <1>1, <1>2, <1>3, <1>4, <1>5, <1>6, <1>7, <1>8, <1>9
        DEF Next, SendStep, AllSettled

\* A step keeps the invariants about calls that run alone.
LEMMA AloneStep ==
  ASSUME TypeOK, SoleInv, ReadInv, EncryptInv, [Next]_vars
  PROVE  SoleInv' /\ ReadInv' /\ EncryptInv'
<1> DEFINE Goal == SoleInv' /\ ReadInv' /\ EncryptInv'
<1> SUFFICES Goal
  OBVIOUS
<1>0. /\ pc \in [Post -> Label] /\ set \in [Tab -> SetState]
      /\ lastRead \in [Post -> Method] /\ got \in [Post -> Method]
  BY DEF TypeOK
<1> USE DEF sendVars, histVars
<1>1. CASE Flip
  BY <1>1 DEF Flip, SoleInv, ReadInv, EncryptInv, Active
<1>2. ASSUME NEW t \in Tab, Notice(t)
      PROVE  Goal
  BY <1>2 DEF Notice, SoleInv, ReadInv, EncryptInv, Active
<1>3. ASSUME NEW t \in Tab, NEW m \in Method, StartSet(t, m)
      PROVE  Goal
  <2>1. /\ UNCHANGED <<pc, lastRead, got, last>>
        /\ set' = [set EXCEPT ![t] = [stage |-> "asked", method |-> m]]
        /\ alone' = IF Busy THEN {} ELSE {t}
    BY <1>3 DEF StartSet, Begin
  <2>2. alone' # {} => /\ alone' = {t} /\ Active = {}
                       /\ \A s \in Tab : set[s] = NoSet
    BY <2>1 DEF Busy
  <2>3. Active' = Active
    BY <2>1 DEF Active
  <2>4. SoleInv'
    BY <1>0, <2>1, <2>2, <2>3 DEF SoleInv
  <2>5. \A p \in alone' : p \in Post => pc[p] \in Settled
    BY <2>2 DEF Active
  <2>6. ReadInv' /\ EncryptInv'
    BY <2>1, <2>5 DEF ReadInv, EncryptInv, Settled
  <2> QED BY <2>4, <2>6
<1>4. ASSUME NEW t \in Tab, AnswerSet(t)
      PROVE  Goal
  <2>1. /\ UNCHANGED <<pc, lastRead, got, last, alone>>
        /\ set[t] # NoSet
        /\ \A s \in Tab : s # t => set'[s] = set[s]
    BY <1>0, <1>4 DEF AnswerSet, NoSet
  <2>2. Active' = Active
    BY <2>1 DEF Active
  <2> QED BY <2>1, <2>2 DEF SoleInv, ReadInv, EncryptInv
<1>5. ASSUME NEW t \in Tab, FinishSet(t)
      PROVE  Goal
  <2>1. /\ UNCHANGED <<pc, lastRead, got, alone>>
        /\ set[t] # NoSet
        /\ \A s \in Tab : s # t => set'[s] = set[s]
    BY <1>0, <1>5 DEF FinishSet, NoSet
  <2>2. Active' = Active
    BY <2>1 DEF Active
  <2>3. \A p \in alone : p \in Post => pc[p] \in Settled
    BY <2>1 DEF SoleInv, Active
  <2>4. SoleInv'
    BY <2>1, <2>2 DEF SoleInv
  <2>5. ReadInv' /\ EncryptInv'
    BY <2>1, <2>3 DEF ReadInv, EncryptInv, Settled
  <2> QED BY <2>4, <2>5
<1>6. ASSUME NEW p \in Post, Start(p)
      PROVE  Goal
  <2>1. /\ UNCHANGED <<set, last>>
        /\ pc' \in [Post -> Label]
        /\ \A q \in Post : q # p => pc'[q] = pc[q] /\ lastRead'[q] = lastRead[q] /\ got'[q] = got[q]
        /\ lastRead'[p] = last /\ pc'[p] \in {"asked", "known"}
        /\ alone' = IF Busy THEN {} ELSE {p}
    BY <1>0, <1>6 DEF Start, Begin, Goto, Label
  <2>2. alone' # {} => /\ alone' = {p} /\ Active = {}
                       /\ \A s \in Tab : set[s] = NoSet
    BY <2>1 DEF Busy
  <2>3. \A q \in Active' : q = p \/ q \in Active
    BY <2>1 DEF Active
  <2>4. SoleInv'
    BY <2>1, <2>2, <2>3 DEF SoleInv
  <2>5. ReadInv' /\ EncryptInv'
    BY <2>1, <2>2 DEF ReadInv, EncryptInv
  <2> QED BY <2>4, <2>5
<1>7. ASSUME NEW p \in Post,
             EmptyEdit(p) \/ Answer(p) \/ Received(p) \/ Discard(p) \/ Deliver(p)
      PROVE  Goal
  <2>1. /\ UNCHANGED <<set, last, lastRead, alone>>
        /\ \A q \in Post : q # p => pc'[q] = pc[q] /\ got'[q] = got[q]
        /\ pc'[p] \in {"answered", "known"} => pc[p] \in {"asked", "answered"}
        /\ pc'[p] \in {"answered", "known"} \cup Settled
        /\ pc'[p] \notin Settled => pc[p] \notin Settled
    BY <1>0, <1>7 DEF EmptyEdit, Answer, Received, Discard, Deliver, Goto, Settled
  <2>2. \A q \in Active' : q \in Active
    BY <2>1 DEF Active
  <2>3. SoleInv'
    BY <2>1, <2>2 DEF SoleInv
  <2>4. ReadInv' /\ EncryptInv'
    BY <2>1 DEF ReadInv, EncryptInv, Settled
  <2> QED BY <2>3, <2>4
<1>8. ASSUME NEW p \in Post, Proceed(p) \/ Encrypt(p)
      PROVE  Goal
  <2>1. /\ UNCHANGED <<set, lastRead, got, alone>>
        /\ \A q \in Post : q # p => pc'[q] = pc[q]
        /\ pc[p] \in {"known", "encrypt"}
        /\ pc'[p] \in {"encrypt", "gate", "error", "thrown"}
        /\ pc'[p] = "encrypt" => got[p] = "p2p" /\ last' = got[p]
    BY <1>0, <1>8 DEF Proceed, Encrypt, Goto
  <2>2. p \in Active /\ \A q \in Active' : q \in Active
    BY <2>1 DEF Active, Settled
  <2>3. SoleInv'
    BY <2>1, <2>2 DEF SoleInv
  <2>4. \A q \in alone : q \in Post /\ q # p => pc[q] \in Settled
    BY <2>2 DEF SoleInv, Active
  <2>5. ReadInv' /\ EncryptInv'
    BY <2>1, <2>4 DEF ReadInv, EncryptInv, Settled
  <2> QED BY <2>3, <2>5
<1>9. CASE UNCHANGED vars
  BY <1>9 DEF vars, SoleInv, ReadInv, EncryptInv, Active
<1> QED BY <1>1, <1>2, <1>3, <1>4, <1>5, <1>6, <1>7, <1>8, <1>9
        DEF Next, SendStep, AllSettled

\* What is logged next: one entry, whose method localStorage then holds if its call
\* ran alone, and which is not silently clear.
LEMMA LogStep ==
  ASSUME TypeOK, EncryptInv, ReadInv, LastInv, [Next]_vars
  PROVE  \/ log' = log /\ (last' = last \/ last' = "p2p")
         \/ \E e \in Entry :
              /\ log' = Append(log, e)
              /\ e.alone => last' = e.method
              /\ e.what = "post" /\ e.method = "none" /\ ~e.prompted /\ e.alone
                   => last = "none"
<1> DEFINE Logged(e) == /\ log' = Append(log, e)
                        /\ e.alone => last' = e.method
                        /\ e.what = "post" /\ e.method = "none" /\ ~e.prompted /\ e.alone
                             => last = "none"
           Goal == (log' = log /\ (last' = last \/ last' = "p2p")) \/ \E e \in Entry : Logged(e)
<1> SUFFICES Goal
  OBVIOUS
<1>0. set \in [Tab -> SetState] /\ got \in [Post -> Method] /\ lastRead \in [Post -> Method]
  BY DEF TypeOK
<1> USE DEF sendVars, histVars
<1>1. CASE Flip \/ \E t \in Tab : Notice(t) \/ AnswerSet(t) \/ \E m \in Method : StartSet(t, m)
  BY <1>1 DEF Flip, Notice, AnswerSet, StartSet
<1>2. ASSUME NEW t \in Tab, FinishSet(t)
      PROVE  Goal
  <2> DEFINE e == [what |-> "set", method |-> set[t].method,
                   prompted |-> FALSE, alone |-> t \in alone]
  <2>1. e \in Entry
    BY <1>0, <1>2, SetFields DEF FinishSet, Entry
  <2>2. Logged(e)
    BY <1>2 DEF FinishSet
  <2> QED BY <2>1, <2>2
<1>3. CASE \E p \in Post : \/ Start(p) \/ EmptyEdit(p) \/ Answer(p) \/ Received(p)
                           \/ Discard(p) \/ Deliver(p)
  BY <1>3 DEF Start, EmptyEdit, Answer, Received, Discard, Deliver
<1>4. ASSUME NEW p \in Post, Proceed(p) \/ Encrypt(p)
      PROVE  Goal
  <2> DEFINE e == [what |-> "post", method |-> got[p],
                   prompted |-> p \in prompted', alone |-> p \in alone]
  <2>1. e \in Entry
    BY <1>0 DEF Entry
  <2>2. CASE log' = log
    BY <1>4, <2>2 DEF Proceed, Encrypt, Handed
  <2>3. CASE log' = Handed(p)
    <3>1. e.alone => last' = e.method
      BY <1>4 DEF Proceed, Encrypt, EncryptInv
    <3>2. e.what = "post" /\ e.method = "none" /\ ~e.prompted /\ e.alone => last = "none"
      BY <1>0, <1>4 DEF Proceed, Encrypt, EncryptInv, ReadInv, NeedsPrompt, Method
    <3> QED BY <2>1, <2>3, <3>1, <3>2 DEF Handed
  <2> QED BY <1>4, <2>2, <2>3 DEF Proceed, Encrypt
<1>5. CASE UNCHANGED vars
  BY <1>5 DEF vars
<1> QED BY <1>1, <1>2, <1>3, <1>4, <1>5 DEF Next, SendStep, AllSettled

\* A step keeps the invariants about the log.
LEMMA ClearStep ==
  ASSUME TypeOK, EncryptInv, ReadInv, LastInv, NoSilentClear, [Next]_vars
  PROVE  LastInv' /\ NoSilentClear'
<1>0. log \in Seq(Entry)
  BY DEF TypeOK
<1>1. CASE log' = log /\ (last' = last \/ last' = "p2p")
  BY <1>1 DEF LastInv, NoSilentClear, SilentlyClear
<1>2. ASSUME NEW e \in Entry,
             log' = Append(log, e), e.alone => last' = e.method,
             e.what = "post" /\ e.method = "none" /\ ~e.prompted /\ e.alone => last = "none"
      PROVE  LastInv' /\ NoSilentClear'
  <2>1. /\ Len(log') = Len(log) + 1 /\ log'[Len(log')] = e
        /\ \A i \in 1..Len(log) : log'[i] = log[i]
        /\ Len(log) \in Nat
    BY <1>0, <1>2
  <2>2. LastInv'
    BY <1>2, <2>1 DEF LastInv
  <2>3. ASSUME NEW i \in 2..Len(log'), log'[i].alone, log'[i - 1].alone, SilentlyClear(i)'
        PROVE  FALSE
    <3>1. CASE i \in 2..Len(log)
      <4>1. log'[i] = log[i] /\ log'[i - 1] = log[i - 1]
        BY <2>1, <3>1
      <4> QED BY <2>3, <3>1, <4>1 DEF NoSilentClear, SilentlyClear
    <3>2. CASE i = Len(log')
      <4>1. log'[i] = e /\ log'[i - 1] = log[Len(log)] /\ log # <<>>
        BY <1>0, <2>1, <3>2
      <4>2. e.what = "post" /\ e.method = "none" /\ ~e.prompted /\ log[Len(log)].method = "p2p"
        BY <2>3, <4>1 DEF SilentlyClear
      <4> QED BY <1>2, <2>3, <4>1, <4>2 DEF LastInv
    <3> QED BY <2>1, <3>1, <3>2
  <2> QED BY <2>2, <2>3 DEF NoSilentClear
<1> QED BY <1>1, <1>2, LogStep

\* A step keeps the inductive invariant.
LEMMA InvStep == IInv /\ [Next]_vars => IInv'
BY TypeStep, AloneStep, ClearStep DEF IInv

\* The inductive invariant holds in every reachable state.
THEOREM Invariance == Spec => []IInv
BY InitInv, InvStep, PTL DEF Spec

\* Every variable has its type.
THEOREM TypeCorrect == Spec => []TypeOK
<1>1. IInv => TypeOK
  BY DEF IInv
<1> QED BY Invariance, <1>1, PTL

\* encryptPost never lets a message out in clear, without the user's consent, right
\* after an encrypted message or the user's own choice of encryption, whatever other
\* members set, whatever the tabs have cached and whichever tab sends, as long as the
\* two calls overlap no other of the browser.
THEOREM ClearOnlyByConsent == Spec => []NoSilentClear
<1>1. IInv => NoSilentClear
  BY DEF IInv
<1> QED BY Invariance, <1>1, PTL
==============================================================================
