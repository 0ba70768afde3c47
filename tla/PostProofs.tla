----------------------------- MODULE PostProofs -----------------------------
(***************************************************************************)
(* What is guaranteed of posts.  PostGate, for every set of posts, types   *)
(* and configurations: its types, and that every verdict of the hook has   *)
(* one of the reasons that the code names.  P2PMessage, for every set of   *)
(* users and messages: its types, that what is read is authentic, and that *)
(* the recipients can read an intact message.                              *)
(***************************************************************************)
EXTENDS PostGate, P2PMessage, FiniteSetTheorems, SequenceTheorems, TLAPS

\* Where setConfiguration is says what the set AlwaysAllowMsgTypes holds.
LoaderInv == /\ loader = "idle" => allow = config.types
             /\ loader = "fill" => allow \cup toFill = config.types

\* What a call has witnessed covers what it could see now; without a reload it has
\* witnessed one configuration only.
WitnessInv ==
  \A p \in Post : pc[p] \in Running =>
    LET w == during[p]
    IN  /\ IF method = "none" THEN w.off ELSE w.on
        /\ config.bots => w.bots
        /\ config.types \cup allow \subseteq w.ever
        /\ ~w.reload => loader = "idle" /\ w.ever = config.types

\* What the label of a call says of the checks behind it.
LabelInv ==
  \A p \in Post :
    /\ pc[p] \in {"config", "user", "type"} => during[p].on
    /\ pc[p] = "user" => during[p].bots

\* The inductive invariant.
IInv == /\ TypeOK
        /\ LoaderInv
        /\ WitnessInv
        /\ LabelInv
        /\ ClearPostHasReason
        /\ RejectedPostHasReason

\* A configuration, an administrator's or the zero one, has its fields.
LEMMA ConfigFields ==
  ASSUME NEW g \in Config \cup {ZeroConfig}
  PROVE  g.bots \in BOOLEAN /\ g.types \in SUBSET Type
<1>1. CASE g \in Config
  BY <1>1, TypesAssumption
<1>2. CASE g = ZeroConfig
  <2>1. ZeroConfig \in [bots : BOOLEAN, types : SUBSET Type]
    BY DEF ZeroConfig
  <2> QED BY <1>2, <2>1
<1> QED BY <1>1, <1>2

\* What a call sees when it starts has the type of what it witnesses.
LEMMA WatchType ==
  ASSUME TypeOK
  PROVE  Watch \in Seen
<1>1. config.bots \in BOOLEAN /\ config.types \in SUBSET Type
  BY ConfigFields DEF TypeOK
<1> QED BY <1>1 DEF TypeOK, Watch, Seen

\* What a running call has witnessed after the method changed.
LEMMA MethodWitness ==
  ASSUME TypeOK, Flip, NEW q \in Post, pc[q] \in Running
  PROVE  /\ during'[q].off /\ during'[q].on
         /\ during'[q].bots = during[q].bots
         /\ during'[q].ever = during[q].ever
         /\ during'[q].reload = during[q].reload
<1>1. during'[q] = [during[q] EXCEPT !.off = TRUE, !.on = TRUE]
  BY DEF Flip, Witness
<1> QED BY <1>1 DEF TypeOK, Seen

\* What a running call has witnessed after a configuration was installed.
LEMMA ConfigWitness ==
  ASSUME TypeOK, NEW g \in Config, SetConfiguration(g), NEW q \in Post, pc[q] \in Running
  PROVE  /\ during[q].off => during'[q].off
         /\ during[q].on => during'[q].on
         /\ during[q].bots \/ g.bots => during'[q].bots
         /\ during'[q].ever = during[q].ever \cup g.types
         /\ during'[q].reload
<1>1. during'[q] = [during[q] EXCEPT !.bots = @ \/ g.bots,
                                     !.ever = @ \cup g.types,
                                     !.reload = TRUE]
  BY DEF SetConfiguration, Witness
<1>2. g.bots \in BOOLEAN /\ g.types \in SUBSET Type
  BY ConfigFields
<1> QED BY <1>1, <1>2 DEF TypeOK, Seen

\* What a call has witnessed after the store, or the lookup of its author, failed.
LEMMA ErrorWitness ==
  ASSUME TypeOK, NEW p \in Post,
         \/ during' = [during EXCEPT ![p].kvError = TRUE]
         \/ during' = [during EXCEPT ![p].userError = TRUE]
  PROVE  \A q \in Post :
           /\ during'[q].off = during[q].off
           /\ during'[q].on = during[q].on
           /\ during'[q].bots = during[q].bots
           /\ during'[q].ever = during[q].ever
           /\ during'[q].reload = during[q].reload
           /\ q # p => during'[q] = during[q]
BY DEF TypeOK, Seen

\* The initial states satisfy the inductive invariant.
LEMMA InitInv == Init => IInv
<1> SUFFICES ASSUME Init PROVE IInv
  OBVIOUS
<1>1. TypeOK
  <2>1. config.bots \in BOOLEAN /\ config.types \in SUBSET Type
    BY ConfigFields DEF Init
  <2>2. Watch \in Seen
    BY <2>1 DEF Init, Watch, Seen
  <2>3. during \in [Post -> Seen]
    BY <2>2 DEF Init
  <2>4. post \in [Post -> Author \X Type]
    BY TypesAssumption DEF Init, Author
  <2> QED BY <2>3, <2>4, BoundsAssumption DEF Init, TypeOK, Label
<1>2. LoaderInv
  BY DEF Init, LoaderInv, ZeroConfig
<1>3. WitnessInv /\ LabelInv /\ ClearPostHasReason /\ RejectedPostHasReason
  BY DEF Init, WitnessInv, LabelInv, ClearPostHasReason, RejectedPostHasReason, Running
<1> QED BY <1>1, <1>2, <1>3 DEF IInv

\* A step keeps the types.
LEMMA TypeStep ==
  ASSUME IInv, [Next]_vars
  PROVE  TypeOK'
<1> USE DEF IInv, TypeOK, configVars
<1>1. CASE Flip
  <2>1. during' \in [Post -> Seen]
    <3>1. \A w \in Seen : [w EXCEPT !.off = TRUE, !.on = TRUE] \in Seen
      BY DEF Seen
    <3> QED BY <1>1, <3>1 DEF Flip, Witness
  <2> QED BY <1>1, <2>1, BoundsAssumption DEF Flip
<1>2. ASSUME NEW g \in Config, SetConfiguration(g)
      PROVE  TypeOK'
  <2>1. g.bots \in BOOLEAN /\ g.types \in SUBSET Type
    BY ConfigFields
  <2>2. during' \in [Post -> Seen]
    <3>1. \A w \in Seen : [w EXCEPT !.bots = @ \/ g.bots, !.ever = @ \cup g.types,
                                    !.reload = TRUE] \in Seen
      BY <2>1 DEF Seen
    <3> QED BY <1>2, <3>1 DEF SetConfiguration, Witness
  <2> QED BY <1>2, <2>2, BoundsAssumption DEF SetConfiguration
<1>3. CASE NewSet
  <2>1. config.types \subseteq Type
    BY ConfigFields
  <2> QED BY <1>3, <2>1 DEF NewSet
<1>4. ASSUME NEW t \in Type, AllowType(t)
      PROVE  TypeOK'
  BY <1>4 DEF AllowType
<1>5. CASE Configured
  BY <1>5 DEF Configured
<1>6. ASSUME NEW p \in Post, NEW a \in Author, NEW t \in Type, Receive(p, a, t)
      PROVE  TypeOK'
  <2>1. during' \in [Post -> Seen]
    BY <1>6, WatchType DEF Receive
  <2>2. post' \in [Post -> Author \X Type] /\ pc' \in [Post -> Label]
    BY <1>6 DEF Receive, Goto, Label
  <2> QED BY <1>6, <2>1, <2>2 DEF Receive
<1>7. ASSUME NEW p \in Post, CheckMethod(p)
      PROVE  TypeOK'
  <2>1. [during[p] EXCEPT !.kvError = TRUE] \in Seen
    BY DEF Seen
  <2>2. during' \in [Post -> Seen]
    <3>1. during' = during \/ during' = [during EXCEPT ![p] = [during[p] EXCEPT !.kvError = TRUE]]
      BY <1>7 DEF CheckMethod
    <3> QED BY <2>1, <3>1
  <2>3. pc' \in [Post -> Label]
    BY <1>7 DEF CheckMethod, Goto, Label
  <2>4. UNCHANGED <<method, flips, configVars, up, post>>
    BY <1>7 DEF CheckMethod
  <2> QED BY <2>2, <2>3, <2>4
<1>8. ASSUME NEW p \in Post, CheckConfig(p)
      PROVE  TypeOK'
  BY <1>8 DEF CheckConfig, Goto, Label
<1>9. ASSUME NEW p \in Post, CheckBot(p)
      PROVE  TypeOK'
  <2>1. [during[p] EXCEPT !.userError = TRUE] \in Seen
    BY DEF Seen
  <2>2. during' \in [Post -> Seen]
    <3>1. during' = during \/ during' = [during EXCEPT ![p] = [during[p] EXCEPT !.userError = TRUE]]
      BY <1>9 DEF CheckBot
    <3> QED BY <2>1, <3>1
  <2>3. pc' \in [Post -> Label]
    BY <1>9 DEF CheckBot, Goto, Label
  <2>4. UNCHANGED <<method, flips, configVars, up, post>>
    BY <1>9 DEF CheckBot
  <2> QED BY <2>2, <2>3, <2>4
<1>10. ASSUME NEW p \in Post, CheckType(p)
       PROVE  TypeOK'
  BY <1>10 DEF CheckType, Goto, Label
<1>11. ASSUME NEW p \in Post, Crash(p)
       PROVE  TypeOK'
  BY <1>11 DEF Crash, Label
<1>12. CASE Restart
  BY <1>12 DEF Restart
<1>13. CASE UNCHANGED vars
  BY <1>13 DEF vars
<1> QED BY <1>1, <1>2, <1>3, <1>4, <1>5, <1>6, <1>7, <1>8, <1>9, <1>10, <1>11, <1>12, <1>13
        DEF Next

\* A step keeps what the labels and the witnesses say of each other: one that
\* witnesses a change keeps its place and its post.
LEMMA ReasonStep ==
  ASSUME IInv, [Next]_vars
  PROVE  /\ LoaderInv' /\ WitnessInv' /\ LabelInv'
         /\ ClearPostHasReason' /\ RejectedPostHasReason'
<1> DEFINE Reasons == /\ LoaderInv /\ WitnessInv /\ LabelInv
                      /\ ClearPostHasReason /\ RejectedPostHasReason
<1> USE DEF IInv, TypeOK, LoaderInv, WitnessInv, LabelInv, ClearPostHasReason,
            RejectedPostHasReason, configVars, Running
<1> TypeOK' BY TypeStep
<1>1. CASE Flip
  <2>1. UNCHANGED <<configVars, pc, post>>
    BY <1>1 DEF Flip
  <2>2. ASSUME NEW q \in Post, pc[q] \notin Running
        PROVE  during'[q] = during[q]
    BY <1>1, <2>2 DEF Flip, Witness
  <2>3. LoaderInv' /\ LabelInv'
    BY <1>1, <2>1, <2>2, MethodWitness
  <2>4. WitnessInv'
    BY <1>1, <2>1, MethodWitness
  <2>5. ClearPostHasReason' /\ RejectedPostHasReason'
    BY <2>1, <2>2
  <2> QED BY <2>3, <2>4, <2>5
<1>2. ASSUME NEW g \in Config, SetConfiguration(g)
      PROVE  Reasons'
  <2>1. /\ UNCHANGED <<method, allow, toFill, pc, post>>
        /\ loader = "idle" /\ config' = g /\ loader' = "swap"
    BY <1>2 DEF SetConfiguration
  <2>2. ASSUME NEW q \in Post, pc[q] \notin Running
        PROVE  during'[q] = during[q]
    BY <1>2, <2>2 DEF SetConfiguration, Witness
  <2>3. LoaderInv' /\ LabelInv'
    BY <1>2, <2>1, <2>2, ConfigWitness
  <2>4. WitnessInv'
    <3>1. SUFFICES ASSUME NEW q \in Post, pc[q] \in Running
                   PROVE  /\ IF method = "none" THEN during'[q].off ELSE during'[q].on
                          /\ g.bots => during'[q].bots
                          /\ g.types \cup allow \subseteq during'[q].ever
                          /\ during'[q].reload
      BY <2>1
    <3>2. /\ IF method = "none" THEN during[q].off ELSE during[q].on
          /\ config.types \cup allow \subseteq during[q].ever
      BY <3>1
    <3>3. TypeOK /\ SetConfiguration(g) /\ pc[q] \in Running
      BY <1>2, <3>1
    <3>4. /\ during[q].off => during'[q].off
          /\ during[q].on => during'[q].on
          /\ g.bots => during'[q].bots
          /\ during'[q].ever = during[q].ever \cup g.types
          /\ during'[q].reload
      BY ONLY <3>3, ConfigWitness
    <3> QED BY ONLY <3>2, <3>4
  <2>5. ClearPostHasReason' /\ RejectedPostHasReason'
    BY <2>1, <2>2
  <2> QED BY <2>3, <2>4, <2>5
<1>3. CASE NewSet
  BY <1>3 DEF NewSet
<1>4. ASSUME NEW t \in Type, AllowType(t)
      PROVE  Reasons'
  BY <1>4 DEF AllowType
<1>5. CASE Configured
  BY <1>5 DEF Configured
<1>6. ASSUME NEW p \in Post, NEW a \in Author, NEW t \in Type, Receive(p, a, t)
      PROVE  Reasons'
  BY <1>6 DEF Receive, Goto, Watch
<1>7. ASSUME NEW p \in Post, CheckMethod(p)
      PROVE  Reasons'
  <2>1. CASE Goto(p, IF method = "none" THEN "accept" ELSE "config") /\ UNCHANGED during
    BY <1>7, <2>1 DEF CheckMethod, Goto
  <2>2. CASE /\ Goto(p, "accept")
             /\ during' = [during EXCEPT ![p].kvError = TRUE]
    <3>1. during'[p].kvError
      <4>1. during[p] \in Seen
        OBVIOUS
      <4> QED BY <2>2, <4>1 DEF Seen
    <3>2. \A q \in Post :
            /\ during'[q].off = during[q].off
            /\ during'[q].on = during[q].on
            /\ during'[q].bots = during[q].bots
            /\ during'[q].ever = during[q].ever
            /\ during'[q].reload = during[q].reload
            /\ q # p => during'[q] = during[q]
      BY <2>2, ErrorWitness
    <3>3. pc' = [pc EXCEPT ![p] = "accept"]
      BY <2>2 DEF Goto
    <3>4. UNCHANGED <<method, configVars, post>> /\ pc[p] = "method"
      BY <1>7 DEF CheckMethod
    <3>5. pc'[p] = "accept"
      BY <3>3
    <3>6. LoaderInv' /\ LabelInv'
      BY <3>2, <3>3, <3>4
    <3>7. WitnessInv'
      <4>1. \A q \in Post : pc'[q] \in Running => pc[q] \in Running /\ during'[q] = during[q]
        BY <3>2, <3>3
      <4>2. UNCHANGED <<method, config, allow, loader>>
        BY <3>4
      <4> QED BY <4>1, <4>2
    <3>8. ASSUME NEW q \in Post, q # p
          PROVE  pc'[q] = pc[q] /\ during'[q] = during[q] /\ post'[q] = post[q]
      BY <3>2, <3>3, <3>4, <3>8
    <3>9. ClearPostHasReason'
      BY <3>1, <3>5, <3>8 DEF ClearPostHasReason
    <3>10. RejectedPostHasReason'
      BY <3>5, <3>8 DEF RejectedPostHasReason
    <3> QED BY <3>6, <3>7, <3>9, <3>10
  <2> QED BY <1>7, <2>1, <2>2 DEF CheckMethod
<1>8. ASSUME NEW p \in Post, CheckConfig(p)
      PROVE  Reasons'
  BY <1>8 DEF CheckConfig, Goto
<1>9. ASSUME NEW p \in Post, CheckBot(p)
      PROVE  Reasons'
  <2>1. CASE Goto(p, IF post[p][1] = "bot" THEN "accept" ELSE "type") /\ UNCHANGED during
    BY <1>9, <2>1 DEF CheckBot, Goto
  <2>2. CASE /\ Goto(p, "reject")
             /\ during' = [during EXCEPT ![p].userError = TRUE]
    <3>1. during'[p].userError
      <4>1. during[p] \in Seen
        OBVIOUS
      <4> QED BY <2>2, <4>1 DEF Seen
    <3>2. \A q \in Post :
            /\ during'[q].off = during[q].off
            /\ during'[q].on = during[q].on
            /\ during'[q].bots = during[q].bots
            /\ during'[q].ever = during[q].ever
            /\ during'[q].reload = during[q].reload
            /\ q # p => during'[q] = during[q]
      BY <2>2, ErrorWitness
    <3>3. pc' = [pc EXCEPT ![p] = "reject"]
      BY <2>2 DEF Goto
    <3>4. UNCHANGED <<method, configVars, post>> /\ pc[p] = "user"
      BY <1>9 DEF CheckBot
    <3>5. pc'[p] = "reject"
      BY <3>3
    <3>6. LoaderInv' /\ LabelInv'
      BY <3>2, <3>3, <3>4
    <3>7. WitnessInv'
      <4>1. \A q \in Post : pc'[q] \in Running => pc[q] \in Running /\ during'[q] = during[q]
        BY <3>2, <3>3
      <4>2. UNCHANGED <<method, config, allow, loader>>
        BY <3>4
      <4> QED BY <4>1, <4>2
    <3>8. ASSUME NEW q \in Post, q # p
          PROVE  pc'[q] = pc[q] /\ during'[q] = during[q] /\ post'[q] = post[q]
      BY <3>2, <3>3, <3>4, <3>8
    <3>9. ClearPostHasReason'
      BY <3>1, <3>5, <3>8 DEF ClearPostHasReason
    <3>10. RejectedPostHasReason'
      <4>1. during'[p].on /\ during'[p].bots
        BY <3>2, <3>4
      <4> QED BY <3>1, <3>8, <4>1
    <3> QED BY <3>6, <3>7, <3>9, <3>10
  <2> QED BY <1>9, <2>1, <2>2 DEF CheckBot
<1>10. ASSUME NEW p \in Post, CheckType(p)
       PROVE  Reasons'
  BY <1>10 DEF CheckType, Goto
<1>11. ASSUME NEW p \in Post, Crash(p)
       PROVE  Reasons'
  BY <1>11 DEF Crash, ZeroConfig
<1>12. CASE Restart
  BY <1>12 DEF Restart
<1>13. CASE UNCHANGED vars
  BY <1>13 DEF vars
<1> QED BY <1>1, <1>2, <1>3, <1>4, <1>5, <1>6, <1>7, <1>8, <1>9, <1>10, <1>11, <1>12, <1>13
        DEF Next

\* A step keeps the inductive invariant.
LEMMA InvStep == IInv /\ [Next]_vars => IInv'
BY TypeStep, ReasonStep DEF IInv

\* In every behaviour of the hook and the configuration the inductive invariant holds.
THEOREM Invariance == Spec => []IInv
BY InitInv, InvStep, PTL DEF Spec

\* Every variable keeps its type, for any number of posts, types and configurations.
THEOREM TypeCorrect == Spec => []TypeOK
<1>1. IInv => TypeOK
  BY DEF IInv
<1> QED BY <1>1, Invariance, PTL

\* However the hook's calls interleave with a reload of the configuration, a crash
\* and changes of the channel, a clear post passes only for a reason the code names.
THEOREM ClearPostsAreExcused == Spec => []ClearPostHasReason
<1>1. IInv => ClearPostHasReason
  BY DEF IInv
<1> QED BY <1>1, Invariance, PTL

\* Whatever happens during the call, a post is turned away only for a reason the
\* code names.
THEOREM RejectionsAreExcused == Spec => []RejectedPostHasReason
<1>1. IInv => RejectedPostHasReason
  BY DEF IInv
<1> QED BY <1>1, Invariance, PTL

------------------------------------------------------------------------------
\* What a message is made of.

\* The wrapped keys of a sent message for the keys of the sequence to.  They may have
\* been exchanged among its recipients, its ids stay.
Wraps(keys, n, to) == /\ keys \in Seq([id : KeyPair, msgKey : {n}, wrappedBy : {n} \X KeyPair])
                      /\ Len(keys) = Len(to)
                      /\ \A i \in 1..Len(to) : keys[i].id = to[i]

\* What a field of a stored message may hold, when sent are the messages and org their
\* origins: it was lost, or is the field of one of the messages.
FieldOf(f, v, sent, org) ==
  \/ v = Missing
  \/ \E n \in sent : LET to == SetToSeq(org[n].to)
                     IN  IF f = "encryptedKey" THEN Wraps(v, n, to)
                         ELSE v = Encrypt(n, org[n].by, to)[f]

\* The keys a message was encrypted for, and the message as it was sent.
Keys(n) == SetToSeq(origin[n].to)
AsSent(n) == Encrypt(n, origin[n].by, Keys(n))

\* Variables that are functions.
Functional == /\ stored = [m \in Msg |-> stored[m]] /\ origin = [m \in Msg |-> origin[m]]
              /\ \A m \in Sent : IsFiniteSet(origin[m].to)

FieldsSent == \A m \in Sent : \A f \in Field : FieldOf(f, stored[m][f], Sent, origin)
IntactAsSent == \A m \in Sent : \A f \in intact[m] : stored[m][f] = AsSent(m)[f]

\* The read messages, and the texts displayed, were sent.
ReadSent == WasRead => /\ last.msg \in Sent
                       /\ last.outcome.result = "text" => last.outcome.text \in Sent

\* The inductive invariant of P2PMessage.
MsgInv == /\ MsgTypeOK /\ Functional /\ FieldsSent /\ IntactAsSent /\ ReadSent
          /\ OnlyAuthenticTexts /\ RecipientsCanRead

------------------------------------------------------------------------------
\* A function on the first numbers is a sequence.
LEMMA FunctionIsSeq ==
  ASSUME NEW S, NEW n \in Nat, NEW f \in [1..n -> S]
  PROVE  f \in Seq(S) /\ Len(f) = n
<1>1. f \in Seq(S)
  BY SeqDef
<1>2. DOMAIN f = 1..n
  OBVIOUS
<1> QED BY <1>1, <1>2, LenProperties

\* SetToSeq gives a sequence that has each element of a finite set once.
LEMMA SetToSeqOnce ==
  ASSUME NEW S, IsFiniteSet(S)
  PROVE  /\ SetToSeq(S) \in Seq(S) /\ Len(SetToSeq(S)) \in Nat
         /\ DOMAIN SetToSeq(S) = 1..Len(SetToSeq(S))
         /\ \A i, j \in 1..Len(SetToSeq(S)) : SetToSeq(S)[i] = SetToSeq(S)[j] => i = j
         /\ \A x \in S : \E i \in 1..Len(SetToSeq(S)) : SetToSeq(S)[i] = x
<1> DEFINE n == Cardinality(S)
<1> DEFINE s == SetToSeq(S)
<1>1. n \in Nat /\ ExistsBijection(1..n, S)
  BY FS_CardinalityType
<1>2. PICK b \in Bijection(1..n, S) : TRUE
  BY <1>1 DEF ExistsBijection
<1>3. b \in [1..n -> S] /\ IsInjective(b)
  BY <1>2 DEF Bijection, Injection
<1>4. s \in [1..n -> S] /\ IsInjective(s)
  BY <1>3 DEF SetToSeq
<1> HIDE DEF s
<1>5. s \in Seq(S) /\ Len(s) = n
  BY <1>1, <1>4, FunctionIsSeq
<1>6. \A i, j \in 1..n : s[i] = s[j] => i = j
  BY <1>4 DEF IsInjective
<1> DEFINE T == {s[i] : i \in 1..n}
<1>7. s \in Bijection(1..n, T)
  BY <1>4 DEF Bijection, Injection, Surjection
<1>8. T \subseteq S
  BY <1>4
<1>9. ExistsBijection(1..n, T)
  BY <1>7 DEF ExistsBijection
<1>10. T \in SUBSET S
  BY <1>8
<1> HIDE DEF T
<1>11. Cardinality(T) = n
  BY <1>1, <1>9, FS_CountingElements
<1>12. T = S
  BY <1>10, <1>11, FS_Subset
<1>13. \A x \in S : \E i \in 1..n : s[i] = x
  BY <1>12 DEF T
<1> QED BY <1>1, <1>4, <1>5, <1>6, <1>13 DEF s

\* The keys of a set of users are a finite set.
LEMMA KeysFinite ==
  ASSUME NEW to \in SUBSET User
  PROVE  IsFiniteSet({Current(v) : v \in to})
<1> DEFINE T == {Current(v) : v \in to}
<1> DEFINE f == [v \in to |-> Current(v)]
<1>1. IsFiniteSet(to)
  BY P2PMessageAssumption, FS_Subset
<1>2. f \in Surjection(to, T)
  BY DEF Surjection
<1> HIDE DEF f, T
<1>3. IsFiniteSet(T)
  BY <1>1, <1>2, FS_Surjection
<1> QED BY <1>3 DEF T

\* A concatenation starts as its first part does.
LEMMA ConcatHead ==
  ASSUME NEW S, NEW s \in Seq(S), NEW t \in Seq(S)
  PROVE  /\ s \o t \in Seq(S) /\ Len(s \o t) = Len(s) + Len(t)
         /\ \A i \in 1..Len(s) : (s \o t)[i] = s[i]
<1>1. \A i \in 1..Len(s) : i \in 1..Len(s) + Len(t) /\ i <= Len(s)
  OBVIOUS
<1> QED BY <1>1, ConcatProperties

\* What is signed of a message: its first, second and last part are its iv, its
\* ephemeral key and its data.
LEMMA SignDataParts ==
  ASSUME NEW a, NEW T, a.encryptedKey \in Seq(T)
  PROVE  /\ SignData(a)[1] = a.iv
         /\ SignData(a)[2] = a.pubECDHE
         /\ Len(SignData(a)) = 11 + Len(a.encryptedKey)
         /\ SignData(a)[11 + Len(a.encryptedKey)] = a.encryptedData
<1> DEFINE n == Len(a.encryptedKey)
<1> DEFINE u == Uint32(n)
<1> DEFINE v == Uint32(a.encryptedData.length)
<1> DEFINE w == [i \in DOMAIN a.encryptedKey |-> a.encryptedKey[i].id]
<1> DEFINE iv == a.iv
<1> DEFINE pub == a.pubECDHE
<1> DEFINE data == a.encryptedData
<1>1. n \in Nat /\ DOMAIN a.encryptedKey = 1..n
  OBVIOUS
<1>2. \A x : Uint32(x) = [i \in 1..4 |-> Uint32(x)[i]]
  BY DEF Uint32
<1>3. u = [i \in 1..4 |-> u[i]] /\ v = [i \in 1..4 |-> v[i]]
  BY <1>2
<1>4. w = [i \in 1..n |-> w[i]]
  BY <1>1
<1>5. SignData(a) = <<iv, pub>> \o u \o w \o v \o <<data>>
  BY DEF SignData
<1> HIDE DEF n, u, v, w, iv, pub, data
<1> DEFINE S == {iv, pub, data} \cup {u[i] : i \in 1..4} \cup {v[i] : i \in 1..4}
                \cup {w[i] : i \in 1..n}
<1>6. u \in [1..4 -> S] /\ v \in [1..4 -> S] /\ w \in [1..n -> S]
  BY <1>3, <1>4
<1>7. iv \in S /\ pub \in S /\ data \in S
  OBVIOUS
<1> HIDE DEF S
<1>8. u \in Seq(S) /\ Len(u) = 4 /\ v \in Seq(S) /\ Len(v) = 4 /\ w \in Seq(S) /\ Len(w) = n
  BY <1>1, <1>6, FunctionIsSeq
<1>9. /\ <<iv, pub>> \in Seq(S) /\ Len(<<iv, pub>>) = 2
      /\ <<iv, pub>>[1] = iv /\ <<iv, pub>>[2] = pub
  BY <1>7
<1>10. <<data>> \in Seq(S) /\ Len(<<data>>) = 1 /\ <<data>>[1] = data
  BY <1>7
<1> DEFINE c == <<iv, pub>> \o u
<1>11. c \in Seq(S) /\ Len(c) = 6 /\ c[1] = iv /\ c[2] = pub
  <2>1. /\ c \in Seq(S) /\ Len(c) = Len(<<iv, pub>>) + Len(u)
        /\ \A i \in 1..Len(<<iv, pub>>) : c[i] = <<iv, pub>>[i]
    BY <1>8, <1>9, ConcatHead
  <2> HIDE DEF c
  <2>2. 1 \in 1..Len(<<iv, pub>>) /\ 2 \in 1..Len(<<iv, pub>>) /\ Len(c) = 6
    BY <1>1, <1>8, <1>9, <2>1
  <2> QED BY <1>9, <2>1, <2>2
<1> HIDE DEF c
<1> DEFINE d == c \o w
<1>12. d \in Seq(S) /\ Len(d) = 6 + n /\ d[1] = iv /\ d[2] = pub
  <2>1. /\ d \in Seq(S) /\ Len(d) = Len(c) + Len(w)
        /\ \A i \in 1..Len(c) : d[i] = c[i]
    BY <1>8, <1>11, ConcatHead
  <2> HIDE DEF d
  <2>2. 1 \in 1..Len(c) /\ 2 \in 1..Len(c) /\ Len(d) = 6 + n
    BY <1>1, <1>8, <1>11, <2>1
  <2> QED BY <1>11, <2>1, <2>2
<1> HIDE DEF d
<1> DEFINE e == d \o v
<1>13. e \in Seq(S) /\ Len(e) = 10 + n /\ e[1] = iv /\ e[2] = pub
  <2>0. d \in Seq(S) /\ v \in Seq(S)
    BY <1>8, <1>12
  <2>1. /\ e \in Seq(S) /\ Len(e) = Len(d) + Len(v)
        /\ \A i \in 1..Len(d) : e[i] = d[i]
    BY <2>0, ConcatHead
  <2> HIDE DEF e
  <2>2. 1 \in 1..Len(d) /\ 2 \in 1..Len(d) /\ Len(e) = 10 + n
    BY <1>1, <1>8, <1>12, <2>1
  <2> QED BY <1>12, <2>1, <2>2
<1> HIDE DEF e
<1> DEFINE g == e \o <<data>>
<1>14. g \in Seq(S) /\ Len(g) = 11 + n /\ g[1] = iv /\ g[2] = pub
  BY <1>1, <1>10, <1>13, ConcatProperties
<1>15. g[11 + n] = data
  <2>1. 11 + n \in 1..(Len(e) + Len(<<data>>)) /\ ~(11 + n <= Len(e)) /\ (11 + n) - Len(e) = 1
    BY <1>1, <1>10, <1>13
  <2>2. g[11 + n] = <<data>>[(11 + n) - Len(e)]
    BY <1>10, <1>13, <2>1, ConcatProperties
  <2> QED BY <1>10, <2>1, <2>2
<1> HIDE DEF g
<1>16. SignData(a) = g
  BY <1>5 DEF c, d, e, g
<1> QED BY <1>14, <1>15, <1>16 DEF n, iv, pub, data

\* Messages of which the same is signed have the same iv, ephemeral key and data.
LEMMA SignDataInjective ==
  ASSUME NEW a, NEW b, NEW S, NEW T, a.encryptedKey \in Seq(S), b.encryptedKey \in Seq(T),
         SignData(a) = SignData(b)
  PROVE  a.iv = b.iv /\ a.pubECDHE = b.pubECDHE /\ a.encryptedData = b.encryptedData
<1>1. /\ SignData(a)[1] = a.iv /\ SignData(a)[2] = a.pubECDHE
      /\ Len(SignData(a)) = 11 + Len(a.encryptedKey)
      /\ SignData(a)[11 + Len(a.encryptedKey)] = a.encryptedData
  BY SignDataParts
<1>2. /\ SignData(b)[1] = b.iv /\ SignData(b)[2] = b.pubECDHE
      /\ Len(SignData(b)) = 11 + Len(b.encryptedKey)
      /\ SignData(b)[11 + Len(b.encryptedKey)] = b.encryptedData
  BY SignDataParts
<1>3. Len(a.encryptedKey) \in Nat /\ Len(b.encryptedKey) \in Nat
  OBVIOUS
<1>4. Len(a.encryptedKey) = Len(b.encryptedKey)
  BY <1>1, <1>2, <1>3
<1> QED BY <1>1, <1>2, <1>4

\* The fields of an encrypted message.
LEMMA EncryptFields ==
  ASSUME NEW n, NEW by, NEW to \in Seq(KeyPair)
  PROVE  LET m == Encrypt(n, by, to)
         IN  /\ DOMAIN m = Field /\ m.iv = n /\ m.pubECDHE = n
             /\ m.encryptedData = [text |-> n, key |-> n, iv |-> n, length |-> 1]
             /\ m.signature = [by |-> by, over |-> SignData(m)]
             /\ Wraps(m.encryptedKey, n, to)
             /\ \A i \in 1..Len(to) : m.encryptedKey[i] =
                  [id |-> to[i], msgKey |-> n, wrappedBy |-> <<n, to[i]>>]
<1> DEFINE keys == [i \in DOMAIN to |->
                     [id |-> to[i], msgKey |-> n, wrappedBy |-> SharedKey(n, to[i])]]
<1> DEFINE data == [text |-> n, key |-> n, iv |-> n, length |-> 1]
<1> DEFINE m0 == [iv |-> n, pubECDHE |-> n, encryptedKey |-> keys, encryptedData |-> data,
                  signature |-> Missing]
<1> DEFINE sig == [by |-> by, over |-> SignData(m0)]
<1> DEFINE m == Encrypt(n, by, to)
<1>1. m = [m0 EXCEPT !.signature = sig]
  BY DEF Encrypt
<1>2. DOMAIN to = 1..Len(to) /\ Len(to) \in Nat /\ \A i \in 1..Len(to) : to[i] \in KeyPair
  OBVIOUS
<1>3. \A i \in 1..Len(to) : keys[i] = [id |-> to[i], msgKey |-> n, wrappedBy |-> <<n, to[i]>>]
  BY <1>2 DEF SharedKey
<1> DEFINE W == [id : KeyPair, msgKey : {n}, wrappedBy : {n} \X KeyPair]
<1>4. keys \in [1..Len(to) -> W]
  BY <1>2 DEF SharedKey
<1> HIDE DEF keys, sig, m, W
<1>5. keys \in Seq(W) /\ Len(keys) = Len(to)
  BY <1>2, <1>4, FunctionIsSeq
<1>6. \A i \in 1..Len(to) : keys[i].id = to[i]
  <2> SUFFICES ASSUME NEW i \in 1..Len(to) PROVE keys[i].id = to[i]
    OBVIOUS
  <2>1. keys[i] = [id |-> to[i], msgKey |-> n, wrappedBy |-> <<n, to[i]>>]
    BY <1>3
  <2> QED BY <2>1
<1>7. Wraps(keys, n, to)
  BY <1>5, <1>6 DEF Wraps, W
<1>8. /\ DOMAIN m = Field /\ m.iv = n /\ m.pubECDHE = n /\ m.encryptedData = data
      /\ m.encryptedKey = keys /\ m.signature = sig
  BY <1>1 DEF Field
<1>9. SignData(m) = SignData(m0)
  <2>1. /\ m0.iv = n /\ m0.pubECDHE = n /\ m0.encryptedData = data /\ m0.encryptedKey = keys
    OBVIOUS
  <2> HIDE DEF m0, data
  <2> QED BY <1>8, <2>1 DEF SignData
<1>10. m.signature = [by |-> by, over |-> SignData(m)]
  BY <1>8, <1>9 DEF sig
<1> QED BY <1>3, <1>7, <1>8, <1>10 DEF m

\* A message that was sent: its keys, each once, and its fields.
LEMMA SentFields ==
  ASSUME MsgInv, NEW n \in Sent
  PROVE  /\ Keys(n) \in Seq(KeyPair) /\ DOMAIN Keys(n) = 1..Len(Keys(n)) /\ Len(Keys(n)) \in Nat
         /\ \A i, j \in 1..Len(Keys(n)) : Keys(n)[i] = Keys(n)[j] => i = j
         /\ \A i \in 1..Len(Keys(n)) : Keys(n)[i] \in origin[n].to
         /\ \A x \in origin[n].to : \E i \in 1..Len(Keys(n)) : Keys(n)[i] = x
         /\ DOMAIN AsSent(n) = Field /\ AsSent(n).iv = n /\ AsSent(n).pubECDHE = n
         /\ AsSent(n).encryptedData = [text |-> n, key |-> n, iv |-> n, length |-> 1]
         /\ AsSent(n).signature = [by |-> origin[n].by, over |-> SignData(AsSent(n))]
         /\ Wraps(AsSent(n).encryptedKey, n, Keys(n))
         /\ \A i \in 1..Len(Keys(n)) : AsSent(n).encryptedKey[i] =
              [id |-> Keys(n)[i], msgKey |-> n, wrappedBy |-> <<n, Keys(n)[i]>>]
<1> DEFINE S == origin[n].to
<1> DEFINE by == origin[n].by
<1> DEFINE to == SetToSeq(S)
<1>1. IsFiniteSet(S) /\ S \subseteq KeyPair
  BY DEF MsgInv, MsgTypeOK, Functional
<1> HIDE DEF S, by
<1>2. /\ to \in Seq(S) /\ Len(to) \in Nat /\ DOMAIN to = 1..Len(to)
      /\ \A i, j \in 1..Len(to) : to[i] = to[j] => i = j
      /\ \A x \in S : \E i \in 1..Len(to) : to[i] = x
  BY <1>1, SetToSeqOnce
<1> HIDE DEF to
<1>3. \A i \in 1..Len(to) : to[i] \in S
  BY <1>2
<1>4. to \in Seq(KeyPair)
  <2>1. to \in [1..Len(to) -> KeyPair]
    BY <1>1, <1>2, <1>3
  <2> QED BY <1>2, <2>1, FunctionIsSeq
<1> DEFINE m == Encrypt(n, by, to)
<1>5. /\ DOMAIN m = Field /\ m.iv = n /\ m.pubECDHE = n
      /\ m.encryptedData = [text |-> n, key |-> n, iv |-> n, length |-> 1]
      /\ m.signature = [by |-> by, over |-> SignData(m)]
      /\ Wraps(m.encryptedKey, n, to)
      /\ \A i \in 1..Len(to) : m.encryptedKey[i] =
           [id |-> to[i], msgKey |-> n, wrappedBy |-> <<n, to[i]>>]
  BY <1>4, EncryptFields
<1>6. m = AsSent(n) /\ to = Keys(n)
  BY DEF AsSent, Keys, S, by, to
<1> HIDE DEF m
<1> QED BY <1>2, <1>3, <1>4, <1>5, <1>6 DEF S, by

\* The wrapped keys of a message that was sent: an id occurs once.
LEMMA WrapsOnce ==
  ASSUME MsgInv, NEW n \in Sent, NEW a, Wraps(a.encryptedKey, n, Keys(n)), NEW k,
         NEW i \in EntriesFor(a, k)
  PROVE  /\ i \in 1..Len(Keys(n)) /\ k = Keys(n)[i] /\ EntryFor(a, k) = a.encryptedKey[i]
         /\ a.encryptedKey[i].msgKey = n /\ a.encryptedKey[i].wrappedBy[1] = n
<1> DEFINE T == [id : KeyPair, msgKey : {n}, wrappedBy : {n} \X KeyPair]
<1> DEFINE keys == a.encryptedKey
<1>1. /\ keys \in Seq(T) /\ Len(keys) = Len(Keys(n))
      /\ \A j \in 1..Len(Keys(n)) : keys[j].id = Keys(n)[j]
  BY DEF Wraps
<1>2. EntriesFor(a, k) = {j \in DOMAIN keys : keys[j].id = k}
  BY DEF EntriesFor
<1> HIDE DEF keys
<1>3. DOMAIN keys = 1..Len(Keys(n)) /\ Len(Keys(n)) \in Nat
  BY <1>1, SentFields
<1>4. i \in 1..Len(Keys(n)) /\ k = Keys(n)[i]
  BY <1>1, <1>2, <1>3
<1>5. \A j \in EntriesFor(a, k) : j = i
  <2>1. \A p, q \in 1..Len(Keys(n)) : Keys(n)[p] = Keys(n)[q] => p = q
    BY SentFields
  <2>2. \A j \in EntriesFor(a, k) : j \in 1..Len(Keys(n)) /\ Keys(n)[j] = k
    BY <1>1, <1>2, <1>3
  <2> QED BY <1>4, <2>1, <2>2
<1>6. EntriesFor(a, k) = {i}
  BY <1>5
<1>7. Min({i}) = i
  <2>1. i \in Int
    BY <1>3, <1>4
  <2> QED BY <2>1 DEF Min
<1>8. EntryFor(a, k) = keys[i]
  BY <1>6, <1>7 DEF EntryFor, keys
<1> HIDE DEF T
<1>9. keys[i] \in T
  <2>1. i \in 1..Len(keys)
    BY <1>1, <1>4
  <2> QED BY <1>1, <2>1
<1>10. keys[i].msgKey = n /\ keys[i].wrappedBy[1] = n
  BY <1>9 DEF T
<1> QED BY <1>4, <1>8, <1>10 DEF keys

------------------------------------------------------------------------------
\* What is read of a message, whatever happened to its fields, is the text of one that
\* the sender's key signed for the reader's key, and the message itself unless it has
\* lost all its fields to another one.
LEMMA ReadIsAuthentic ==
  ASSUME MsgInv, NEW m \in Sent, NEW s, NEW k \in KeyPair,
         VerifyAndDecrypt(stored[m], s, k).result \in {"text", "garbage"}
  PROVE  /\ VerifyAndDecrypt(stored[m], s, k).result = "text"
         /\ \E n \in Sent : /\ VerifyAndDecrypt(stored[m], s, k).text = n
                            /\ s = origin[n].by /\ k \in origin[n].to
                            /\ intact[m] # {} => n = m
<1> DEFINE a == stored[m]
<1>0. \A f \in Field : FieldOf(f, a[f], Sent, origin)
  BY DEF MsgInv, FieldsSent
<1>1. /\ IsMessage(a) /\ Verify(a, s) /\ EntriesFor(a, k) # {} /\ Unwraps(a, k)
      /\ VerifyAndDecrypt(a, s, k) = Decrypt(a, k)
  BY DEF VerifyAndDecrypt
<1>2. \A f \in Field : f # "encryptedKey" => \E n \in Sent : a[f] = AsSent(n)[f]
  BY <1>0, <1>1 DEF FieldOf, IsMessage, AsSent, Keys
<1>3. \E n \in Sent : Wraps(a["encryptedKey"], n, Keys(n))
  BY <1>0, <1>1 DEF FieldOf, IsMessage, Keys, Field
<1>4. PICK n \in Sent : a.signature = AsSent(n).signature
  BY <1>2 DEF Field
<1>5. PICK x \in Sent : Wraps(a.encryptedKey, x, Keys(x))
  BY <1>3
<1>6. a.signature = [by |-> s, over |-> SignData(a)]
  BY <1>1 DEF Verify
<1>7. AsSent(n).signature = [by |-> origin[n].by, over |-> SignData(AsSent(n))]
  BY SentFields
<1>8. s = origin[n].by /\ SignData(a) = SignData(AsSent(n))
  <2>1. a.signature.by = s /\ a.signature.over = SignData(a)
    BY <1>6
  <2>2. a.signature.by = origin[n].by /\ a.signature.over = SignData(AsSent(n))
    BY <1>4, <1>7
  <2> QED BY <2>1, <2>2
<1> DEFINE W(y) == [id : KeyPair, msgKey : {y}, wrappedBy : {y} \X KeyPair]
<1>9. a.encryptedKey \in Seq(W(x))
  BY <1>5 DEF Wraps
<1>10. \A y \in Sent : AsSent(y).encryptedKey \in Seq(W(y))
  BY SentFields DEF Wraps
<1> HIDE DEF W
<1>11. /\ a.iv = AsSent(n).iv /\ a.pubECDHE = AsSent(n).pubECDHE
       /\ a.encryptedData = AsSent(n).encryptedData
  BY <1>8, <1>9, <1>10, SignDataInjective
<1>12. /\ a.iv = n /\ a.pubECDHE = n
       /\ a.encryptedData = [text |-> n, key |-> n, iv |-> n, length |-> 1]
  BY <1>11, SentFields
<1>13. PICK i \in EntriesFor(a, k) : TRUE
  BY <1>1
<1>14. /\ i \in 1..Len(Keys(x)) /\ k = Keys(x)[i] /\ EntryFor(a, k) = a.encryptedKey[i]
       /\ a.encryptedKey[i].msgKey = x /\ a.encryptedKey[i].wrappedBy[1] = x
  BY <1>5, <1>13, WrapsOnce
<1>15. a.encryptedKey[i].wrappedBy = <<n, k>>
  BY <1>1, <1>12, <1>14 DEF Unwraps, SharedKey
<1>16. x = n
  BY <1>14, <1>15
<1>17. k \in origin[n].to
  BY <1>14, <1>16, SentFields
<1>18. Decrypt(a, k) = [result |-> "text", text |-> n]
  BY <1>12, <1>14, <1>16 DEF Decrypt
<1>19. ASSUME intact[m] # {} PROVE n = m
  <2>1. PICK f \in intact[m] : f \in Field
    BY <1>19 DEF MsgInv, MsgTypeOK, Sent
  <2>2. a[f] = AsSent(m)[f]
    BY <2>1 DEF MsgInv, IntactAsSent
  <2>3. /\ AsSent(m).iv = m /\ AsSent(m).pubECDHE = m
        /\ AsSent(m).encryptedData = [text |-> m, key |-> m, iv |-> m, length |-> 1]
        /\ AsSent(m).signature = [by |-> origin[m].by, over |-> SignData(AsSent(m))]
        /\ Wraps(AsSent(m).encryptedKey, m, Keys(m))
    BY SentFields
  <2>4. CASE f = "iv"
    BY <1>12, <2>2, <2>3, <2>4
  <2>5. CASE f = "pubECDHE"
    BY <1>12, <2>2, <2>3, <2>5
  <2>6. CASE f = "encryptedData"
    <3>1. a.encryptedData.text = n /\ AsSent(m).encryptedData.text = m
      BY <1>12, <2>3
    <3> QED BY <2>2, <2>6, <3>1
  <2>7. CASE f = "encryptedKey"
    <3>1. Wraps(a.encryptedKey, m, Keys(m))
      BY <2>2, <2>3, <2>7
    <3>2. a.encryptedKey[i].msgKey = m
      BY <1>13, <3>1, WrapsOnce
    <3> QED BY <1>14, <1>16, <3>2
  <2>8. CASE f = "signature"
    <3>1. SignData(a) = SignData(AsSent(m))
      BY <1>6, <2>2, <2>3, <2>8
    <3>2. a.iv = AsSent(m).iv
      BY <1>9, <1>10, <3>1, SignDataInjective
    <3> QED BY <1>12, <2>3, <3>2
  <2> QED BY <2>1, <2>4, <2>5, <2>6, <2>7, <2>8 DEF Field
<1>20. VerifyAndDecrypt(a, s, k) = [result |-> "text", text |-> n]
  BY <1>1, <1>18
<1> QED BY <1>8, <1>17, <1>19, <1>20

\* A message that is as it was sent is read by the keys it was encrypted for.
LEMMA IntactIsRead ==
  ASSUME MsgInv, NEW m \in Sent, intact[m] = Field, NEW s, NEW k \in KeyPair
  PROVE  VerifyAndDecrypt(stored[m], s, k).result = "text"
           <=> k \in origin[m].to /\ s = origin[m].by
<1> DEFINE a == stored[m]
<1>1. \A f \in Field : a[f] = AsSent(m)[f]
  BY DEF MsgInv, IntactAsSent
<1>2. /\ a.iv = m /\ a.pubECDHE = m
      /\ a.encryptedData = [text |-> m, key |-> m, iv |-> m, length |-> 1]
      /\ a.signature = [by |-> origin[m].by, over |-> SignData(AsSent(m))]
      /\ Wraps(a.encryptedKey, m, Keys(m))
      /\ a.encryptedKey = AsSent(m).encryptedKey
      /\ a.iv = AsSent(m).iv /\ a.pubECDHE = AsSent(m).pubECDHE
      /\ a.encryptedData = AsSent(m).encryptedData
  BY <1>1, SentFields DEF Field
<1>3. SignData(a) = SignData(AsSent(m))
  BY <1>2 DEF SignData
<1>4. IsMessage(a)
  <2>1. m \in Msg /\ origin[m].by \in KeyPair /\ origin[m].to \in SUBSET KeyPair
    BY DEF MsgInv, MsgTypeOK, Sent
  <2>2. \A f \in Field : AsSent(m)[f] # Missing
    <3>1. Missing \notin Range(AsSent(m))
      BY <2>1, MissingAssumption DEF AsSent, Keys
    <3>2. DOMAIN AsSent(m) = Field
      BY SentFields
    <3> QED BY <3>1, <3>2 DEF Range
  <2> QED BY <1>1, <2>2 DEF IsMessage
<1>5. Verify(a, s) <=> s = origin[m].by
  BY <1>2, <1>3 DEF Verify
<1>6. ASSUME NEW i \in EntriesFor(a, k)
      PROVE  k \in origin[m].to /\ Unwraps(a, k) /\ Decrypt(a, k).result = "text"
  <2>1. /\ i \in 1..Len(Keys(m)) /\ k = Keys(m)[i] /\ EntryFor(a, k) = a.encryptedKey[i]
        /\ a.encryptedKey[i].msgKey = m
    BY <1>2, <1>6, WrapsOnce
  <2>2. k \in origin[m].to
    BY <2>1, SentFields
  <2>3. a.encryptedKey[i].wrappedBy = <<m, k>>
    <3>1. AsSent(m).encryptedKey[i] = [id |-> Keys(m)[i], msgKey |-> m, wrappedBy |-> <<m, Keys(m)[i]>>]
      BY <2>1, SentFields
    <3>2. a.encryptedKey[i] = [id |-> k, msgKey |-> m, wrappedBy |-> <<m, k>>]
      BY <1>2, <2>1, <3>1
    <3> QED BY <3>2
  <2>4. Unwraps(a, k)
    BY <1>2, <2>1, <2>3 DEF Unwraps, SharedKey
  <2>5. Decrypt(a, k) = [result |-> "text", text |-> m]
    BY <1>2, <2>1 DEF Decrypt
  <2> QED BY <2>2, <2>4, <2>5
<1>7. ASSUME k \in origin[m].to PROVE EntriesFor(a, k) # {}
  <2>1. PICK i \in 1..Len(Keys(m)) : Keys(m)[i] = k
    BY <1>7, SentFields
  <2>2. /\ DOMAIN a.encryptedKey = 1..Len(Keys(m)) /\ a.encryptedKey[i].id = k
    BY <1>2, <2>1, SentFields DEF Wraps
  <2>3. i \in EntriesFor(a, k)
    BY <2>1, <2>2 DEF EntriesFor
  <2> QED BY <2>3
<1> HIDE DEF a
<1>8. CASE Verify(a, s) /\ EntriesFor(a, k) # {}
  <2>1. PICK i \in EntriesFor(a, k) : TRUE
    BY <1>8
  <2>2. k \in origin[m].to /\ Unwraps(a, k) /\ Decrypt(a, k).result = "text"
    BY <1>6, <2>1
  <2>3. VerifyAndDecrypt(a, s, k) = Decrypt(a, k)
    BY <1>4, <1>8, <2>2 DEF VerifyAndDecrypt
  <2> QED BY <1>5, <1>8, <2>2, <2>3 DEF a
<1>9. CASE ~(Verify(a, s) /\ EntriesFor(a, k) # {})
  <2>1. VerifyAndDecrypt(a, s, k).result \in {"validation error", "unknown recipient"}
    BY <1>4, <1>9 DEF VerifyAndDecrypt
  <2>2. ~(k \in origin[m].to /\ s = origin[m].by)
    BY <1>5, <1>7, <1>9
  <2> QED BY <2>1, <2>2 DEF a
<1> QED BY <1>8, <1>9

------------------------------------------------------------------------------
\* What was read stays as it was when the sent messages keep their origins.
LEMMA LastKept ==
  ASSUME MsgInv, last' = last, Sent \subseteq Sent', \A n \in Sent : origin'[n] = origin[n]
  PROVE  ReadSent' /\ OnlyAuthenticTexts' /\ RecipientsCanRead'
<1>1. WasRead' = WasRead
  BY DEF WasRead
<1>2. ReadSent'
  BY <1>1 DEF MsgInv, ReadSent
<1>3. OnlyAuthenticTexts'
  <2> SUFFICES ASSUME last.outcome.result \in {"text", "garbage"} PROVE OnlyAuthenticTexts'
    BY DEF OnlyAuthenticTexts
  <2>1. /\ last.outcome.result = "text" /\ last.sender = origin[last.outcome.text].by
        /\ last.reader \in origin[last.outcome.text].to
        /\ last.intact # {} => last.outcome.text = last.msg
    BY DEF MsgInv, OnlyAuthenticTexts
  <2>2. last.outcome.text \in Sent
    BY <2>1 DEF MsgInv, ReadSent, WasRead
  <2>3. origin'[last.outcome.text] = origin[last.outcome.text]
    BY <2>2
  <2> QED BY <2>1, <2>3 DEF OnlyAuthenticTexts
<1>4. RecipientsCanRead'
  <2> SUFFICES ASSUME WasRead, last.intact = Field PROVE RecipientsCanRead'
    BY <1>1 DEF RecipientsCanRead
  <2>1. (last.outcome.result = "text") = (/\ last.reader \in origin[last.msg].to
                                          /\ last.sender = origin[last.msg].by)
    BY DEF MsgInv, RecipientsCanRead
  <2>2. origin'[last.msg] = origin[last.msg]
    BY DEF MsgInv, ReadSent
  <2> QED BY <2>1, <2>2 DEF RecipientsCanRead
<1> QED BY <1>2, <1>3, <1>4

\* The users' keys have their types.
LEMMA CurrentKey ==
  ASSUME MsgInv, NEW u \in User
  PROVE  Current(u) \in KeyPair
BY DEF MsgInv, MsgTypeOK, Current, KeyPair

\* The initial states satisfy the invariant.
LEMMA MsgInitInv == MsgInit => MsgInv
<1> SUFFICES ASSUME MsgInit PROVE MsgInv
  OBVIOUS
<1>1. Sent = {}
  BY DEF MsgInit, Sent
<1>2. MsgTypeOK
  BY <1>1, P2PMessageAssumption DEF MsgInit, MsgTypeOK
<1>3. Functional /\ FieldsSent /\ IntactAsSent
  BY <1>1 DEF MsgInit, Functional, FieldsSent, IntactAsSent
<1>4. last.outcome.result = "none"
  BY DEF MsgInit
<1>5. ReadSent /\ OnlyAuthenticTexts /\ RecipientsCanRead
  BY <1>4 DEF ReadSent, OnlyAuthenticTexts, RecipientsCanRead, WasRead
<1> QED BY <1>2, <1>3, <1>5 DEF MsgInv

\* A step that leaves the messages and what was read alone.
LEMMA MsgFrame ==
  ASSUME MsgInv, UNCHANGED <<stored, origin, intact, last>>,
         gen' \in [User -> 0..MaxRotations], damage' \in 0..MaxDamage
  PROVE  MsgInv'
<1>1. Sent' = Sent
  BY DEF Sent
<1>2. MsgTypeOK'
  BY <1>1 DEF MsgInv, MsgTypeOK
<1>3. Functional'
  BY <1>1 DEF MsgInv, Functional
<1>4. FieldsSent'
  BY <1>1 DEF MsgInv, FieldsSent
<1>5. IntactAsSent'
  BY <1>1 DEF MsgInv, IntactAsSent, AsSent, Keys
<1>6. ReadSent' /\ OnlyAuthenticTexts' /\ RecipientsCanRead'
  BY <1>1, LastKept
<1> QED BY <1>2, <1>3, <1>4, <1>5, <1>6 DEF MsgInv

\* A message is encrypted.
LEMMA SendStep ==
  ASSUME MsgInv, NEW m \in Msg, NEW u \in User, NEW to \in SUBSET User, Send(m, u, to)
  PROVE  MsgInv'
<1> DEFINE S == {Current(v) : v \in to}
<1> DEFINE keys == SetToSeq(S)
<1> DEFINE by == Current(u)
<1> DEFINE msg == Encrypt(m, by, keys)
<1> DEFINE org == [by |-> by, to |-> S]
<1>1. /\ m \notin Sent /\ stored' = [stored EXCEPT ![m] = msg]
      /\ origin' = [origin EXCEPT ![m] = org] /\ intact' = [intact EXCEPT ![m] = Field]
      /\ gen' = gen /\ damage' = damage /\ last' = last
  BY DEF Send
<1>2. IsFiniteSet(S)
  BY KeysFinite
<1>3. S \subseteq KeyPair /\ by \in KeyPair
  BY CurrentKey
<1> HIDE DEF S, by
<1>4. /\ keys \in Seq(S) /\ Len(keys) \in Nat /\ DOMAIN keys = 1..Len(keys)
  BY <1>2, SetToSeqOnce
<1>5. keys \in Seq(KeyPair)
  <2> HIDE DEF keys
  <2>1. \A i \in 1..Len(keys) : keys[i] \in S
    BY <1>4
  <2>2. keys \in [1..Len(keys) -> KeyPair]
    BY <1>3, <1>4, <2>1
  <2> QED BY <1>4, <2>2, FunctionIsSeq
<1>6. DOMAIN msg = Field /\ Wraps(msg.encryptedKey, m, keys)
  <2> HIDE DEF keys
  <2> QED BY <1>5, EncryptFields
<1>7. org.by = by /\ org.to = S
  OBVIOUS
<1>8. /\ origin'[m] = org /\ stored'[m] = msg /\ intact'[m] = Field
      /\ \A n \in Msg : n # m => /\ origin'[n] = origin[n] /\ stored'[n] = stored[n]
                                /\ intact'[n] = intact[n]
  BY <1>1 DEF MsgInv, MsgTypeOK, Functional
<1>9. Sent \subseteq Sent' /\ Sent' \subseteq Sent \cup {m} /\ \A n \in Sent : n # m /\ n \in Msg
  BY <1>1, <1>8 DEF Sent
<1>10. MsgTypeOK'
  <2>1. /\ gen' \in [User -> 0..MaxRotations] /\ damage' \in 0..MaxDamage
        /\ intact' \in [Msg -> SUBSET Field]
    BY <1>1 DEF MsgInv, MsgTypeOK
  <2>2. ASSUME NEW n \in Sent'
        PROVE  /\ DOMAIN stored'[n] = Field
               /\ origin'[n].by \in KeyPair /\ origin'[n].to \subseteq KeyPair
    <3>1. CASE n = m
      BY <1>3, <1>6, <1>7, <1>8, <3>1
    <3>2. CASE n \in Sent
      BY <1>8, <1>9, <3>2 DEF MsgInv, MsgTypeOK
    <3> QED BY <1>9, <3>1, <3>2
  <2> QED BY <2>1, <2>2 DEF MsgTypeOK
<1>11. Functional'
  <2>1. stored' = [n \in Msg |-> stored'[n]] /\ origin' = [n \in Msg |-> origin'[n]]
    BY <1>1 DEF MsgInv, Functional
  <2>2. ASSUME NEW n \in Sent' PROVE IsFiniteSet(origin'[n].to)
    <3>1. CASE n = m
      BY <1>2, <1>7, <1>8, <3>1
    <3>2. CASE n \in Sent
      BY <1>8, <1>9, <3>2 DEF MsgInv, Functional
    <3> QED BY <1>9, <3>1, <3>2
  <2> QED BY <2>1, <2>2 DEF Functional
<1>12. FieldsSent'
  <2> SUFFICES ASSUME NEW n \in Sent', NEW f \in Field
               PROVE  FieldOf(f, stored'[n][f], Sent', origin')
    BY DEF FieldsSent
  <2>1. CASE n = m
    <3>1. SetToSeq(origin'[m].to) = keys /\ origin'[m].by = by
      BY <1>7, <1>8
    <3>2. stored'[m][f] = Encrypt(m, by, keys)[f]
      BY <1>8
    <3>3. f = "encryptedKey" => Wraps(stored'[m][f], m, keys)
      BY <1>6, <1>8
    <3> HIDE DEF keys
    <3> QED BY <2>1, <3>1, <3>2, <3>3 DEF FieldOf
  <2>2. CASE n \in Sent
    <3>1. FieldOf(f, stored[n][f], Sent, origin)
      BY <2>2 DEF MsgInv, FieldsSent
    <3>2. stored'[n][f] = stored[n][f]
      BY <1>8, <1>9, <2>2
    <3>3. \A x \in Sent : x \in Sent' /\ origin'[x] = origin[x]
      BY <1>8, <1>9
    <3> QED BY <3>1, <3>2, <3>3 DEF FieldOf
  <2> QED BY <1>9, <2>1, <2>2
<1>13. IntactAsSent'
  <2> SUFFICES ASSUME NEW n \in Sent', NEW f \in intact'[n]
               PROVE  stored'[n][f] = AsSent(n)'[f]
    BY DEF IntactAsSent
  <2>1. CASE n = m
    <3>1. AsSent(m)' = Encrypt(m, by, keys)
      BY <1>7, <1>8 DEF AsSent, Keys
    <3> QED BY <1>8, <2>1, <3>1
  <2>2. CASE n \in Sent
    <3>1. AsSent(n)' = AsSent(n)
      BY <1>8, <1>9, <2>2 DEF AsSent, Keys
    <3> QED BY <1>8, <1>9, <2>2, <3>1 DEF MsgInv, IntactAsSent
  <2> QED BY <1>9, <2>1, <2>2
<1>14. ReadSent' /\ OnlyAuthenticTexts' /\ RecipientsCanRead'
  BY <1>1, <1>8, <1>9, LastKept
<1> QED BY <1>10, <1>11, <1>12, <1>13, <1>14 DEF MsgInv

\* A field of a stored message gets a value that it may have, and is not intact any more.
LEMMA FieldStep ==
  ASSUME MsgInv, NEW m \in Sent, NEW f \in Field, NEW v, FieldOf(f, v, Sent, origin),
         stored' = [stored EXCEPT ![m][f] = v], intact' = [intact EXCEPT ![m] = @ \ {f}],
         damage' \in 0..MaxDamage, UNCHANGED <<gen, origin, last>>
  PROVE  MsgInv'
<1>1. Sent' = Sent /\ m \in Msg
  BY DEF Sent
<1>2. DOMAIN stored[m] = Field
  BY DEF MsgInv, MsgTypeOK
<1>3. /\ stored' = [n \in Msg |-> stored'[n]]
      /\ DOMAIN stored'[m] = Field /\ stored'[m][f] = v
      /\ \A g \in Field : g # f => stored'[m][g] = stored[m][g]
      /\ \A n \in Msg : n # m => stored'[n] = stored[n]
  BY <1>1, <1>2 DEF MsgInv, Functional
<1>4. /\ intact' \in [Msg -> SUBSET Field] /\ intact'[m] = intact[m] \ {f}
      /\ \A n \in Msg : n # m => intact'[n] = intact[n]
  BY <1>1 DEF MsgInv, MsgTypeOK
<1>5. \A n \in Sent : n \in Msg /\ DOMAIN stored'[n] = Field
  BY <1>3 DEF MsgInv, MsgTypeOK, Sent
<1>6. MsgTypeOK'
  BY <1>1, <1>4, <1>5 DEF MsgInv, MsgTypeOK
<1>7. Functional'
  BY <1>1, <1>3 DEF MsgInv, Functional
<1>8. FieldsSent'
  <2> SUFFICES ASSUME NEW n \in Sent, NEW g \in Field
               PROVE  FieldOf(g, stored'[n][g], Sent, origin)
    BY <1>1 DEF FieldsSent
  <2>1. FieldOf(g, stored[n][g], Sent, origin)
    BY DEF MsgInv, FieldsSent
  <2>2. stored'[n][g] = stored[n][g] \/ (g = f /\ stored'[n][g] = v)
    BY <1>3, <1>5
  <2> QED BY <2>1, <2>2
<1>9. IntactAsSent'
  <2> SUFFICES ASSUME NEW n \in Sent, NEW g \in intact'[n]
               PROVE  stored'[n][g] = AsSent(n)'[g]
    BY <1>1 DEF IntactAsSent
  <2>1. AsSent(n)' = AsSent(n)
    BY DEF AsSent, Keys
  <2>2. g \in Field /\ n \in Msg
    BY <1>4, <1>5
  <2>3. g \in intact[n] /\ stored'[n][g] = stored[n][g]
    BY <1>3, <1>4, <2>2
  <2> QED BY <2>1, <2>3 DEF MsgInv, IntactAsSent
<1>10. ReadSent' /\ OnlyAuthenticTexts' /\ RecipientsCanRead'
  BY <1>1, LastKept
<1> QED BY <1>6, <1>7, <1>8, <1>9, <1>10 DEF MsgInv

\* A field is lost, or replaced by another message's.
LEMMA DamageStep ==
  ASSUME MsgInv, NEW m \in Msg, NEW f \in Field, Damage(m, f)
  PROVE  MsgInv'
<1>1. PICK v \in {Missing} \cup {stored[n][f] : n \in Sent \ {m}} :
        stored' = [stored EXCEPT ![m][f] = v]
  BY DEF Damage
<1>2. /\ m \in Sent /\ damage < MaxDamage /\ damage' = damage + 1
      /\ intact' = [intact EXCEPT ![m] = @ \ {f}] /\ UNCHANGED <<gen, origin, last>>
  BY DEF Damage
<1>3. FieldOf(f, v, Sent, origin)
  <2>1. CASE v = Missing
    BY <2>1 DEF FieldOf
  <2>2. CASE \E n \in Sent : v = stored[n][f]
    BY <2>2 DEF MsgInv, FieldsSent
  <2> QED BY <1>1, <2>1, <2>2
<1>4. damage' \in 0..MaxDamage
  BY <1>2, P2PMessageAssumption DEF MsgInv, MsgTypeOK
<1> QED BY <1>1, <1>2, <1>3, <1>4, FieldStep

\* The wrapped key of a recipient is replaced by another recipient's.
LEMMA SwapStep ==
  ASSUME MsgInv, NEW m \in Msg, SwapWraps(m)
  PROVE  MsgInv'
<1> DEFINE keys == stored[m].encryptedKey
<1> DEFINE entry == [keys[2] EXCEPT !.id = keys[1].id]
<1> DEFINE v == [keys EXCEPT ![1] = entry]
<1>1. /\ m \in Sent /\ keys # Missing /\ Len(keys) > 1
      /\ stored' = [stored EXCEPT ![m].encryptedKey = v]
      /\ damage < MaxDamage /\ damage' = damage + 1
      /\ intact' = [intact EXCEPT ![m] = @ \ {"encryptedKey"}]
      /\ UNCHANGED <<gen, origin, last>>
  BY DEF SwapWraps
<1>2. FieldOf("encryptedKey", keys, Sent, origin)
  BY <1>1 DEF MsgInv, FieldsSent, Field
<1> HIDE DEF keys
<1>3. PICK n \in Sent : Wraps(keys, n, Keys(n))
  BY <1>1, <1>2 DEF FieldOf, Keys
<1> DEFINE T == [id : KeyPair, msgKey : {n}, wrappedBy : {n} \X KeyPair]
<1>4. /\ keys \in Seq(T) /\ Len(keys) = Len(Keys(n))
      /\ \A i \in 1..Len(Keys(n)) : keys[i].id = Keys(n)[i]
  BY <1>3 DEF Wraps
<1>5. entry \in T /\ entry.id = keys[1].id
  <2>1. 1 \in 1..Len(keys) /\ 2 \in 1..Len(keys)
    BY <1>1, <1>4
  <2>2. keys[1] \in T /\ keys[2] \in T
    <3> HIDE DEF T
    <3> QED BY <1>4, <2>1
  <2> QED BY <2>2
<1> HIDE DEF T, entry
<1>6. Len(keys) \in Nat /\ DOMAIN keys = 1..Len(keys) /\ \A i \in 1..Len(keys) : keys[i] \in T
  BY <1>4
<1>7. /\ v \in [1..Len(keys) -> T]
      /\ \A i \in 1..Len(keys) : v[i].id = keys[i].id
  BY <1>5, <1>6
<1> HIDE DEF v
<1>8. v \in Seq(T) /\ Len(v) = Len(keys)
  BY <1>6, <1>7, FunctionIsSeq
<1>9. Wraps(v, n, Keys(n))
  BY <1>4, <1>7, <1>8 DEF Wraps, T
<1>10. FieldOf("encryptedKey", v, Sent, origin)
  BY <1>9 DEF FieldOf, Keys
<1>11. damage' \in 0..MaxDamage
  BY <1>1, P2PMessageAssumption DEF MsgInv, MsgTypeOK
<1>12. "encryptedKey" \in Field
  BY DEF Field
<1>13. stored' = [stored EXCEPT ![m]["encryptedKey"] = v]
  BY <1>1
<1> QED BY <1>1, <1>10, <1>11, <1>12, <1>13, FieldStep

\* A post is read.
LEMMA ReadMsgStep ==
  ASSUME MsgInv, NEW m \in Msg, NEW reader \in User, Read(m, reader)
  PROVE  MsgInv'
<1> DEFINE s == Current(origin[m].by[1])
<1> DEFINE k == Current(reader)
<1> DEFINE o == VerifyAndDecrypt(stored[m], s, k)
<1>1. /\ m \in Sent /\ UNCHANGED <<gen, stored, damage, origin, intact>>
      /\ last' = [outcome |-> o, msg |-> m, reader |-> k, sender |-> s, intact |-> intact[m]]
  BY DEF Read
<1>2. k \in KeyPair
  BY CurrentKey
<1> HIDE DEF s, k
<1>3. o.result \in {"text", "garbage"} =>
        /\ o.result = "text"
        /\ o.text \in Sent /\ s = origin[o.text].by /\ k \in origin[o.text].to
        /\ intact[m] # {} => o.text = m
  <2> SUFFICES ASSUME o.result \in {"text", "garbage"}
               PROVE  /\ o.result = "text"
                      /\ o.text \in Sent /\ s = origin[o.text].by /\ k \in origin[o.text].to
                      /\ intact[m] # {} => o.text = m
    OBVIOUS
  <2>1. /\ o.result = "text"
        /\ \E n \in Sent : /\ o.text = n /\ s = origin[n].by /\ k \in origin[n].to
                           /\ intact[m] # {} => n = m
    BY <1>1, <1>2, ReadIsAuthentic
  <2> HIDE DEF o
  <2> QED BY <2>1
<1>4. intact[m] = Field => (o.result = "text") = (k \in origin[m].to /\ s = origin[m].by)
  BY <1>1, <1>2, IntactIsRead
<1> HIDE DEF o
<1>5. /\ last'.outcome = o /\ last'.msg = m /\ last'.reader = k /\ last'.sender = s
      /\ last'.intact = intact[m]
  BY <1>1
<1>6. Sent' = Sent
  BY <1>1 DEF Sent
<1>7. MsgTypeOK' /\ Functional'
  BY <1>1, <1>6 DEF MsgInv, MsgTypeOK, Functional
<1>8. FieldsSent' /\ IntactAsSent'
  BY <1>1, <1>6 DEF MsgInv, FieldsSent, IntactAsSent, AsSent, Keys
<1>9. ReadSent'
  BY <1>1, <1>3, <1>5, <1>6 DEF ReadSent
<1>10. OnlyAuthenticTexts'
  BY <1>1, <1>3, <1>5 DEF OnlyAuthenticTexts
<1>11. RecipientsCanRead'
  BY <1>1, <1>4, <1>5 DEF RecipientsCanRead
<1> QED BY <1>7, <1>8, <1>9, <1>10, <1>11 DEF MsgInv

\* Each action of P2PMessage keeps the invariant.
LEMMA MsgInvStep == MsgInv /\ [MsgNext]_msgVars => MsgInv'
<1> SUFFICES ASSUME MsgInv, [MsgNext]_msgVars PROVE MsgInv'
  OBVIOUS
<1>1. ASSUME NEW u \in User, Rotate(u) PROVE MsgInv'
  <2>1. /\ gen[u] < MaxRotations /\ gen' = [gen EXCEPT ![u] = gen[u] + 1]
        /\ UNCHANGED <<stored, damage, origin, intact, last>>
    BY <1>1 DEF Rotate
  <2>2. gen \in [User -> 0..MaxRotations] /\ damage \in 0..MaxDamage
    BY DEF MsgInv, MsgTypeOK
  <2>3. gen' \in [User -> 0..MaxRotations] /\ damage' \in 0..MaxDamage
    BY <2>1, <2>2, P2PMessageAssumption
  <2> QED BY <2>1, <2>3, MsgFrame
<1>2. ASSUME NEW m \in Msg, NEW u \in User, NEW to \in SUBSET User, Send(m, u, to) PROVE MsgInv'
  BY <1>2, SendStep
<1>3. ASSUME NEW m \in Msg, SwapWraps(m) PROVE MsgInv'
  BY <1>3, SwapStep
<1>4. ASSUME NEW m \in Msg, NEW f \in Field, Damage(m, f) PROVE MsgInv'
  BY <1>4, DamageStep
<1>5. ASSUME NEW m \in Msg, NEW reader \in User, Read(m, reader) PROVE MsgInv'
  BY <1>5, ReadMsgStep
<1>6. CASE UNCHANGED msgVars
  <2>1. gen' \in [User -> 0..MaxRotations] /\ damage' \in 0..MaxDamage
    BY <1>6 DEF MsgInv, MsgTypeOK, msgVars
  <2> QED BY <1>6, <2>1, MsgFrame DEF msgVars
<1> QED BY <1>1, <1>2, <1>3, <1>4, <1>5, <1>6 DEF MsgNext

\* In every behaviour of P2PMessage, the fields of the stored messages are those of
\* messages that were sent, or lost, and what was read of them is authentic.
THEOREM MsgInvariance == MsgSpec => []MsgInv
BY MsgInitInv, MsgInvStep, PTL DEF MsgSpec

\* The variables of P2PMessage keep their types.
THEOREM MsgTypeCorrect == MsgSpec => []MsgTypeOK
<1>1. MsgInv => MsgTypeOK
  BY DEF MsgInv
<1> QED BY <1>1, MsgInvariance, PTL

\* decryptPost displays what the author signed for this reader or nothing: however many
\* fields of the messages of any number of users are lost or exchanged, and however often
\* the users replace their keys.
THEOREM TextsAreAuthentic == MsgSpec => []OnlyAuthenticTexts
<1>1. MsgInv => OnlyAuthenticTexts
  BY DEF MsgInv
<1> QED BY <1>1, MsgInvariance, PTL

\* encryptPost and decryptPost agree: every recipient can read an intact message while
\* its author keeps the key, and nobody else can.
THEOREM RecipientsRead == MsgSpec => []RecipientsCanRead
<1>1. MsgInv => RecipientsCanRead
  BY DEF MsgInv
<1> QED BY <1>1, MsgInvariance, PTL
==============================================================================
