--------------------------- MODULE DisplayProofs ----------------------------
(***************************************************************************)
(* What a tab displays.  ChannelStatus and Icon, for every set of tabs,    *)
(* calls and set requests: their types, that an idle tab knows the         *)
(* server's method unless it was overtaken, and that the lock shows what   *)
(* the tab knows.  ReadPost, for every set of posts and every size of the  *)
(* cache: its types, that the last effect of a post shows its version, and *)
(* what an insertion into the cache evicts.                                *)
(***************************************************************************)
EXTENDS Icon, ReadPost, FiniteSetTheorems, SequenceTheorems, WellFoundedInduction, TLAPS

------------------------------------------------------------------------------
\* The server.

\* The requests and the register have their types.
ServerType == /\ mode[TheChan] \in Server!Method
              /\ mode = [c \in {TheChan} |-> mode[c]]
              /\ asked \in [Request -> Server!Call \cup {Server!NoCall}]
              /\ result \in [Request -> Server!Result]
              /\ stored \in Seq(Request) /\ sent \subseteq Request

\* What is decided was asked.
DecidedAsked == \A r \in Request : result[r] # "pending" => asked[r] # Server!NoCall

\* The stored requests were decided, those that report a change are among them, and
\* each of them is there once.
StoredDecided == \A i \in 1..Len(stored) : result[stored[i]] \in {"changed", "error"}
ChangedStored == \A r \in Request : result[r] = "changed" => \E i \in 1..Len(stored) : stored[i] = r
StoredOnce == \A i, j \in 1..Len(stored) : stored[i] = stored[j] => i = j
StoredSet == {stored[i] : i \in 1..Len(stored)}
StoredCounted == Len(stored) = Cardinality(StoredSet)
SentChanged == \A r \in sent : result[r] = "changed"

\* The method of the channel after the first a changes.
MethodAt(a) == IF a = 0 THEN "none" ELSE asked[stored[a]].arg

\* The register is that after all of them.
ModeIsLast == mode[TheChan] = MethodAt(Len(stored))

ServerInv == /\ ServerType /\ DecidedAsked
             /\ StoredDecided /\ ChangedStored /\ StoredOnce /\ StoredCounted
             /\ SentChanged /\ ModeIsLast

------------------------------------------------------------------------------
\* The tabs.

\* A method with its right age.
Right(m) == m.age \in 0..Len(stored) /\ m.method = MethodAt(m.age)

\* The methods that the tabs hold, or that are under way to them, are right.
StatusRight == \A k \in Client : status[k] # Unknown => Right(status[k])
InboxRight == \A k \in Client : \A n \in 1..Len(inbox[k]) :
                inbox[k][n] # Left => Right(inbox[k][n])
FetchRight == \A k \in Client, x \in Caller : fetch[k][x] \in Known => Right(fetch[k][x])

\* A change that was published is in the inbox of a tab that is connected and in the
\* channel, or the tab hears no more about it.
Heard == \A k \in Client : online[k] /\ joined[k] =>
           \A i \in 1..Len(stored) : stored[i] \in sent =>
             \/ i <= sync[k]
             \/ \E n \in 1..Len(inbox[k]) : inbox[k][n] # Left /\ inbox[k][n].age = i

\* A status that was not overtaken is as new as what the tab hears no more about, or it
\* will be forgotten.
StatusNew == \A k \in Client : online[k] /\ status[k] # Unknown /\ ~late[k] =>
               \/ joined[k] /\ sync[k] <= status[k].age
               \/ \E n \in 1..Len(inbox[k]) : inbox[k][n] = Left

\* The inductive invariant of ChannelStatus, ...
StatusInv == /\ ServerInv /\ TypeOK
             /\ StatusRight /\ InboxRight /\ FetchRight /\ Heard /\ StatusNew

\* ... and that of Icon.
IInv == StatusInv /\ IconTypeOK /\ LockShowsStatus

------------------------------------------------------------------------------
\* The server.

\* The fields of what was asked.
LEMMA CallFields ==
  ASSUME NEW c \in Server!Call
  PROVE  /\ c.op \in {"set", "get"} /\ c.chan = TheChan /\ c.arg \in Server!Method
         /\ c # Server!NoCall
BY DEF Server!Call, Server!NoCall

\* There are no more changes than requests.
LEMMA Bounded ==
  ASSUME ServerInv
  PROVE  /\ Cardinality(Request) \in Nat /\ Len(stored) \in Nat
         /\ Len(stored) <= Cardinality(Request)
<1>1. Cardinality(Request) \in Nat
  BY RequestAssumption, FS_CardinalityType
<1>2. StoredSet \in SUBSET Request
  BY DEF ServerInv, ServerType, StoredSet
<1>3. Cardinality(StoredSet) <= Cardinality(Request)
  BY <1>2, RequestAssumption, FS_Subset
<1>4. Len(stored) = Cardinality(StoredSet) /\ stored \in Seq(Request)
  BY DEF ServerInv, StoredCounted, ServerType
<1> QED BY <1>1, <1>3, <1>4

\* The count stays right when nothing is stored.
LEMMA CountFrame == StoredCounted /\ stored' = stored => StoredCounted'
<1>1. stored' = stored => StoredSet' = StoredSet
  BY DEF StoredSet
<1> QED BY <1>1 DEF StoredCounted

\* What is asked for in a change, and the age of the change.
LEMMA StoredFields ==
  ASSUME ServerInv, NEW i \in 1..Len(stored)
  PROVE  /\ stored[i] \in Request /\ result[stored[i]] \in {"changed", "error"}
         /\ asked[stored[i]] \in Server!Call
         /\ asked[stored[i]].arg \in Server!Method
         /\ Age(stored[i]) = i
<1>1. stored[i] \in Request /\ DOMAIN stored = 1..Len(stored)
  BY DEF ServerInv, ServerType
<1>2. result[stored[i]] \in {"changed", "error"}
  BY DEF ServerInv, StoredDecided
<1>3. asked[stored[i]] \in Server!Call
  BY <1>1, <1>2 DEF ServerInv, ServerType, DecidedAsked
<1>4. \A j \in 1..Len(stored) : stored[j] = stored[i] => j = i
  BY DEF ServerInv, StoredOnce
<1>5. Age(stored[i]) = i
  BY <1>1, <1>4 DEF Age
<1> QED BY <1>1, <1>2, <1>3, <1>5, CallFields

\* A request that changed the method has an age.
LEMMA ChangedAge ==
  ASSUME ServerInv, NEW r \in Request, result[r] = "changed"
  PROVE  Age(r) \in 1..Len(stored) /\ stored[Age(r)] = r
<1>1. PICK i \in 1..Len(stored) : stored[i] = r
  BY DEF ServerInv, ChangedStored
<1> QED BY <1>1, StoredFields

\* The methods the channel has had are methods.
LEMMA MethodAtType ==
  ASSUME ServerInv, NEW a \in 0..Len(stored)
  PROVE  MethodAt(a) \in Server!Method
<1>1. CASE a = 0
  BY <1>1 DEF MethodAt, Server!Method
<1>2. CASE a # 0
  <2>1. a \in 1..Len(stored)
    BY <1>2, Bounded
  <2> QED BY <1>2, <2>1, StoredFields DEF MethodAt
<1> QED BY <1>1, <1>2

\* A set of numbers that is not empty has a least one.
LEMMA Least ==
  ASSUME NEW T, T \subseteq Nat, T # {}
  PROVE  \E x \in T : \A y \in T : ~(y < x)
<1> DEFINE R == {ss \in Nat \X Nat : ss[1] < ss[2]}
<1>1. IsWellFoundedOn(R, Nat)
  BY NatLessThanWellFounded DEF OpToRel
<1> HIDE DEF R
<1>2. PICK x \in T : \A y \in T : ~(<<y, x>> \in R)
  BY <1>1, WFMin
<1>3. \A y \in T : ~(y < x)
  BY <1>2 DEF R
<1> QED BY <1>3

\* A set of numbers up to n that is not empty has a greatest one.
LEMMA Greatest ==
  ASSUME NEW n \in Nat, NEW S, S \subseteq 0..n, S # {}
  PROVE  \E a \in S : \A b \in S : b <= a
<1> DEFINE T == {n - a : a \in S}
<1>0. \A a \in S : n - a \in Nat
  OBVIOUS
<1>1. T \subseteq Nat /\ T # {}
  BY <1>0
<1>2. PICK x \in T : \A y \in T : ~(y < x)
  BY <1>1, Least
<1>3. PICK a \in S : x = n - a
  OBVIOUS
<1>4. \A b \in S : n - b \in T
  OBVIOUS
<1>5. \A b \in S : ~(n - b < n - a)
  BY <1>2, <1>3, <1>4
<1>6. \A b \in S : b <= a
  BY <1>5
<1> QED BY <1>6

\* What was published is no newer than Published, which is no newer than the register.
LEMMA PublishedFacts ==
  ASSUME ServerInv
  PROVE  /\ Published \in 0..Len(stored)
         /\ \A i \in 1..Len(stored) : stored[i] \in sent => i <= Published
<1> DEFINE ages == {0} \cup {Age(r) : r \in sent}
<1>1. \A r \in sent : Age(r) \in 1..Len(stored)
  BY ChangedAge DEF ServerInv, ServerType, SentChanged
<1>2. Len(stored) \in Nat
  BY Bounded
<1>3. ages \subseteq 0..Len(stored) /\ ages # {}
  BY <1>1, <1>2
<1>4. \A i \in 1..Len(stored) : stored[i] \in sent => i \in ages
  BY StoredFields
<1>5. Published = CHOOSE a \in ages : \A b \in ages : b <= a
  BY DEF Published
<1> HIDE DEF ages
<1>6. \E a \in ages : \A b \in ages : b <= a
  BY <1>2, <1>3, Greatest
<1>7. Published \in ages /\ \A b \in ages : b <= Published
  BY <1>5, <1>6
<1> QED BY <1>3, <1>4, <1>7

\* What no step does to the changes that were stored, and to those that were sent.
Grows == /\ Len(stored) <= Len(stored')
         /\ \A i \in 1..Len(stored) : /\ stored'[i] = stored[i]
                                      /\ asked'[stored[i]] = asked[stored[i]]

\* The initial states satisfy the server's part of the invariant.
LEMMA ServerInit == Init => ServerInv
<1> SUFFICES ASSUME Init PROVE ServerInv
  OBVIOUS
<1> USE DEF Init, Server!AInit, Server!Method, Server!Result
<1>1. ServerType
  BY DEF ServerType
<1>2. DecidedAsked /\ StoredDecided /\ ChangedStored /\ StoredOnce /\ SentChanged
  BY DEF DecidedAsked, StoredDecided, ChangedStored, StoredOnce, SentChanged
<1>3. StoredSet = {} /\ Len(stored) = 0
  BY DEF StoredSet
<1>4. StoredCounted
  BY <1>3, FS_EmptySet DEF StoredCounted
<1>5. ModeIsLast
  BY DEF ModeIsLast, MethodAt
<1> QED BY <1>1, <1>2, <1>4, <1>5 DEF ServerInv

\* A request arrives.
LEMMA SetStep ==
  ASSUME ServerInv, NEW r \in Request, NEW m \in Server!Method, Set(r, m)
  PROVE  ServerInv' /\ Grows
<1> DEFINE call == [op |-> "set", chan |-> TheChan, arg |-> m]
<1>1. /\ asked[r] = Server!NoCall /\ asked' = [asked EXCEPT ![r] = call]
      /\ mode' = mode /\ result' = result /\ stored' = stored /\ sent' = sent
  BY DEF Set, Server!Invoke
<1>2. call \in Server!Call
  BY DEF Server!Call
<1> HIDE DEF call
<1>3. ServerType'
  BY <1>1, <1>2 DEF ServerInv, ServerType
<1>4. \A q \in Request : q # r => asked'[q] = asked[q]
  BY <1>1 DEF ServerInv, ServerType
<1>5. \A i \in 1..Len(stored) : stored[i] \in Request /\ stored[i] # r
  BY <1>1, StoredFields, CallFields
<1>6. Grows
  BY <1>1, <1>4, <1>5, Bounded DEF Grows
<1>7. result[r] = "pending"
  BY <1>1 DEF ServerInv, DecidedAsked
<1>8. DecidedAsked'
  BY <1>1, <1>4, <1>7 DEF ServerInv, DecidedAsked
<1>9. StoredDecided' /\ ChangedStored' /\ StoredOnce' /\ StoredCounted' /\ SentChanged'
  BY <1>1, CountFrame DEF ServerInv, StoredDecided, ChangedStored, StoredOnce, SentChanged
<1>10. ModeIsLast'
  <2>1. CASE Len(stored) = 0
    BY <1>1, <2>1 DEF ServerInv, ModeIsLast, MethodAt
  <2>2. CASE Len(stored) # 0
    <3>1. Len(stored) \in 1..Len(stored)
      BY <2>2, Bounded
    <3> QED BY <1>1, <1>6, <2>2, <3>1 DEF ServerInv, ModeIsLast, MethodAt, Grows
  <2> QED BY <2>1, <2>2
<1> QED BY <1>3, <1>6, <1>8, <1>9, <1>10 DEF ServerInv

\* A request is decided.
LEMMA DecideStep ==
  ASSUME ServerInv, NEW r \in Request, Decide(r)
  PROVE  /\ ServerInv' /\ Grows /\ sent' = sent
         /\ \A i \in 1..Len(stored') : i \notin 1..Len(stored) => stored'[i] \notin sent
<1>1. sent' = sent
  BY DEF Decide
<1>2. /\ asked[r].op = "set" /\ result[r] = "pending" /\ asked' = asked
      /\ mode' \in {mode, [mode EXCEPT ![asked[r].chan] = asked[r].arg]}
      /\ stored' = IF mode' = mode THEN stored ELSE Append(stored, r)
  BY DEF Decide, Server!Change, Server!Keep, Server!Fail, Server!Undecided, Server!Decide
<1>3. PICK res \in {"changed", "same", "error"} :
        /\ result' = [result EXCEPT ![r] = res]
        /\ res = "same" => mode' = mode
        /\ res = "changed" => /\ mode[asked[r].chan] # asked[r].arg
                              /\ mode' = [mode EXCEPT ![asked[r].chan] = asked[r].arg]
  <2>1. CASE Server!Change(r)
    BY <2>1 DEF Server!Change, Server!Decide
  <2>2. CASE Server!Keep(r)
    BY <2>2 DEF Server!Keep, Server!Decide
  <2>3. CASE Server!Fail(r)
    BY <2>3 DEF Server!Fail, Server!Decide
  <2> QED BY <2>1, <2>2, <2>3 DEF Decide
<1>4. asked[r] \in Server!Call /\ asked[r] # Server!NoCall
  BY <1>2 DEF ServerInv, ServerType, Server!NoCall
<1>5. asked[r].chan = TheChan /\ asked[r].arg \in Server!Method
  BY <1>4, CallFields
<1>6. /\ result' \in [Request -> Server!Result]
      /\ result'[r] = res /\ \A q \in Request : q # r => result'[q] = result[q]
  BY <1>3 DEF ServerInv, ServerType, Server!Result
<1>7. DecidedAsked'
  BY <1>2, <1>4, <1>6 DEF ServerInv, DecidedAsked
<1>8. stored \in Seq(Request) /\ Len(stored) \in Nat
  BY Bounded DEF ServerInv, ServerType
<1>9. r \notin sent /\ \A i \in 1..Len(stored) : stored[i] \in Request /\ stored[i] # r
  BY <1>2, StoredFields DEF ServerInv, SentChanged
<1>10. SentChanged'
  BY <1>1, <1>6, <1>9 DEF ServerInv, ServerType, SentChanged
<1>11. CASE mode' = mode
  <2>1. stored' = stored
    BY <1>2, <1>11
  <2>2. res # "changed"
    BY <1>3, <1>5, <1>11 DEF ServerInv, ServerType
  <2>3. ServerType'
    BY <1>1, <1>2, <1>6, <1>11, <2>1 DEF ServerInv, ServerType
  <2>4. StoredDecided' /\ ChangedStored' /\ StoredOnce' /\ StoredCounted'
    BY <1>6, <1>9, <2>1, <2>2, CountFrame DEF ServerInv, StoredDecided, ChangedStored, StoredOnce
  <2>5. ModeIsLast'
    BY <1>2, <1>11, <2>1 DEF ServerInv, ModeIsLast, MethodAt
  <2>6. Grows
    BY <1>2, <1>8, <2>1 DEF Grows
  <2> QED BY <1>1, <1>7, <1>10, <2>1, <2>3, <2>4, <2>5, <2>6 DEF ServerInv
<1>12. CASE mode' # mode
  <2>1. /\ stored' \in Seq(Request) /\ Len(stored') = Len(stored) + 1
        /\ \A i \in 1..Len(stored) : stored'[i] = stored[i]
        /\ stored'[Len(stored) + 1] = r
    BY <1>2, <1>8, <1>12, AppendProperties
  <2>2. mode'[TheChan] = asked[r].arg /\ mode' = [c \in {TheChan} |-> mode'[c]]
    BY <1>2, <1>5, <1>12 DEF ServerInv, ServerType
  <2>3. ServerType'
    BY <1>1, <1>2, <1>5, <1>6, <2>1, <2>2 DEF ServerInv, ServerType
  <2>4. Grows
    BY <1>2, <1>8, <2>1 DEF Grows
  <2>5. StoredDecided'
    BY <1>3, <1>6, <1>8, <1>9, <1>12, <2>1 DEF ServerInv, StoredDecided
  <2>6. ChangedStored'
    <3>1. Len(stored) + 1 \in 1..Len(stored') /\ 1..Len(stored) \subseteq 1..Len(stored')
      BY <1>8, <2>1
    <3>2. ASSUME NEW q \in Request, result'[q] = "changed"
          PROVE  \E i \in 1..Len(stored') : stored'[i] = q
      BY <1>6, <2>1, <3>1, <3>2 DEF ServerInv, ChangedStored
    <3> QED BY <3>2 DEF ChangedStored
  <2>7. StoredOnce'
    BY <1>8, <1>9, <2>1 DEF ServerInv, StoredOnce
  <2>8. StoredCounted'
    <3>1. StoredSet' = StoredSet \cup {r}
      BY <1>8, <2>1 DEF StoredSet
    <3>2. r \notin StoredSet
      BY <1>9 DEF StoredSet
    <3>3. Len(stored) = Cardinality(StoredSet)
      BY DEF ServerInv, StoredCounted
    <3>4. IsFiniteSet(StoredSet)
      <4>1. StoredSet \in SUBSET Request
        BY <1>9 DEF StoredSet
      <4> QED BY <4>1, RequestAssumption, FS_Subset
    <3>5. Cardinality(StoredSet \cup {r}) = Cardinality(StoredSet) + 1
      BY <3>2, <3>4, FS_AddElement
    <3> QED BY <2>1, <3>1, <3>3, <3>5 DEF StoredCounted
  <2>9. ModeIsLast'
    BY <1>2, <1>8, <2>1, <2>2 DEF ModeIsLast, MethodAt
  <2>10. \A i \in 1..Len(stored') : i \notin 1..Len(stored) => stored'[i] \notin sent
    BY <1>8, <1>9, <2>1
  <2> QED BY <1>1, <1>7, <1>10, <2>3, <2>4, <2>5, <2>6, <2>7, <2>8, <2>9, <2>10 DEF ServerInv
<1> QED BY <1>11, <1>12

\* A change is published, or the server does nothing.
LEMMA ServerFrame ==
  ASSUME ServerInv, UNCHANGED <<mode, asked, result, stored>>,
         sent' = sent \/ \E r \in Request : result[r] = "changed" /\ sent' = sent \cup {r}
  PROVE  ServerInv' /\ Grows
<1>1. ServerType' /\ SentChanged'
  BY DEF ServerInv, ServerType, SentChanged
<1>2. DecidedAsked' /\ StoredDecided' /\ ChangedStored' /\ StoredOnce' /\ StoredCounted' /\ ModeIsLast'
  BY CountFrame DEF ServerInv, DecidedAsked, StoredDecided, ChangedStored, StoredOnce, ModeIsLast, MethodAt
<1>3. Grows
  BY Bounded DEF Grows
<1> QED BY <1>1, <1>2, <1>3 DEF ServerInv

------------------------------------------------------------------------------
\* The tabs.

\* A method with its age is nothing else.
LEMMA KnownFields ==
  ASSUME NEW m \in Known
  PROVE  /\ m.method \in Server!Method /\ m.age \in 0..Cardinality(Request)
         /\ m = [method |-> m.method, age |-> m.age]
         /\ m # Unknown /\ m # Left /\ m # NoFetch /\ m # Asked /\ m # Refused
<1>1. m.method # "unknown" /\ m.method # "left" /\ m.method # "idle" /\ m.method # "asked" /\ m.method # "refused"
  BY DEF Known, Server!Method
<1> QED BY <1>1 DEF Known, Unknown, Left, NoFetch, Asked, Refused

\* What is not a method is not a right one either.
LEMMA OthersDiffer ==
  /\ Unknown \notin Known /\ Left \notin Known
  /\ NoFetch \notin Known /\ Asked \notin Known /\ Refused \notin Known
  /\ NoFetch # Asked /\ NoFetch # Refused /\ Asked # Refused
  /\ NoFetch \in Fetch /\ Asked \in Fetch /\ Refused \in Fetch
BY KnownFields DEF NoFetch, Asked, Refused, Fetch

\* A right method stays right.
LEMMA StaysRight ==
  ASSUME ServerInv, Grows, Len(stored') \in Nat
  PROVE  \A m : Right(m) => Right(m)'
<1> SUFFICES ASSUME NEW m, Right(m) PROVE Right(m)'
  OBVIOUS
<1>1. Len(stored) \in Nat /\ Len(stored) <= Len(stored')
  BY Bounded DEF Grows
<1>2. m.age \in 0..Len(stored) /\ m.age \in 0..Len(stored')
  BY <1>1 DEF Right
<1>3. CASE m.age = 0
  BY <1>2, <1>3 DEF Right, MethodAt
<1>4. CASE m.age # 0
  <2>1. m.age \in 1..Len(stored)
    BY <1>1, <1>2, <1>4
  <2> QED BY <1>2, <1>4, <2>1 DEF Right, MethodAt, Grows
<1> QED BY <1>3, <1>4

\* The server's answer to a member, and the event of a change, are right.
LEMMA CurrentRight ==
  ASSUME ServerInv
  PROVE  Current \in Known /\ Current.age = Len(stored) /\ Right(Current)
<1>1. mode[TheChan] \in Server!Method /\ mode[TheChan] = MethodAt(Len(stored))
  BY DEF ServerInv, ServerType, ModeIsLast
<1>2. Current.method = mode[TheChan] /\ Current.age = Len(stored)
  BY DEF Current
<1>3. Current \in Known
  BY <1>1, Bounded DEF Current, Known
<1> QED BY <1>1, <1>2, <1>3, Bounded DEF Right

LEMMA EventRight ==
  ASSUME ServerInv, NEW r \in Request, result[r] = "changed",
         NEW e, e = [method |-> asked[r].arg, age |-> Age(r)]
  PROVE  e \in Known /\ e.age = Age(r) /\ e.age \in 1..Len(stored) /\ Right(e)
<1>1. Age(r) \in 1..Len(stored) /\ stored[Age(r)] = r
  BY ChangedAge
<1>2. asked[r].arg \in Server!Method
  BY <1>1, StoredFields
<1>3. e.method = asked[r].arg /\ e.age = Age(r)
  OBVIOUS
<1>4. Age(r) \in 0..Cardinality(Request) /\ Age(r) # 0
  BY <1>1, Bounded
<1>5. e \in Known
  BY <1>2, <1>4 DEF Known
<1> QED BY <1>1, <1>3, <1>4, <1>5, Bounded DEF Right, MethodAt

\* The part of the invariant about the tabs.
TabInv == /\ TypeOK
          /\ StatusRight /\ InboxRight /\ FetchRight /\ Heard /\ StatusNew

\* What the tabs' inboxes hold.
LEMMA InboxFacts ==
  ASSUME TabInv, NEW k \in Client
  PROVE  /\ inbox[k] \in Seq(Event) /\ Len(inbox[k]) \in Nat
         /\ \A n \in 1..Len(inbox[k]) :
              /\ inbox[k][n] \in Event
              /\ inbox[k][n] # Left => inbox[k][n] \in Known /\ Right(inbox[k][n])
<1>1. inbox[k] \in Seq(Event) /\ Len(inbox[k]) \in Nat
  BY DEF TabInv, TypeOK
<1>2. \A n \in 1..Len(inbox[k]) : inbox[k][n] \in Event
  BY <1>1
<1> QED BY <1>1, <1>2 DEF TabInv, InboxRight, Event

\* The first event of an inbox, and the rest.
LEMMA HeadTail ==
  ASSUME TabInv, NEW k \in Client, inbox[k] # <<>>
  PROVE  /\ Head(inbox[k]) = inbox[k][1] /\ 1 \in 1..Len(inbox[k])
         /\ Tail(inbox[k]) \in Seq(Event) /\ Len(Tail(inbox[k])) = Len(inbox[k]) - 1
         /\ \A n \in 1..Len(Tail(inbox[k])) :
              Tail(inbox[k])[n] = inbox[k][n + 1] /\ n + 1 \in 1..Len(inbox[k])
         /\ \A n \in 1..Len(inbox[k]) : n # 1 =>
              n - 1 \in 1..Len(Tail(inbox[k])) /\ Tail(inbox[k])[n - 1] = inbox[k][n]
<1> DEFINE s == inbox[k]
<1>1. s \in Seq(Event) /\ Len(s) \in Nat /\ s # <<>>
  BY InboxFacts
<1> HIDE DEF s
<1>2. /\ Head(s) = s[1] /\ Len(s) >= 1
      /\ Tail(s) \in Seq(Event) /\ Len(Tail(s)) = Len(s) - 1
  BY <1>1
<1>3. \A n \in 1..Len(Tail(s)) : Tail(s)[n] = s[n + 1]
  BY <1>1, HeadTailProperties
<1>4. \A n \in 1..Len(Tail(s)) : Tail(s)[n] = s[n + 1] /\ n + 1 \in 1..Len(s)
  BY <1>1, <1>2, <1>3
<1>5. \A n \in 1..Len(s) : n # 1 => n - 1 \in 1..Len(Tail(s)) /\ n = (n - 1) + 1
  BY <1>1, <1>2
<1>6. \A n \in 1..Len(s) : n # 1 => n - 1 \in 1..Len(Tail(s)) /\ Tail(s)[n - 1] = s[n]
  BY <1>3, <1>5
<1> QED BY <1>1, <1>2, <1>4, <1>6 DEF s

\* An inbox with one event more.
LEMMA OneMore ==
  ASSUME TabInv, NEW k \in Client, NEW e \in Event
  PROVE  /\ Append(inbox[k], e) \in Seq(Event)
         /\ Len(Append(inbox[k], e)) = Len(inbox[k]) + 1
         /\ \A n \in 1..Len(inbox[k]) :
              Append(inbox[k], e)[n] = inbox[k][n] /\ n \in 1..Len(Append(inbox[k], e))
         /\ Append(inbox[k], e)[Len(inbox[k]) + 1] = e
         /\ Len(inbox[k]) + 1 \in 1..Len(Append(inbox[k], e))
<1> DEFINE s == inbox[k]
<1>1. s \in Seq(Event) /\ Len(s) \in Nat
  BY InboxFacts
<1> HIDE DEF s
<1>2. /\ Append(s, e) \in Seq(Event) /\ Len(Append(s, e)) = Len(s) + 1
      /\ \A n \in 1..Len(s) : Append(s, e)[n] = s[n]
      /\ Append(s, e)[Len(s) + 1] = e
  BY <1>1, AppendProperties
<1> QED BY <1>1, <1>2 DEF s

\* The initial states satisfy the tabs' part of the invariant.
LEMMA TabInit == Init /\ ServerInv => TabInv
<1> SUFFICES ASSUME Init, ServerInv PROVE TabInv
  OBVIOUS
<1> USE DEF Init
<1>1. Len(stored) = 0 /\ \A k \in Client : Len(inbox[k]) = 0 /\ inbox[k] = <<>> /\ status[k] = Unknown
  OBVIOUS
<1>2. \A k \in Client, x \in Caller : fetch[k][x] = NoFetch
  OBVIOUS
<1>3. TypeOK
  BY Bounded, OthersDiffer DEF TypeOK, ServerInv, ServerType
<1>4. StatusRight /\ InboxRight /\ FetchRight /\ Heard /\ StatusNew
  BY <1>1, <1>2, OthersDiffer DEF StatusRight, InboxRight, FetchRight, Heard, StatusNew
<1> QED BY <1>3, <1>4 DEF TabInv

\* A step of the server that sends nothing changes nothing for the tabs.
LEMMA QuietStep ==
  ASSUME ServerInv, TabInv, ServerInv', Grows, UNCHANGED <<sent, linkVars, clientVars>>,
         \A i \in 1..Len(stored') : i \notin 1..Len(stored) => stored'[i] \notin sent
  PROVE  TabInv'
<1>0. Len(stored') \in Nat
  BY DEF ServerInv, ServerType
<1>1. TypeOK'
  BY DEF TabInv, TypeOK, ServerInv, ServerType, linkVars, clientVars
<1>2. \A m : Right(m) => Right(m)'
  BY <1>0, StaysRight
<1>3. StatusRight' /\ InboxRight' /\ FetchRight'
  BY <1>2 DEF TabInv, StatusRight, InboxRight, FetchRight, linkVars, clientVars
<1>4. \A i \in 1..Len(stored') : stored'[i] \in sent' => i \in 1..Len(stored) /\ stored[i] \in sent
  BY DEF Grows
<1>5. Heard'
  BY <1>4 DEF TabInv, Heard, linkVars, clientVars
<1>6. StatusNew'
  BY DEF TabInv, StatusNew, linkVars, clientVars
<1> QED BY <1>1, <1>3, <1>5, <1>6 DEF TabInv

\* A change is published to the tabs.
LEMMA PublishStep ==
  ASSUME ServerInv, TabInv, ServerInv', NEW r \in Request, Publish(r)
  PROVE  TabInv'
<1> DEFINE e == [method |-> asked[r].arg, age |-> Age(r)]
<1>1. /\ result[r] = "changed" /\ sent' = sent \cup {r}
      /\ inbox' = [k \in Client |-> IF joined[k] /\ online[k] THEN Append(inbox[k], e) ELSE inbox[k]]
      /\ UNCHANGED <<mode, asked, result, stored, joined, online, clientVars>>
  BY DEF Publish
<1>2. e \in Known /\ e.age = Age(r) /\ Right(e) /\ e \in Event /\ e # Left
  BY <1>1, EventRight, KnownFields DEF Event
<1> HIDE DEF e
<1>3. \A k \in Client : \/ joined[k] /\ online[k] /\ inbox'[k] = Append(inbox[k], e)
                        \/ ~(joined[k] /\ online[k]) /\ inbox'[k] = inbox[k]
  BY <1>1
<1>4. TypeOK'
  <2>1. \A k \in Client : inbox'[k] \in Seq(Event)
    BY <1>2, <1>3, OneMore, InboxFacts
  <2>2. inbox' \in [Client -> Seq(Event)]
    BY <1>1, <2>1
  <2> QED BY <1>1, <2>2 DEF TabInv, TypeOK, clientVars
<1>5. StatusRight' /\ FetchRight'
  BY <1>1 DEF TabInv, StatusRight, FetchRight, Right, MethodAt, clientVars
<1>6. InboxRight'
  <2> SUFFICES ASSUME NEW k \in Client, NEW n \in 1..Len(inbox'[k]), inbox'[k][n] # Left
               PROVE  Right(inbox'[k][n])
    BY <1>1 DEF InboxRight, Right, MethodAt
  <2>1. CASE inbox'[k] = inbox[k]
    BY <2>1, InboxFacts
  <2>2. CASE inbox'[k] = Append(inbox[k], e)
    <3>1. n \in 1..Len(inbox[k]) \/ n = Len(inbox[k]) + 1
      BY <1>2, <2>2, OneMore, InboxFacts
    <3>2. CASE n \in 1..Len(inbox[k])
      BY <1>2, <2>2, <3>2, OneMore, InboxFacts
    <3>3. CASE n = Len(inbox[k]) + 1
      BY <1>2, <2>2, <3>3, OneMore
    <3> QED BY <3>1, <3>2, <3>3
  <2> QED BY <1>3, <2>1, <2>2
<1>7. \A k \in Client : \A n \in 1..Len(inbox[k]) : n \in 1..Len(inbox'[k]) /\ inbox'[k][n] = inbox[k][n]
  BY <1>2, <1>3, OneMore
<1>8. Heard'
  <2> SUFFICES ASSUME NEW k \in Client, online[k], joined[k],
                      NEW i \in 1..Len(stored), stored[i] \in sent', ~(i <= sync[k])
               PROVE  \E n \in 1..Len(inbox'[k]) : inbox'[k][n] # Left /\ inbox'[k][n].age = i
    BY <1>1 DEF Heard, clientVars
  <2>1. CASE stored[i] \in sent
    <3>1. \E n \in 1..Len(inbox[k]) : inbox[k][n] # Left /\ inbox[k][n].age = i
      BY <2>1 DEF TabInv, Heard
    <3>2. PICK n \in 1..Len(inbox[k]) : inbox[k][n] # Left /\ inbox[k][n].age = i
      BY <3>1
    <3>3. n \in 1..Len(inbox'[k]) /\ inbox'[k][n] = inbox[k][n]
      BY <1>7
    <3> QED BY <3>2, <3>3
  <2>2. CASE stored[i] = r
    <3>1. i = Age(r)
      BY <2>2, StoredFields
    <3>2. inbox'[k] = Append(inbox[k], e)
      BY <1>3
    <3> QED BY <1>2, <3>1, <3>2, OneMore
  <2> QED BY <1>1, <2>1, <2>2
<1>9. StatusNew'
  BY <1>1, <1>7 DEF TabInv, StatusNew, clientVars
<1> QED BY <1>4, <1>5, <1>6, <1>8, <1>9 DEF TabInv

\* A fetch is sent, or answered, or its answer dropped.
LEMMA FetchStep ==
  ASSUME ServerInv, TabInv, NEW k \in Client, NEW x \in Caller, NEW a \in Fetch,
         a \in Known => Right(a), fetch' = [fetch EXCEPT ![k][x] = a],
         UNCHANGED <<serverVars, linkVars, status, sync, late>>
  PROVE  TabInv'
<1>1. \A l \in Client, y \in Caller :
        fetch'[l][y] = fetch[l][y] \/ (l = k /\ y = x /\ fetch'[l][y] = a)
  BY DEF TabInv, TypeOK
<1>2. TypeOK'
  <2>1. fetch' \in [Client -> [Caller -> Fetch]]
    BY DEF TabInv, TypeOK
  <2> QED BY <2>1 DEF TabInv, TypeOK, serverVars, linkVars
<1>3. FetchRight'
  BY <1>1 DEF TabInv, FetchRight, Right, MethodAt, serverVars
<1>4. StatusRight' /\ InboxRight'
  BY DEF TabInv, StatusRight, InboxRight, Right, MethodAt, serverVars, linkVars
<1>5. Heard' /\ StatusNew'
  BY DEF TabInv, Heard, StatusNew, serverVars, linkVars
<1> QED BY <1>2, <1>3, <1>4, <1>5 DEF TabInv

\* The server answers a fetch.
LEMMA AnswerStep ==
  ASSUME ServerInv, TabInv, NEW k \in Client, NEW x \in Caller, AnswerFetch(k, x)
  PROVE  TabInv'
<1>1. PICK a \in {Current, Refused} : fetch' = [fetch EXCEPT ![k][x] = a]
  BY DEF AnswerFetch
<1>2. a \in Fetch /\ (a \in Known => Right(a))
  <2>1. CASE a = Current
    BY <2>1, CurrentRight DEF Fetch
  <2>2. CASE a = Refused
    BY <2>2, OthersDiffer
  <2> QED BY <2>1, <2>2
<1>3. UNCHANGED <<serverVars, linkVars, status, sync, late>>
  BY DEF AnswerFetch
<1> QED BY <1>1, <1>2, <1>3, FetchStep

\* A fetch starts.
LEMMA StartStep ==
  ASSUME ServerInv, TabInv, NEW k \in Client, NEW x \in Caller, StartFetch(k, x)
  PROVE  TabInv'
BY FetchStep, OthersDiffer DEF StartFetch

\* A status that a tab receives, of its own or from an event, with what it has heard.
LEMMA ReceiveFacts ==
  ASSUME TabInv, NEW k \in Client, NEW m \in Known, Right(m), ReceiveStatus(k, m)
  PROVE  /\ status' \in [Client -> Known \cup {Unknown}] /\ late' \in [Client -> BOOLEAN]
         /\ \A l \in Client : l # k => status'[l] = status[l] /\ late'[l] = late[l]
         /\ status'[k] = m
         /\ ~late'[k] => joined[k] /\ sync[k] <= m.age
<1>1. sync[k] \in Int /\ m.age \in Int
  BY RequestAssumption, FS_CardinalityType, KnownFields DEF TabInv, TypeOK
<1>2. /\ status' = [status EXCEPT ![k] = m]
      /\ late' = [late EXCEPT ![k] = m.age < sync[k] \/ ~joined[k]]
  BY DEF ReceiveStatus
<1>3. /\ status \in [Client -> Known \cup {Unknown}] /\ late \in [Client -> BOOLEAN]
      /\ joined[k] \in BOOLEAN
  BY DEF TabInv, TypeOK
<1>4. status' \in [Client -> Known \cup {Unknown}] /\ late' \in [Client -> BOOLEAN]
  BY <1>2, <1>3
<1>5. \A l \in Client : l # k => status'[l] = status[l] /\ late'[l] = late[l]
  BY <1>2, <1>3
<1>6. status'[k] = m /\ late'[k] = (m.age < sync[k] \/ ~joined[k])
  BY <1>2, <1>3
<1>7. ~late'[k] => ~(m.age < sync[k]) /\ joined[k]
  BY <1>3, <1>6
<1> QED BY <1>1, <1>4, <1>5, <1>6, <1>7

\* The answer of a fetch is dispatched.
LEMMA FinishStep ==
  ASSUME ServerInv, TabInv, NEW k \in Client, NEW x \in Caller, FinishFetch(k, x)
  PROVE  TabInv'
<1>1. /\ fetch' = [fetch EXCEPT ![k][x] = NoFetch]
      /\ UNCHANGED <<serverVars, linkVars, sync>>
  BY DEF FinishFetch
<1>2. CASE UNCHANGED <<status, late>>
  BY <1>1, <1>2, FetchStep, OthersDiffer
<1>3. CASE fetch[k][x] \in Known /\ ReceiveStatus(k, fetch[k][x])
  <2> DEFINE m == fetch[k][x]
  <2>1. m \in Known /\ Right(m) /\ ReceiveStatus(k, m)
    BY <1>3 DEF TabInv, FetchRight
  <2> HIDE DEF m
  <2>2. /\ status' \in [Client -> Known \cup {Unknown}] /\ late' \in [Client -> BOOLEAN]
        /\ \A l \in Client : l # k => status'[l] = status[l] /\ late'[l] = late[l]
        /\ status'[k] = m
        /\ ~late'[k] => joined[k] /\ sync[k] <= m.age
    BY <2>1, ReceiveFacts
  <2>3. \A l \in Client, y \in Caller : fetch'[l][y] = fetch[l][y] \/ fetch'[l][y] = NoFetch
    BY <1>1 DEF TabInv, TypeOK
  <2>4. TypeOK'
    <3>1. fetch' \in [Client -> [Caller -> Fetch]]
      BY <1>1, OthersDiffer DEF TabInv, TypeOK
    <3> QED BY <1>1, <2>2, <3>1 DEF TabInv, TypeOK, serverVars, linkVars
  <2>5. FetchRight'
    BY <1>1, <2>3, OthersDiffer DEF TabInv, FetchRight, Right, MethodAt, serverVars
  <2>6. StatusRight'
    BY <1>1, <2>1, <2>2 DEF TabInv, StatusRight, Right, MethodAt, serverVars
  <2>7. InboxRight' /\ Heard'
    BY <1>1 DEF TabInv, InboxRight, Heard, Right, MethodAt, serverVars, linkVars
  <2>8. StatusNew'
    BY <1>1, <2>2 DEF TabInv, StatusNew, linkVars
  <2> QED BY <2>4, <2>5, <2>6, <2>7, <2>8 DEF TabInv
<1> QED BY <1>2, <1>3 DEF FinishFetch

\* The user leaves.
LEMMA LeaveStep ==
  ASSUME ServerInv, TabInv, NEW k \in Client, Leave(k)
  PROVE  TabInv'
<1>1. /\ joined' = [joined EXCEPT ![k] = FALSE]
      /\ inbox' = [inbox EXCEPT ![k] = IF online[k] THEN Append(inbox[k], Left) ELSE inbox[k]]
      /\ UNCHANGED <<serverVars, online, clientVars>>
  BY DEF Leave
<1>2. Left \in Event
  BY DEF Event
<1>3. /\ \A l \in Client : l # k => inbox'[l] = inbox[l] /\ joined'[l] = joined[l]
      /\ ~joined'[k]
      /\ \/ ~online[k] /\ inbox'[k] = inbox[k]
         \/ online[k] /\ inbox'[k] = Append(inbox[k], Left)
  BY <1>1 DEF TabInv, TypeOK
<1>4. TypeOK'
  <2>1. \A l \in Client : inbox'[l] \in Seq(Event)
    BY <1>2, <1>3, OneMore, InboxFacts
  <2>2. inbox' \in [Client -> Seq(Event)]
    BY <1>1, <2>1 DEF TabInv, TypeOK
  <2>3. joined' \in [Client -> BOOLEAN]
    BY <1>1 DEF TabInv, TypeOK
  <2> QED BY <1>1, <2>2, <2>3 DEF TabInv, TypeOK, serverVars, clientVars
<1>5. StatusRight' /\ FetchRight'
  BY <1>1 DEF TabInv, StatusRight, FetchRight, Right, MethodAt, serverVars, clientVars
<1>6. InboxRight'
  <2> SUFFICES ASSUME NEW l \in Client, NEW n \in 1..Len(inbox'[l]), inbox'[l][n] # Left
               PROVE  Right(inbox'[l][n])
    <3>1. stored' = stored /\ asked' = asked
      BY <1>1 DEF serverVars
    <3> QED BY <3>1 DEF InboxRight, Right, MethodAt
  <2>1. CASE inbox'[l] = inbox[l]
    BY <2>1, InboxFacts
  <2>2. CASE inbox'[l] = Append(inbox[l], Left)
    <3>1. n \in 1..Len(inbox[l]) \/ n = Len(inbox[l]) + 1
      BY <1>2, <2>2, OneMore, InboxFacts
    <3>2. n \in 1..Len(inbox[l])
      BY <1>2, <2>2, <3>1, OneMore
    <3> QED BY <1>2, <2>2, <3>2, OneMore, InboxFacts
  <2> QED BY <1>3, <2>1, <2>2
<1>7. Heard'
  BY <1>1, <1>3 DEF TabInv, Heard, serverVars, clientVars
<1>8. StatusNew'
  <2> SUFFICES ASSUME NEW l \in Client, online[l], status[l] # Unknown, ~late[l]
               PROVE  \/ joined'[l] /\ sync[l] <= status[l].age
                      \/ \E n \in 1..Len(inbox'[l]) : inbox'[l][n] = Left
    BY <1>1 DEF StatusNew, clientVars
  <2>1. CASE l = k
    BY <1>2, <1>3, <2>1, OneMore
  <2>2. CASE l # k
    BY <1>3, <2>2 DEF TabInv, StatusNew
  <2> QED BY <2>1, <2>2
<1> QED BY <1>4, <1>5, <1>6, <1>7, <1>8 DEF TabInv

\* The user joins again.
LEMMA RejoinStep ==
  ASSUME ServerInv, TabInv, NEW k \in Client, Rejoin(k)
  PROVE  TabInv'
<1>1. /\ ~joined[k] /\ joined' = [joined EXCEPT ![k] = TRUE]
      /\ sync' = [sync EXCEPT ![k] = Published]
      /\ UNCHANGED <<serverVars, online, inbox, fetch, status, late>>
  BY DEF Rejoin
<1>2. Published \in 0..Cardinality(Request)
  BY PublishedFacts, Bounded
<1>3. /\ \A l \in Client : l # k => joined'[l] = joined[l] /\ sync'[l] = sync[l]
      /\ sync'[k] = Published
  BY <1>1 DEF TabInv, TypeOK
<1>4. TypeOK'
  BY <1>1, <1>2 DEF TabInv, TypeOK, serverVars
<1>5. StatusRight' /\ FetchRight' /\ InboxRight'
  BY <1>1 DEF TabInv, StatusRight, FetchRight, InboxRight, Right, MethodAt, serverVars
<1>6. Heard'
  BY <1>1, <1>3, PublishedFacts DEF TabInv, Heard, serverVars
<1>7. StatusNew'
  BY <1>1, <1>3 DEF TabInv, StatusNew
<1> QED BY <1>4, <1>5, <1>6, <1>7 DEF TabInv

\* The websocket breaks.
LEMMA DisconnectStep ==
  ASSUME ServerInv, TabInv, NEW k \in Client, Disconnect(k)
  PROVE  TabInv'
<1>1. /\ online' = [online EXCEPT ![k] = FALSE] /\ inbox' = [inbox EXCEPT ![k] = <<>>]
      /\ UNCHANGED <<serverVars, joined, clientVars>>
  BY DEF Disconnect
<1>2. /\ \A l \in Client : l # k => online'[l] = online[l] /\ inbox'[l] = inbox[l]
      /\ ~online'[k] /\ inbox'[k] = <<>> /\ Len(inbox'[k]) = 0
  BY <1>1 DEF TabInv, TypeOK
<1>3. TypeOK'
  BY <1>1 DEF TabInv, TypeOK, serverVars, clientVars
<1>4. StatusRight' /\ FetchRight'
  BY <1>1 DEF TabInv, StatusRight, FetchRight, Right, MethodAt, serverVars, clientVars
<1>5. InboxRight'
  BY <1>1, <1>2 DEF TabInv, InboxRight, Right, MethodAt, serverVars
<1>6. Heard' /\ StatusNew'
  BY <1>1, <1>2 DEF TabInv, Heard, StatusNew, serverVars, clientVars
<1> QED BY <1>3, <1>4, <1>5, <1>6 DEF TabInv

\* The websocket is back.
LEMMA ReconnectStep ==
  ASSUME ServerInv, TabInv, NEW k \in Client, Reconnect(k)
  PROVE  TabInv'
<1>1. /\ online' = [online EXCEPT ![k] = TRUE] /\ sync' = [sync EXCEPT ![k] = Published]
      /\ status' = [status EXCEPT ![k] = Unknown] /\ late' = [late EXCEPT ![k] = FALSE]
      /\ UNCHANGED <<serverVars, joined, inbox, fetch>>
  BY DEF Reconnect, Forget
<1>2. Published \in 0..Cardinality(Request)
  BY PublishedFacts, Bounded
<1>3. /\ \A l \in Client : l # k => /\ online'[l] = online[l] /\ sync'[l] = sync[l]
                                    /\ status'[l] = status[l] /\ late'[l] = late[l]
      /\ sync'[k] = Published /\ status'[k] = Unknown
  BY <1>1 DEF TabInv, TypeOK
<1>4. TypeOK'
  BY <1>1, <1>2 DEF TabInv, TypeOK, serverVars
<1>5. StatusRight' /\ FetchRight' /\ InboxRight'
  BY <1>1, <1>3 DEF TabInv, StatusRight, FetchRight, InboxRight, Right, MethodAt, serverVars
<1>6. Heard'
  BY <1>1, <1>3, PublishedFacts DEF TabInv, Heard, serverVars
<1>7. StatusNew'
  BY <1>1, <1>3 DEF TabInv, StatusNew
<1> QED BY <1>4, <1>5, <1>6, <1>7 DEF TabInv

\* The websocket delivers the event of a change.
LEMMA EventStep ==
  ASSUME ServerInv, TabInv, NEW k \in Client, ChannelStateChanged(k)
  PROVE  TabInv'
<1> DEFINE m == Head(inbox[k])
<1>1. /\ inbox[k] # <<>> /\ m # Left /\ inbox' = [inbox EXCEPT ![k] = Tail(inbox[k])]
      /\ ReceiveStatus(k, m)
      /\ sync' = [sync EXCEPT ![k] = IF m.age > sync[k] THEN m.age ELSE sync[k]]
      /\ UNCHANGED <<serverVars, joined, online, fetch>>
  BY DEF ChannelStateChanged
<1>2. m = inbox[k][1] /\ m \in Known /\ Right(m)
  BY <1>1, HeadTail, InboxFacts
<1> HIDE DEF m
<1>3. /\ status' \in [Client -> Known \cup {Unknown}] /\ late' \in [Client -> BOOLEAN]
      /\ \A l \in Client : l # k => status'[l] = status[l] /\ late'[l] = late[l]
      /\ status'[k] = m
      /\ ~late'[k] => joined[k] /\ sync[k] <= m.age
  BY <1>1, <1>2, ReceiveFacts
<1>4. /\ m.age \in 0..Cardinality(Request) /\ sync[k] \in 0..Cardinality(Request)
      /\ Cardinality(Request) \in Nat
  BY <1>2, KnownFields, Bounded DEF TabInv, TypeOK
<1>5. /\ \A l \in Client : l # k => inbox'[l] = inbox[l] /\ sync'[l] = sync[l]
      /\ inbox'[k] = Tail(inbox[k])
      /\ sync'[k] \in 0..Cardinality(Request) /\ sync[k] <= sync'[k] /\ m.age <= sync'[k]
      /\ sync[k] <= m.age => sync'[k] = m.age
  BY <1>1, <1>4 DEF TabInv, TypeOK
<1>6. TypeOK'
  <2>1. sync' \in [Client -> 0..Cardinality(Request)]
    BY <1>1, <1>4 DEF TabInv, TypeOK
  <2>2. inbox' \in [Client -> Seq(Event)]
    BY <1>1, HeadTail DEF TabInv, TypeOK
  <2> QED BY <1>1, <1>3, <2>1, <2>2 DEF TabInv, TypeOK, serverVars
<1>7. StatusRight' /\ FetchRight'
  <2>1. \A e \in Known : Right(e)' <=> Right(e)
    BY <1>1 DEF Right, MethodAt, serverVars
  <2>2. StatusRight'
    BY <1>2, <1>3, <2>1 DEF TabInv, TypeOK, StatusRight
  <2>3. FetchRight'
    BY <1>1, <2>1 DEF TabInv, FetchRight
  <2> QED BY <2>2, <2>3
<1>8. InboxRight'
  <2> SUFFICES ASSUME NEW l \in Client, NEW n \in 1..Len(inbox'[l]), inbox'[l][n] # Left
               PROVE  Right(inbox'[l][n])
    <3>1. stored' = stored /\ asked' = asked
      BY <1>1 DEF serverVars
    <3> QED BY <3>1 DEF InboxRight, Right, MethodAt
  <2>1. CASE l = k
    BY <1>1, <1>5, <2>1, HeadTail, InboxFacts
  <2>2. CASE l # k
    BY <1>5, <2>2, InboxFacts
  <2> QED BY <2>1, <2>2
<1>9. Heard'
  <2> SUFFICES ASSUME NEW l \in Client, online[l], joined[l],
                      NEW i \in 1..Len(stored), stored[i] \in sent, ~(i <= sync'[l])
               PROVE  \E n \in 1..Len(inbox'[l]) : inbox'[l][n] # Left /\ inbox'[l][n].age = i
    BY <1>1 DEF Heard, serverVars
  <2>1. CASE l = k
    <3>0. i \in Nat
      BY Bounded
    <3>1. ~(i <= sync[k])
      BY <1>4, <1>5, <2>1, <3>0
    <3>2. PICK n \in 1..Len(inbox[k]) : inbox[k][n] # Left /\ inbox[k][n].age = i
      BY <2>1, <3>1 DEF TabInv, Heard
    <3>3. n # 1
      BY <1>2, <1>4, <1>5, <2>1, <3>0, <3>2
    <3>4. n - 1 \in 1..Len(inbox'[k]) /\ inbox'[k][n - 1] = inbox[k][n]
      <4>1. n - 1 \in 1..Len(Tail(inbox[k])) /\ Tail(inbox[k])[n - 1] = inbox[k][n]
        BY <1>1, <3>3, HeadTail
      <4> QED BY <4>1, <1>5
    <3> QED BY <2>1, <3>2, <3>4
  <2>2. CASE l # k
    BY <1>5, <2>2 DEF TabInv, Heard
  <2> QED BY <2>1, <2>2
<1>10. StatusNew'
  <2>1. ~late'[k] => joined[k] /\ sync'[k] <= m.age
    BY <1>3, <1>4, <1>5
  <2> QED BY <1>1, <1>3, <1>5, <2>1 DEF TabInv, StatusNew
<1> QED BY <1>6, <1>7, <1>8, <1>9, <1>10 DEF TabInv

\* The websocket delivers the departure.
LEMMA LeftStep ==
  ASSUME ServerInv, TabInv, NEW k \in Client, LeaveChannel(k)
  PROVE  TabInv'
<1>1. /\ inbox[k] # <<>> /\ Head(inbox[k]) = Left
      /\ inbox' = [inbox EXCEPT ![k] = Tail(inbox[k])]
      /\ status' = [status EXCEPT ![k] = Unknown] /\ late' = [late EXCEPT ![k] = FALSE]
      /\ UNCHANGED <<serverVars, joined, online, fetch, sync>>
  BY DEF LeaveChannel, Forget
<1>2. inbox[k][1] = Left
  BY <1>1, HeadTail
<1>3. /\ \A l \in Client : l # k => /\ inbox'[l] = inbox[l]
                                    /\ status'[l] = status[l] /\ late'[l] = late[l]
      /\ inbox'[k] = Tail(inbox[k]) /\ status'[k] = Unknown
  BY <1>1 DEF TabInv, TypeOK
<1>4. TypeOK'
  <2>1. inbox' \in [Client -> Seq(Event)]
    BY <1>1, HeadTail DEF TabInv, TypeOK
  <2> QED BY <1>1, <2>1 DEF TabInv, TypeOK, serverVars
<1>5. StatusRight' /\ FetchRight'
  BY <1>1, <1>3 DEF TabInv, StatusRight, FetchRight, Right, MethodAt, serverVars
<1>6. InboxRight'
  <2> SUFFICES ASSUME NEW l \in Client, NEW n \in 1..Len(inbox'[l]), inbox'[l][n] # Left
               PROVE  Right(inbox'[l][n])
    <3>1. stored' = stored /\ asked' = asked
      BY <1>1 DEF serverVars
    <3> QED BY <3>1 DEF InboxRight, Right, MethodAt
  <2>1. CASE l = k
    BY <1>1, <1>3, <2>1, HeadTail, InboxFacts
  <2>2. CASE l # k
    BY <1>3, <2>2, InboxFacts
  <2> QED BY <2>1, <2>2
<1>7. Heard'
  <2> SUFFICES ASSUME NEW l \in Client, online[l], joined[l],
                      NEW i \in 1..Len(stored), stored[i] \in sent, ~(i <= sync[l])
               PROVE  \E n \in 1..Len(inbox'[l]) : inbox'[l][n] # Left /\ inbox'[l][n].age = i
    BY <1>1 DEF Heard, serverVars
  <2>1. PICK n \in 1..Len(inbox[l]) : inbox[l][n] # Left /\ inbox[l][n].age = i
    BY DEF TabInv, Heard
  <2>2. CASE l = k
    <3>1. n \in 1..Len(inbox[k]) /\ n # 1
      BY <1>2, <2>1, <2>2
    <3>2. n - 1 \in 1..Len(inbox'[k]) /\ inbox'[k][n - 1] = inbox[k][n]
      <4>1. n - 1 \in 1..Len(Tail(inbox[k])) /\ Tail(inbox[k])[n - 1] = inbox[k][n]
        BY <1>1, <3>1, HeadTail
      <4> QED BY <4>1, <1>3
    <3> QED BY <2>1, <2>2, <3>2
  <2>3. CASE l # k
    BY <1>3, <2>1, <2>3
  <2> QED BY <2>2, <2>3
<1>8. StatusNew'
  BY <1>1, <1>3 DEF TabInv, StatusNew
<1> QED BY <1>4, <1>5, <1>6, <1>7, <1>8 DEF TabInv

------------------------------------------------------------------------------
\* Every step of ChannelStatus keeps its invariant.
LEMMA StatusStep ==
  ASSUME StatusInv, [Next]_vars
  PROVE  StatusInv'
<1>0. ServerInv /\ TabInv
  BY DEF StatusInv, TabInv
<1> SUFFICES ServerInv' /\ TabInv'
  BY DEF StatusInv, TabInv
<1> DEFINE Good == ServerInv' /\ TabInv'
<1>1. ASSUME UNCHANGED serverVars PROVE ServerInv' /\ Grows
  BY <1>0, <1>1, ServerFrame DEF serverVars
<1>2. ASSUME NEW r \in Request, NEW m \in Server!Method, Set(r, m) PROVE Good
  <2>1. ServerInv' /\ Grows
    BY <1>0, <1>2, SetStep
  <2>2. UNCHANGED <<stored, sent, linkVars, clientVars>>
    BY <1>2 DEF Set
  <2> QED BY <1>0, <2>1, <2>2, QuietStep
<1>3. ASSUME NEW r \in Request, Decide(r) PROVE Good
  <2>1. UNCHANGED <<sent, linkVars, clientVars>>
    BY <1>3 DEF Decide
  <2> QED BY <1>0, <1>3, <2>1, DecideStep, QuietStep
<1>4. ASSUME NEW r \in Request, Publish(r) PROVE Good
  <2>1. ServerInv'
    BY <1>0, <1>4, ServerFrame DEF Publish
  <2> QED BY <1>0, <1>4, <2>1, PublishStep
<1>5. ASSUME NEW k \in Client, Leave(k) PROVE Good
  BY <1>0, <1>1, <1>5, LeaveStep DEF Leave
<1>6. ASSUME NEW k \in Client, Rejoin(k) PROVE Good
  BY <1>0, <1>1, <1>6, RejoinStep DEF Rejoin
<1>7. ASSUME NEW k \in Client, Disconnect(k) PROVE Good
  BY <1>0, <1>1, <1>7, DisconnectStep DEF Disconnect
<1>8. ASSUME NEW k \in Client, Reconnect(k) PROVE Good
  BY <1>0, <1>1, <1>8, ReconnectStep DEF Reconnect
<1>9. ASSUME NEW k \in Client, ChannelStateChanged(k) PROVE Good
  BY <1>0, <1>1, <1>9, EventStep DEF ChannelStateChanged
<1>10. ASSUME NEW k \in Client, LeaveChannel(k) PROVE Good
  BY <1>0, <1>1, <1>10, LeftStep DEF LeaveChannel
<1>11. ASSUME NEW k \in Client, NEW x \in Caller, StartFetch(k, x) PROVE Good
  BY <1>0, <1>1, <1>11, StartStep DEF StartFetch
<1>12. ASSUME NEW k \in Client, NEW x \in Caller, AnswerFetch(k, x) PROVE Good
  BY <1>0, <1>1, <1>12, AnswerStep DEF AnswerFetch
<1>13. ASSUME NEW k \in Client, NEW x \in Caller, FinishFetch(k, x) PROVE Good
  BY <1>0, <1>1, <1>13, FinishStep DEF FinishFetch
<1>14. ASSUME UNCHANGED vars PROVE Good
  <2>1. ServerInv' /\ Grows
    BY <1>1, <1>14 DEF vars
  <2> QED BY <1>0, <1>14, <2>1, QuietStep DEF vars, serverVars
<1> HIDE DEF Good
<1> QED BY <1>2, <1>3, <1>4, <1>5, <1>6, <1>7, <1>8, <1>9, <1>10, <1>11, <1>12, <1>13, <1>14
           DEF Next, Good

\* An idle tab that was not overtaken has heard of every change, so that its status
\* is as old as the register.
LEMMA IdleIsCurrent == StatusInv => CurrentUnlessOvertaken
<1> SUFFICES ASSUME StatusInv, NEW k \in Client, Idle(k), status[k] # Unknown, ~late[k]
             PROVE  joined[k] /\ status[k] = Current
  BY DEF CurrentUnlessOvertaken
<1>0. ServerInv
  BY DEF StatusInv
<1>1. online[k] /\ inbox[k] = <<>> /\ Len(inbox[k]) = 0
  BY DEF Idle
<1>2. joined[k] /\ sync[k] <= status[k].age
  BY <1>1 DEF StatusInv, StatusNew
<1>3. status[k] \in Known /\ Right(status[k])
  BY DEF StatusInv, TypeOK, StatusRight
<1>4. /\ Len(stored) \in Nat /\ status[k].age \in 0..Len(stored)
      /\ status[k].method = MethodAt(status[k].age)
  BY <1>0, <1>3, Bounded DEF Right
<1>5. status[k].age = Len(stored)
  <2>1. CASE Len(stored) = 0
    BY <1>4, <2>1
  <2>2. CASE Len(stored) # 0
    <3>1. Len(stored) \in 1..Len(stored)
      BY <1>4, <2>2
    <3>2. stored[Len(stored)] \in sent
      BY <2>2, <3>1 DEF Idle
    <3>3. Len(stored) <= sync[k]
      BY <1>1, <1>2, <3>1, <3>2 DEF StatusInv, Heard
    <3>4. sync[k] \in Int
      BY <1>0, Bounded DEF StatusInv, TypeOK
    <3> QED BY <1>2, <1>4, <3>3, <3>4
  <2> QED BY <2>1, <2>2
<1>6. status[k].method = mode[TheChan]
  BY <1>0, <1>4, <1>5 DEF ServerInv, ModeIsLast
<1>7. status[k] = [method |-> status[k].method, age |-> status[k].age]
  BY <1>3, KnownFields
<1> QED BY <1>2, <1>5, <1>6, <1>7 DEF Current

------------------------------------------------------------------------------
\* The icon.

\* Every step of Icon is one of ChannelStatus, or leaves it alone.
LEMMA IconIsStatus == [IconNext]_allVars => [Next]_vars
<1>1. CASE UNCHANGED allVars
  BY <1>1 DEF allVars
<1>2. CASE \E r \in Request : Decide(r) \/ Publish(r) \/ \E m \in Server!Method : Set(r, m)
  BY <1>2 DEF Next
<1>3. ASSUME NEW k \in Client,
             \/ Leave(k) \/ Rejoin(k) \/ Disconnect(k) \/ Reconnect(k)
             \/ ChannelStateChanged(k) \/ LeaveChannel(k)
             \/ \E x \in Caller : StartFetch(k, x) \/ AnswerFetch(k, x) \/ FinishFetch(k, x)
      PROVE  [Next]_vars
  BY <1>3 DEF Next
<1>4. ASSUME NEW k \in Client,
             SwitchChannel(k) \/ LookUpHere(k) \/ LookUpElsewhere(k) \/ LookedUpElsewhere(k)
      PROVE  [Next]_vars
  <2>1. UNCHANGED vars \/ \E x \in Caller : StartFetch(k, x)
    BY <1>4 DEF SwitchChannel, LookUpHere, LookUpElsewhere, LookedUpElsewhere
  <2> QED BY <1>3, <2>1
<1>5. ASSUME NEW k \in Client, NEW x \in Caller, LookedUpHere(k, x) \/ OtherAnswer(k, x)
      PROVE  [Next]_vars
  <2>1. FinishFetch(k, x)
    BY <1>5 DEF LookedUpHere, OtherAnswer
  <2> QED BY <1>3, <2>1
<1> QED BY <1>1, <1>2, <1>3, <1>4, <1>5 DEF IconNext

\* What the icon's variables hold.
IconType == /\ inView \in [Client -> BOOLEAN]
            /\ locked \in [Client -> BOOLEAN]
            /\ stale \in [Client -> BOOLEAN]
            /\ lookups \subseteq Client \X Caller
            /\ elsewhere \subseteq Client /\ misled \subseteq Client

\* A lock of a tab is right.
LockRight(k) == Settled(k) /\ inView[k] /\ status[k] # Unknown /\ k \notin misled
                  => locked[k] = (status[k].method # "none")

\* Nothing that a tab's lock depends on has changed.
SameTab(k) == /\ status'[k] = status[k] /\ inView'[k] = inView[k]
              /\ locked'[k] = locked[k] /\ stale'[k] = stale[k]
              /\ k \in elsewhere' <=> k \in elsewhere
              /\ k \in misled' <=> k \in misled
              /\ \A x \in Caller : <<k, x>> \in lookups' <=> <<k, x>> \in lookups

\* What a tab does leaves the locks of the others alone.
LEMMA OneTab ==
  ASSUME LockShowsStatus, NEW k \in Client, LockRight(k)',
         \A l \in Client : l # k => SameTab(l)
  PROVE  LockShowsStatus'
<1> SUFFICES ASSUME NEW l \in Client PROVE LockRight(l)'
  BY DEF LockShowsStatus, LockRight
<1>1. CASE l = k
  BY <1>1
<1>2. CASE l # k
  BY <1>2 DEF LockShowsStatus, LockRight, Settled, SameTab
<1> QED BY <1>1, <1>2

\* A status changes only in the tab whose reducer runs.
LEMMA StatusFrame ==
  ASSUME TypeOK, NEW k \in Client,
         \/ Reconnect(k) \/ ChannelStateChanged(k) \/ LeaveChannel(k)
         \/ \E x \in Caller : FinishFetch(k, x)
  PROVE  \A l \in Client : l # k => status'[l] = status[l]
<1>1. status' = status \/ \E m : status' = [status EXCEPT ![k] = m]
  BY DEF Reconnect, ChannelStateChanged, LeaveChannel, FinishFetch, ReceiveStatus, Forget
<1> QED BY <1>1 DEF TypeOK

\* A step that leaves the status and the icon alone.
LEMMA LockFrame ==
  ASSUME IconType, LockShowsStatus, UNCHANGED <<status, iconVars>>
  PROVE  IconType' /\ LockShowsStatus'
BY DEF IconType, LockShowsStatus, Settled, iconVars

\* The effect is to run again.
LEMMA MapStep ==
  ASSUME IconType, LockShowsStatus, NEW k \in Client, MapChanged(k),
         \A l \in Client : l # k => status'[l] = status[l],
         UNCHANGED <<inView, locked, lookups, elsewhere, misled>>
  PROVE  IconType' /\ LockShowsStatus'
<1>1. stale' = [stale EXCEPT ![k] = TRUE]
  BY DEF MapChanged
<1>2. IconType'
  BY <1>1 DEF IconType
<1>3. LockRight(k)'
  BY <1>1 DEF IconType, LockRight, Settled
<1>4. \A l \in Client : l # k => SameTab(l)
  BY <1>1 DEF IconType, SameTab
<1> QED BY <1>2, <1>3, <1>4, OneTab

\* The user switches the channel.
LEMMA SwitchStep ==
  ASSUME IconType, LockShowsStatus, NEW k \in Client, SwitchChannel(k)
  PROVE  IconType' /\ LockShowsStatus'
<1>1. /\ stale' = [stale EXCEPT ![k] = TRUE] /\ inView' = [inView EXCEPT ![k] = ~inView[k]]
      /\ UNCHANGED <<status, locked, lookups, elsewhere, misled>>
  BY DEF SwitchChannel, vars, clientVars
<1>2. IconType'
  BY <1>1 DEF IconType
<1>3. LockRight(k)'
  BY <1>1 DEF IconType, LockRight, Settled
<1>4. \A l \in Client : l # k => SameTab(l)
  BY <1>1 DEF IconType, SameTab
<1> QED BY <1>2, <1>3, <1>4, OneTab

\* The effect runs with the channel in view.
LEMMA LookUpHereStep ==
  ASSUME IconType, LockShowsStatus, NEW k \in Client, LookUpHere(k)
  PROVE  IconType' /\ LockShowsStatus'
<1>1. /\ stale' = [stale EXCEPT ![k] = FALSE]
      /\ UNCHANGED <<inView, elsewhere>>
  BY DEF LookUpHere
<1>2. CASE status[k] # Unknown /\ Show(k, status[k].method) /\ UNCHANGED <<vars, lookups>>
  <2>1. /\ locked' = [locked EXCEPT ![k] = status[k].method # "none"]
        /\ misled' = misled \ {k} /\ status' = status /\ lookups' = lookups
    BY <1>2 DEF Show, vars, clientVars
  <2>2. IconType'
    BY <1>1, <2>1 DEF IconType
  <2>3. LockRight(k)'
    <3>1. locked'[k] = (status[k].method # "none")
      BY <2>1 DEF IconType
    <3> QED BY <2>1, <3>1 DEF LockRight
  <2>4. \A l \in Client : l # k => SameTab(l)
    BY <1>1, <2>1 DEF IconType, SameTab
  <2> QED BY <2>2, <2>3, <2>4, OneTab
<1>3. ASSUME NEW x \in Caller, StartFetch(k, x), lookups' = lookups \cup {<<k, x>>},
             UNCHANGED <<locked, misled>>
      PROVE  IconType' /\ LockShowsStatus'
  <2>1. status' = status
    BY <1>3 DEF StartFetch
  <2>2. IconType'
    BY <1>1, <1>3 DEF IconType
  <2>3. LockRight(k)'
    BY <1>3 DEF LockRight, Settled
  <2>4. \A l \in Client : l # k => SameTab(l)
    BY <1>1, <1>3, <2>1 DEF IconType, SameTab
  <2> QED BY <2>2, <2>3, <2>4, OneTab
<1> QED BY <1>2, <1>3 DEF LookUpHere

\* The effect runs with another channel in view.
LEMMA LookUpElsewhereStep ==
  ASSUME IconType, LockShowsStatus, NEW k \in Client, LookUpElsewhere(k)
  PROVE  IconType' /\ LockShowsStatus'
<1>1. /\ ~inView[k] /\ stale' = [stale EXCEPT ![k] = FALSE]
      /\ UNCHANGED <<status, inView, lookups>>
      /\ elsewhere' = elsewhere \/ elsewhere' = elsewhere \cup {k}
      /\ \/ UNCHANGED <<locked, misled>>
         \/ \E m \in Server!Method : Show(k, m)
  BY DEF LookUpElsewhere, vars, clientVars
<1>2. /\ locked' \in [Client -> BOOLEAN] /\ misled' \subseteq Client
      /\ \A l \in Client : l # k => locked'[l] = locked[l] /\ (l \in misled' <=> l \in misled)
  <2>1. CASE UNCHANGED <<locked, misled>>
    BY <2>1 DEF IconType
  <2>2. ASSUME NEW m \in Server!Method, Show(k, m)
        PROVE  /\ locked' \in [Client -> BOOLEAN] /\ misled' \subseteq Client
               /\ \A l \in Client : l # k => locked'[l] = locked[l] /\ (l \in misled' <=> l \in misled)
    BY <2>2 DEF Show, IconType
  <2> QED BY <1>1, <2>1, <2>2
<1>3. IconType'
  BY <1>1, <1>2 DEF IconType
<1>4. LockRight(k)'
  BY <1>1 DEF LockRight
<1>5. \A l \in Client : l # k => SameTab(l)
  BY <1>1, <1>2 DEF IconType, SameTab
<1> QED BY <1>3, <1>4, <1>5, OneTab

\* A lookup ends: what a status is shows, and the map changed, or the failure shows.
Shown(k) == \/ MapChanged(k) /\ \E m : Show(k, m)
            \/ UNCHANGED stale /\ ShowFailure(k)

\* The lookup of a method ends, and the lock shows it, or shows the failure.
LEMMA LookedUpStep ==
  ASSUME IconType, LockShowsStatus, NEW k \in Client,
         \A l \in Client : l # k => status'[l] = status[l],
         \A l \in Client : l # k => /\ l \in elsewhere' <=> l \in elsewhere
                                    /\ \A x \in Caller : <<l, x>> \in lookups' <=> <<l, x>> \in lookups,
         elsewhere' \subseteq Client, lookups' \subseteq Client \X Caller, inView' = inView,
         Shown(k)
  PROVE  IconType' /\ LockShowsStatus'
<1>1. ASSUME MapChanged(k), NEW m, Show(k, m)
      PROVE  IconType' /\ LockShowsStatus'
  <2>1. /\ stale' = [stale EXCEPT ![k] = TRUE] /\ misled' = misled \ {k}
        /\ locked' = [locked EXCEPT ![k] = m # "none"]
    BY <1>1 DEF MapChanged, Show
  <2>2. IconType'
    BY <2>1 DEF IconType
  <2>3. LockRight(k)'
    BY <2>1 DEF IconType, LockRight, Settled
  <2>4. \A l \in Client : l # k => SameTab(l)
    BY <2>1 DEF IconType, SameTab
  <2> QED BY <2>2, <2>3, <2>4, OneTab
<1>2. CASE UNCHANGED stale /\ ShowFailure(k)
  <2>1. /\ stale' = stale /\ misled' = misled \cup {k} /\ locked' = [locked EXCEPT ![k] = TRUE]
    BY <1>2 DEF ShowFailure
  <2>2. IconType'
    BY <2>1 DEF IconType
  <2>3. LockRight(k)'
    BY <2>1 DEF LockRight
  <2>4. \A l \in Client : l # k => SameTab(l)
    BY <2>1 DEF IconType, SameTab
  <2> QED BY <2>2, <2>3, <2>4, OneTab
<1> QED BY <1>1, <1>2 DEF Shown

\* The lookup of the channel ends.
LEMMA LookedUpHereStep ==
  ASSUME TypeOK, IconType, LockShowsStatus, NEW k \in Client, NEW x \in Caller, LookedUpHere(k, x)
  PROVE  IconType' /\ LockShowsStatus'
<1>1. /\ \A l \in Client : l # k => status'[l] = status[l]
  BY StatusFrame DEF LookedUpHere
<1>2. /\ lookups' = lookups \ {<<k, x>>} /\ UNCHANGED <<inView, elsewhere>>
      /\ Shown(k)
  BY DEF LookedUpHere, Shown
<1>3. /\ \A l \in Client : l # k => /\ l \in elsewhere' <=> l \in elsewhere
                                    /\ \A y \in Caller : <<l, y>> \in lookups' <=> <<l, y>> \in lookups
      /\ elsewhere' \subseteq Client /\ lookups' \subseteq Client \X Caller
  BY <1>2 DEF IconType
<1> QED BY <1>1, <1>2, <1>3, LookedUpStep

\* The lookup of another channel ends.
LEMMA LookedUpElsewhereStep ==
  ASSUME IconType, LockShowsStatus, NEW k \in Client, LookedUpElsewhere(k)
  PROVE  IconType' /\ LockShowsStatus'
<1>1. /\ elsewhere' = elsewhere \ {k} /\ UNCHANGED <<status, inView, lookups>>
      /\ Shown(k)
  BY DEF LookedUpElsewhere, vars, clientVars, Shown
<1>2. /\ \A l \in Client : l # k => /\ l \in elsewhere' <=> l \in elsewhere
                                    /\ \A y \in Caller : <<l, y>> \in lookups' <=> <<l, y>> \in lookups
      /\ elsewhere' \subseteq Client /\ lookups' \subseteq Client \X Caller
  BY <1>1 DEF IconType
<1> QED BY <1>1, <1>2, LookedUpStep

\* The answer to another caller.
LEMMA OtherAnswerStep ==
  ASSUME TypeOK, IconType, LockShowsStatus, NEW k \in Client, NEW x \in Caller, OtherAnswer(k, x)
  PROVE  IconType' /\ LockShowsStatus'
<1>1. \A l \in Client : l # k => status'[l] = status[l]
  BY StatusFrame DEF OtherAnswer
<1>2. FinishFetch(k, x) /\ UNCHANGED <<inView, locked, lookups, elsewhere, misled>>
  BY DEF OtherAnswer
<1>3. CASE fetch[k][x] \in Known
  BY <1>1, <1>2, <1>3, MapStep DEF OtherAnswer
<1>4. CASE fetch[k][x] \notin Known
  BY <1>2, <1>4, LockFrame DEF OtherAnswer, FinishFetch, iconVars
<1> QED BY <1>3, <1>4

\* Every step of Icon keeps its types, and the lock right.
LEMMA LockStep ==
  ASSUME TypeOK, IconType, LockShowsStatus, [IconNext]_allVars
  PROVE  IconType' /\ LockShowsStatus'
<1> DEFINE Good == IconType' /\ LockShowsStatus'
<1>1. CASE UNCHANGED allVars
  BY <1>1, LockFrame DEF allVars, vars, clientVars
<1>2. ASSUME UNCHANGED iconVars, NEW r \in Request,
             Decide(r) \/ Publish(r) \/ \E m \in Server!Method : Set(r, m)
      PROVE  Good
  <2>1. status' = status
    BY <1>2 DEF Decide, Publish, Set, clientVars
  <2> QED BY <1>2, <2>1, LockFrame
<1>3. ASSUME UNCHANGED iconVars, NEW k \in Client,
             \/ Leave(k) \/ Rejoin(k) \/ Disconnect(k)
             \/ \E x \in Caller : StartFetch(k, x) \/ AnswerFetch(k, x)
      PROVE  Good
  <2>1. status' = status
    BY <1>3 DEF Leave, Rejoin, Disconnect, StartFetch, AnswerFetch, clientVars
  <2> QED BY <1>3, <2>1, LockFrame
<1>4. ASSUME NEW k \in Client, Reconnect(k) \/ ChannelStateChanged(k) \/ LeaveChannel(k),
             MapChanged(k), UNCHANGED <<inView, locked, lookups, elsewhere, misled>>
      PROVE  Good
  <2>1. \A l \in Client : l # k => status'[l] = status[l]
    BY <1>4, StatusFrame
  <2> QED BY <1>4, <2>1, MapStep
<1>5. ASSUME NEW k \in Client,
             SwitchChannel(k) \/ LookUpHere(k) \/ LookUpElsewhere(k) \/ LookedUpElsewhere(k)
      PROVE  Good
  BY <1>5, SwitchStep, LookUpHereStep, LookUpElsewhereStep, LookedUpElsewhereStep
<1>6. ASSUME NEW k \in Client, NEW x \in Caller, LookedUpHere(k, x) \/ OtherAnswer(k, x)
      PROVE  Good
  BY <1>6, LookedUpHereStep, OtherAnswerStep
<1> HIDE DEF Good
<1> QED BY <1>1, <1>2, <1>3, <1>4, <1>5, <1>6 DEF IconNext, Good

\* The initial states satisfy the invariant.
LEMMA IconInitInv == IconInit => IInv
<1> SUFFICES ASSUME IconInit PROVE IInv
  OBVIOUS
<1>1. ServerInv /\ TabInv
  BY ServerInit, TabInit DEF IconInit
<1>2. StatusInv /\ TypeOK
  BY <1>1 DEF StatusInv, TabInv
<1>3. IconTypeOK /\ LockShowsStatus
  BY <1>2 DEF IconInit, Init, IconTypeOK, LockShowsStatus, Settled
<1> QED BY <1>2, <1>3 DEF IInv

\* Every step of Icon keeps the invariant.
LEMMA IconStep == IInv /\ [IconNext]_allVars => IInv'
<1> SUFFICES ASSUME IInv, [IconNext]_allVars PROVE IInv'
  OBVIOUS
<1>1. StatusInv /\ TypeOK /\ IconType /\ LockShowsStatus
  BY DEF IInv, IconTypeOK, IconType
<1>2. StatusInv'
  BY <1>1, IconIsStatus, StatusStep
<1>3. IconType' /\ LockShowsStatus'
  BY <1>1, LockStep
<1> QED BY <1>2, <1>3 DEF IInv, StatusInv, IconTypeOK, IconType

------------------------------------------------------------------------------
\* Every reachable state of Icon satisfies the inductive invariant.
THEOREM Invariance == IconSpec => []IInv
BY IconInitInv, IconStep, PTL DEF IconSpec

\* The variables of the tabs, the server and the icon (reducers.ts, hooks.tsx, icon.tsx)
\* always have their types.
THEOREM TypeCorrect == IconSpec => []IconTypeOK
<1>1. IInv => IconTypeOK
  BY DEF IInv
<1> QED BY <1>1, Invariance, PTL

\* For every set of tabs, calls and set requests, a tab to which nothing is on its way
\* knows the server's method or none, unless what it last received had been overtaken:
\* what it missed offline or out of the channel does not stay (hooks.tsx, reducers.ts).
THEOREM IdleTabIsCurrent == IconSpec => []CurrentUnlessOvertaken
<1>1. IInv => CurrentUnlessOvertaken
  BY IdleIsCurrent DEF IInv
<1> QED BY <1>1, Invariance, PTL

\* For every set of tabs, once the effect of icon.tsx has run and its lookups have
\* ended, the lock shows what chansEncrMethod has for the channel in view, except
\* after a failed lookup.
THEOREM LockIsRight == IconSpec => []LockShowsStatus
<1>1. IInv => LockShowsStatus
  BY DEF IInv
<1> QED BY <1>1, Invariance, PTL

------------------------------------------------------------------------------
\* The cache is below its limit, has a place for each id, and every text in it is the
\* one that its signature is for.
Sized == Len(cache) < MaxMsgs
IdsOnce == \A i, j \in 1..Len(cache) : cache[i].id = cache[j].id => i = j
TextsMatch == \A i \in 1..Len(cache) : cache[i].msg = cache[i].signature

\* A decryption is for a version, started by an effect that has run, and the one that
\* the last effect of the post has started is for what it ran for.
JobsRight == \A j \in jobs : /\ j.state.version \in Version
                             /\ j.run <= runs[j.post]
                             /\ j.run # 0 /\ j.run = runs[j.post] => j.state = rendered[j.post][1]

\* What is displayed was set by an effect that has run.
ShownLate == \A p \in Post : shownBy[p] <= runs[p]

\* The inductive invariant of ReadPost.
ReadInv == /\ ReadTypeOK /\ Sized /\ IdsOnce /\ TextsMatch
           /\ JobsRight /\ ShownLate /\ LastEffectShowsItsVersion

\* A text of the cache is that of the version asked for.
LEMMA CachedRight ==
  ASSUME ReadInv, NEW p \in Post, NEW s \in PostState, NEW m \in Cached(p, s)
  PROVE  m = s.version
<1>1. PICK e \in Range(cache) : e.signature = s.version /\ m = e.msg
  BY DEF Cached
<1>2. PICK i \in DOMAIN cache : e = cache[i]
  BY DEF Range
<1>3. DOMAIN cache = 1..Len(cache)
  BY DEF ReadInv, ReadTypeOK
<1> QED BY <1>1, <1>2, <1>3 DEF ReadInv, TextsMatch

\* A function on the first numbers is a sequence.
LEMMA FunctionIsSeq ==
  ASSUME NEW S, NEW n \in Nat, NEW f \in [1..n -> S]
  PROVE  f \in Seq(S) /\ Len(f) = n
<1>1. f \in Seq(S)
  BY SeqDef
<1>2. DOMAIN f = 1..n
  OBVIOUS
<1> QED BY <1>1, <1>2, LenProperties

\* MapSet replaces the entry of an id that the cache has, in its place.
LEMMA MapSetThere ==
  ASSUME ReadInv, NEW e \in CacheEntry, NEW k \in 1..Len(cache), cache[k].id = e.id
  PROVE  /\ MapSet(cache, e) \in Seq(CacheEntry) /\ Len(MapSet(cache, e)) = Len(cache)
         /\ \A i \in 1..Len(cache) : MapSet(cache, e)[i] = IF i = k THEN e ELSE cache[i]
<1> DEFINE f == [i \in DOMAIN cache |-> IF cache[i].id = e.id THEN e ELSE cache[i]]
<1>1. cache \in Seq(CacheEntry) /\ DOMAIN cache = 1..Len(cache) /\ Len(cache) \in Nat
  BY DEF ReadInv, ReadTypeOK
<1>2. MapSet(cache, e) = f
  BY <1>1 DEF MapSet
<1>3. \A i \in 1..Len(cache) : cache[i] \in CacheEntry
  BY <1>1
<1>4. f \in [1..Len(cache) -> CacheEntry]
  BY <1>1, <1>3
<1>5. \A i \in 1..Len(cache) : f[i] = IF i = k THEN e ELSE cache[i]
  BY <1>1 DEF ReadInv, IdsOnce
<1> HIDE DEF f
<1>6. f \in Seq(CacheEntry) /\ Len(f) = Len(cache)
  BY <1>1, <1>4, FunctionIsSeq
<1> QED BY <1>2, <1>5, <1>6

\* MapSet appends an entry for an id that the cache does not have.
LEMMA MapSetNew ==
  ASSUME ReadInv, NEW e \in CacheEntry, \A k \in 1..Len(cache) : cache[k].id # e.id
  PROVE  /\ MapSet(cache, e) \in Seq(CacheEntry) /\ Len(MapSet(cache, e)) = Len(cache) + 1
         /\ \A i \in 1..Len(cache) : MapSet(cache, e)[i] = cache[i]
         /\ MapSet(cache, e)[Len(cache) + 1] = e
<1>1. cache \in Seq(CacheEntry) /\ DOMAIN cache = 1..Len(cache)
  BY DEF ReadInv, ReadTypeOK
<1>2. MapSet(cache, e) = Append(cache, e)
  BY <1>1 DEF MapSet
<1> QED BY <1>1, <1>2, AppendProperties

\* What a change of the cache may do.
CacheStep == /\ cache' \in Seq(CacheEntry)
             /\ Sized' /\ IdsOnce' /\ TextsMatch'
             /\ ~(Ids(cache) \subseteq Ids(cache')) =>
                  Len(cache) = MaxMsgs - 1 /\ Ids(cache) \ Ids(cache') = {cache[1].id}

\* An insertion replaces the entry of its id, or evicts the oldest one at the limit.
LEMMA AddStep ==
  ASSUME ReadInv, NEW id \in ID, NEW v \in Version, Add(id, v, v)
  PROVE  CacheStep
<1> DEFINE e == [id |-> id, msg |-> v, signature |-> v]
<1>1. cache' = CheckSize(MapSet(cache, e))
  BY DEF Add
<1>2. e \in CacheEntry /\ e.id = id /\ e.msg = e.signature
  BY DEF CacheEntry
<1> HIDE DEF e
<1>3. cache \in Seq(CacheEntry) /\ DOMAIN cache = 1..Len(cache) /\ Len(cache) \in Nat
  BY DEF ReadInv, ReadTypeOK
<1>4. MaxMsgs \in Nat \ {0, 1} /\ Len(cache) < MaxMsgs
  BY ReadPostAssumption DEF ReadInv, Sized
<1> DEFINE m == MapSet(cache, e)
<1>5. ASSUME NEW k \in 1..Len(cache), cache[k].id = e.id
      PROVE  CacheStep
  <2>1. /\ m \in Seq(CacheEntry) /\ Len(m) = Len(cache)
        /\ \A i \in 1..Len(cache) : m[i] = IF i = k THEN e ELSE cache[i]
    BY <1>2, <1>5, MapSetThere
  <2>2. cache' = m
    BY <1>1, <1>4, <2>1 DEF CheckSize
  <2> HIDE DEF m
  <2>3. cache' \in Seq(CacheEntry) /\ Sized'
    BY <1>4, <2>1, <2>2 DEF Sized
  <2>4. IdsOnce'
    BY <1>5, <2>1, <2>2 DEF ReadInv, IdsOnce
  <2>5. TextsMatch'
    BY <1>2, <2>1, <2>2 DEF ReadInv, TextsMatch
  <2>6. Ids(cache) \subseteq Ids(cache')
    <3>1. DOMAIN cache' = 1..Len(cache)
      BY <2>1, <2>2
    <3>2. \A i \in 1..Len(cache) : cache'[i].id = cache[i].id
      BY <1>5, <2>1, <2>2
    <3> QED BY <1>3, <3>1, <3>2 DEF Ids
  <2> QED BY <2>3, <2>4, <2>5, <2>6 DEF CacheStep
<1>6. ASSUME \A k \in 1..Len(cache) : cache[k].id # e.id
      PROVE  CacheStep
  <2>1. /\ m \in Seq(CacheEntry) /\ Len(m) = Len(cache) + 1
        /\ \A i \in 1..Len(cache) : m[i] = cache[i]
        /\ m[Len(cache) + 1] = e
    BY <1>2, <1>6, MapSetNew
  <2>2. cache' = CheckSize(m)
    BY <1>1
  <2> HIDE DEF m
  <2>3. \A i \in 1..Len(m) : i \in 1..Len(cache) \/ i = Len(cache) + 1
    BY <1>3, <2>1
  <2>4. \A i, j \in 1..Len(m) : m[i].id = m[j].id => i = j
    BY <1>6, <2>1, <2>3 DEF ReadInv, IdsOnce
  <2>5. \A i \in 1..Len(m) : m[i].msg = m[i].signature
    BY <1>2, <2>1, <2>3 DEF ReadInv, TextsMatch
  <2>6. CASE Len(m) < MaxMsgs
    <3>1. cache' = m
      BY <2>2, <2>6 DEF CheckSize
    <3>2. Ids(cache) \subseteq Ids(cache')
      <4>1. \A i \in 1..Len(cache) : i \in DOMAIN cache' /\ cache'[i] = cache[i]
        BY <1>3, <2>1, <3>1
      <4> QED BY <1>3, <4>1 DEF Ids
    <3> QED BY <2>1, <2>4, <2>5, <2>6, <3>1, <3>2 DEF CacheStep, Sized, IdsOnce, TextsMatch
  <2>7. CASE ~(Len(m) < MaxMsgs)
    <3>1. cache' = Tail(m)
      BY <2>2, <2>7 DEF CheckSize
    <3>2. m # <<>>
      BY <1>3, <2>1
    <3>3. /\ Tail(m) \in Seq(CacheEntry) /\ Len(Tail(m)) = Len(cache)
          /\ \A i \in 1..Len(cache) : Tail(m)[i] = m[i + 1]
      BY <1>3, <2>1, <3>2, HeadTailProperties
    <3>4. \A i \in 1..Len(cache) : i + 1 \in 1..Len(m)
      BY <1>3, <2>1
    <3>5. cache' \in Seq(CacheEntry) /\ Sized'
      BY <1>4, <3>1, <3>3 DEF Sized
    <3>6. IdsOnce'
      BY <1>3, <2>4, <3>1, <3>3, <3>4 DEF IdsOnce
    <3>7. TextsMatch'
      BY <2>5, <3>1, <3>3, <3>4 DEF TextsMatch
    <3>8. DOMAIN cache' = 1..Len(cache)
      BY <3>1, <3>3
    <3>9. Ids(cache) \ Ids(cache') \subseteq {cache[1].id}
      <4>1. \A i \in 1..Len(cache) : i # 1 => i - 1 \in 1..Len(cache) /\ (i - 1) + 1 = i
        BY <1>3
      <4>2. \A i \in 1..Len(cache) : i # 1 => i - 1 \in 1..Len(cache) /\ cache'[i - 1] = m[i]
        BY <3>1, <3>3, <4>1
      <4>3. \A i \in 1..Len(cache) : i # 1 => i - 1 \in DOMAIN cache' /\ cache'[i - 1] = cache[i]
        BY <2>1, <3>8, <4>2
      <4> QED BY <1>3, <4>3 DEF Ids
    <3>10. Len(cache) = MaxMsgs - 1 /\ 1 \in 1..Len(cache)
      BY <1>3, <1>4, <2>1, <2>7
    <3>11. cache[1].id \in Ids(cache)
      BY <1>3, <3>10 DEF Ids
    <3>12. cache[1].id \notin Ids(cache')
      <4> SUFFICES ASSUME NEW i \in 1..Len(cache), cache'[i].id = cache[1].id PROVE FALSE
        BY <3>8 DEF Ids
      <4>1. m[i + 1].id = m[1].id
        BY <2>1, <3>1, <3>3, <3>10
      <4>2. i + 1 \in 1..Len(m) /\ 1 \in 1..Len(m) /\ i + 1 # 1
        BY <1>3, <2>1, <3>4
      <4> QED BY <2>4, <4>1, <4>2
    <3>13. Ids(cache) \ Ids(cache') = {cache[1].id}
      BY <3>9, <3>11, <3>12
    <3> QED BY <3>5, <3>6, <3>7, <3>10, <3>13 DEF CacheStep
  <2> QED BY <2>6, <2>7
<1> QED BY <1>5, <1>6

\* A cache that is left alone, or cleared.
LEMMA CacheFrame ==
  ASSUME ReadInv, cache' = cache \/ cache' = <<>>
  PROVE  cache' \in Seq(CacheEntry) /\ Sized' /\ IdsOnce' /\ TextsMatch'
<1>1. CASE cache' = cache
  BY <1>1 DEF ReadInv, ReadTypeOK, Sized, IdsOnce, TextsMatch
<1>2. CASE cache' = <<>>
  <2>1. Len(cache') = 0 /\ cache' \in Seq(CacheEntry)
    BY <1>2
  <2> QED BY <2>1, ReadPostAssumption DEF Sized, IdsOnce, TextsMatch
<1> QED BY <1>1, <1>2

------------------------------------------------------------------------------
\* The types of what the steps use.
LEMMA PostTypes ==
  /\ Version \subseteq Nat \ {0} /\ Version \subseteq 0..MaxMade
  /\ \A s \in PostState : /\ s = [version |-> s.version, pending |-> s.pending]
                          /\ s.version \in Version \cup {Absent} /\ s.pending \in BOOLEAN
                          /\ s.version # Absent => s.version \in Version
  /\ NotRendered[1] \in PostState /\ NotRendered \in PostState \X (0..MaxKeys)
  /\ 0 \in 0..MaxKeys
  /\ \A p \in Post, b \in BOOLEAN : <<p, b>> \in ID
  /\ Absent = 0 /\ Nothing \in Text /\ Error \in Text /\ Version \subseteq Text
<1>1. /\ Version \subseteq Nat \ {0} /\ Version \subseteq 0..MaxMade /\ 0 \in 0..MaxKeys
      /\ Absent = 0 /\ Nothing \in Text /\ Error \in Text /\ Version \subseteq Text
  BY ReadPostAssumption DEF Version, Absent, Nothing, Error, Text
<1>2. \A s \in PostState : /\ s = [version |-> s.version, pending |-> s.pending]
                           /\ s.version \in Version \cup {Absent} /\ s.pending \in BOOLEAN
                           /\ s.version # Absent => s.version \in Version
  BY DEF PostState
<1>3. NotRendered[1] \in PostState /\ NotRendered \in PostState \X (0..MaxKeys)
  BY <1>1 DEF PostState, NotRendered
<1>4. \A p \in Post, b \in BOOLEAN : <<p, b>> \in ID
  BY DEF ID
<1> QED BY <1>1, <1>2, <1>3, <1>4

\* The initial states satisfy the invariant.
LEMMA ReadInitInv == ReadInit => ReadInv
<1> SUFFICES ASSUME ReadInit PROVE ReadInv
  OBVIOUS
<1>1. ReadTypeOK
  BY PostTypes, ReadPostAssumption DEF ReadInit, ReadTypeOK, Job
<1>2. Len(cache) = 0
  BY DEF ReadInit
<1>3. Sized /\ IdsOnce /\ TextsMatch
  BY <1>2, ReadPostAssumption DEF Sized, IdsOnce, TextsMatch
<1>4. JobsRight /\ ShownLate /\ LastEffectShowsItsVersion
  BY DEF ReadInit, JobsRight, ShownLate, LastEffectShowsItsVersion
<1> QED BY <1>1, <1>3, <1>4 DEF ReadInv

\* The cache, and the rest: the two halves of the invariant.
CacheInv == cache \in Seq(CacheEntry) /\ Sized /\ IdsOnce /\ TextsMatch
ShownInv == /\ post \in [Post -> PostState] /\ made \in [Post -> 0..MaxMade]
          /\ sending \subseteq [post : Post, version : Version]
          /\ key \in 0..MaxKeys
          /\ rendered \in [Post -> PostState \X (0..MaxKeys)]
          /\ runs \in [Post -> Nat] /\ shownBy \in [Post -> Nat]
          /\ jobs \subseteq Job /\ shown \in [Post -> Text]
          /\ JobsRight /\ ShownLate /\ LastEffectShowsItsVersion

\* The invariant is its two halves.
LEMMA Halves == ReadInv <=> CacheInv /\ ShownInv
BY DEF ReadInv, ReadTypeOK, CacheInv, ShownInv

\* The store gets a version, and the notification may start a decryption.
LEMMA StoreStep ==
  ASSUME ShownInv, NEW p \in Post, NEW v \in Version, Store(p, v),
         made' \in [Post -> 0..MaxMade], sending' \subseteq [post : Post, version : Version],
         UNCHANGED <<key, rendered, runs, shown, shownBy>>
  PROVE  ShownInv'
<1>1. PICK b \in BOOLEAN :
        LET state == [version |-> v, pending |-> b]
        IN  /\ post' = [post EXCEPT ![p] = state]
            /\ jobs' = jobs \/ jobs' = jobs \cup {[post |-> p, state |-> state, run |-> 0]}
  BY DEF Store
<1> DEFINE state == [version |-> v, pending |-> b]
<1> DEFINE job == [post |-> p, state |-> state, run |-> 0]
<1>2. state \in PostState /\ state.version = v
  BY DEF PostState
<1> HIDE DEF state
<1>3. job \in Job /\ job.run = 0 /\ job.post = p /\ job.state.version = v
  BY <1>2 DEF Job
<1>4. post' = [post EXCEPT ![p] = state] /\ (jobs' = jobs \/ jobs' = jobs \cup {job})
  BY <1>1 DEF state
<1> HIDE DEF job
<1>5. post' \in [Post -> PostState] /\ jobs' \subseteq Job
  BY <1>2, <1>3, <1>4 DEF ShownInv
<1>6. JobsRight'
  <2>1. 0 <= runs[p]
    BY DEF ShownInv
  <2> QED BY <1>3, <1>4, <2>1 DEF ShownInv, JobsRight
<1>7. ShownLate' /\ LastEffectShowsItsVersion'
  BY DEF ShownInv, ShownLate, LastEffectShowsItsVersion
<1> QED BY <1>5, <1>6, <1>7 DEF ShownInv

\* A step that touches neither the posts on display nor the decryptions.
LEMMA TabFrame ==
  ASSUME ShownInv, made' \in [Post -> 0..MaxMade], key' \in 0..MaxKeys,
         sending' \subseteq [post : Post, version : Version],
         UNCHANGED <<post, rendered, runs, jobs, shown, shownBy>>
  PROVE  ShownInv'
BY DEF ShownInv, JobsRight, ShownLate, LastEffectShowsItsVersion

\* The effect of a post.
LEMMA EffectStep ==
  ASSUME ReadInv, NEW p \in Post, Effect(p)
  PROVE  ShownInv'
<1> DEFINE job == [post |-> p, state |-> post[p], run |-> runs'[p]]
<1>0. ShownInv
  BY Halves
<1>1. /\ post[p].version # Absent
      /\ rendered' = [rendered EXCEPT ![p] = <<post[p], key>>]
      /\ runs' = [runs EXCEPT ![p] = runs[p] + 1]
      /\ UNCHANGED <<post, made, sending, key, cache>>
  BY DEF Effect
<1>2. \/ /\ shown' = [shown EXCEPT ![p] = Error]
         /\ shownBy' = [shownBy EXCEPT ![p] = runs'[p]] /\ jobs' = jobs
      \/ /\ Cached(p, post[p]) # {}
         /\ shown' = [shown EXCEPT ![p] = CHOOSE m \in Cached(p, post[p]) : TRUE]
         /\ shownBy' = [shownBy EXCEPT ![p] = runs'[p]] /\ jobs' = jobs
      \/ /\ shown' = [shown EXCEPT ![p] = Nothing]
         /\ jobs' = jobs \cup {job} /\ shownBy' = shownBy
  BY DEF Effect
<1>3. post[p] \in PostState /\ post[p].version \in Version /\ key \in 0..MaxKeys
  BY <1>0, <1>1, PostTypes DEF ShownInv
<1>4. /\ runs' \in [Post -> Nat] /\ runs[p] \in Nat /\ runs'[p] = runs[p] + 1
      /\ \A q \in Post : q # p => runs'[q] = runs[q]
      /\ \A q \in Post : runs[q] \in Nat /\ runs[q] <= runs'[q]
  BY <1>0, <1>1 DEF ShownInv
<1>5. /\ rendered' \in [Post -> PostState \X (0..MaxKeys)] /\ rendered'[p][1] = post[p]
      /\ \A q \in Post : q # p => rendered'[q] = rendered[q]
  BY <1>0, <1>1, <1>3 DEF ShownInv
<1>6. job \in Job /\ job.post = p /\ job.state = post[p] /\ job.run = runs'[p]
  BY <1>3, <1>4 DEF Job
<1> HIDE DEF job
<1>7. \A j \in jobs : j.post = p => j.run <= runs[p] /\ j.run \in Nat /\ j.run # runs'[p]
  BY <1>0, <1>4 DEF ShownInv, JobsRight, Job
<1>8. jobs' \subseteq Job /\ (jobs' = jobs \/ jobs' = jobs \cup {job})
  BY <1>0, <1>2, <1>6 DEF ShownInv
<1>9. JobsRight'
  <2> SUFFICES ASSUME NEW j \in jobs'
               PROVE  /\ j.state.version \in Version /\ j.run <= runs'[j.post]
                      /\ j.run # 0 /\ j.run = runs'[j.post] => j.state = rendered'[j.post][1]
    BY DEF JobsRight
  <2>1. CASE j = job
    BY <1>3, <1>4, <1>5, <1>6, <2>1
  <2>2. CASE j \in jobs /\ j.post = p
    BY <1>0, <1>4, <1>7, <2>2 DEF ShownInv, JobsRight
  <2>3. CASE j \in jobs /\ j.post # p
    <3>1. j.post \in Post
      BY <1>0, <2>3 DEF ShownInv, Job
    <3> QED BY <1>0, <1>4, <1>5, <2>3, <3>1 DEF ShownInv, JobsRight
  <2> QED BY <1>8, <2>1, <2>2, <2>3
<1>10. /\ shown' \in [Post -> Text] /\ shownBy' \in [Post -> Nat]
       /\ shownBy'[p] \in {shownBy[p], runs'[p]}
       /\ \A q \in Post : q # p => shown'[q] = shown[q] /\ shownBy'[q] = shownBy[q]
       /\ shownBy'[p] = shownBy[p] \/ shown'[p] \in {post[p].version, Error}
  <2>1. CASE shown' = [shown EXCEPT ![p] = Error] /\ shownBy' = [shownBy EXCEPT ![p] = runs'[p]]
    BY <1>0, <1>4, <2>1, PostTypes DEF ShownInv
  <2>2. CASE /\ Cached(p, post[p]) # {}
             /\ shown' = [shown EXCEPT ![p] = CHOOSE m \in Cached(p, post[p]) : TRUE]
             /\ shownBy' = [shownBy EXCEPT ![p] = runs'[p]]
    <3> DEFINE c == CHOOSE m \in Cached(p, post[p]) : TRUE
    <3>1. c \in Cached(p, post[p])
      BY <2>2
    <3>2. shown' = [shown EXCEPT ![p] = c]
      BY <2>2
    <3> HIDE DEF c
    <3>3. c = post[p].version /\ c \in Text
      BY <1>3, <3>1, CachedRight, PostTypes
    <3> QED BY <1>0, <1>4, <2>2, <3>2, <3>3 DEF ShownInv
  <2>3. CASE shown' = [shown EXCEPT ![p] = Nothing] /\ shownBy' = shownBy
    BY <1>0, <2>3, PostTypes DEF ShownInv
  <2> QED BY <1>2, <2>1, <2>2, <2>3
<1>11. shownBy[p] # runs'[p] /\ \A q \in Post : shownBy[q] <= runs[q] /\ shownBy[q] \in Nat
  BY <1>0, <1>4 DEF ShownInv, ShownLate
<1>12. ShownLate'
  <2> SUFFICES ASSUME NEW q \in Post PROVE shownBy'[q] <= runs'[q]
    BY DEF ShownLate
  <2>1. CASE q = p
    BY <1>4, <1>10, <1>11, <2>1
  <2>2. CASE q # p
    BY <1>4, <1>10, <1>11, <2>2
  <2> QED BY <2>1, <2>2
<1>13. LastEffectShowsItsVersion'
  <2> SUFFICES ASSUME NEW q \in Post, runs'[q] # 0, shownBy'[q] = runs'[q]
               PROVE  shown'[q] \in {rendered'[q][1].version, Error}
    BY DEF LastEffectShowsItsVersion
  <2>1. CASE q = p
    BY <1>5, <1>10, <1>11, <2>1
  <2>2. CASE q # p
    BY <1>0, <1>4, <1>5, <1>10, <2>2 DEF ShownInv, LastEffectShowsItsVersion
  <2> QED BY <2>1, <2>2
<1> QED BY <1>0, <1>1, <1>4, <1>5, <1>8, <1>9, <1>10, <1>12, <1>13 DEF ShownInv

\* A decryption ends.
LEMMA DisplaysStep ==
  ASSUME ShownInv, NEW j \in jobs, NEW t \in {j.state.version, Error}, Displays(j, t),
         jobs' = jobs \ {j}, UNCHANGED <<post, made, sending, key, rendered, runs>>
  PROVE  ShownInv'
<1>1. /\ j.post \in Post /\ j.run \in Nat /\ j.state.version \in Version
      /\ j.run <= runs[j.post]
      /\ j.run # 0 /\ j.run = runs[j.post] => j.state = rendered[j.post][1]
  BY DEF ShownInv, JobsRight, Job
<1>2. t \in Text
  BY <1>1, PostTypes
<1>3. JobsRight' /\ jobs' \subseteq Job
  BY DEF ShownInv, JobsRight
<1>4. CASE j.run = 0
  <2>1. shown' = shown /\ shownBy' = shownBy
    BY <1>4 DEF Displays
  <2> QED BY <1>3, <2>1 DEF ShownInv, ShownLate, LastEffectShowsItsVersion
<1>5. CASE j.run # 0
  <2>1. shown' = [shown EXCEPT ![j.post] = t] /\ shownBy' = [shownBy EXCEPT ![j.post] = j.run]
    BY <1>5 DEF Displays
  <2>2. /\ shown' \in [Post -> Text] /\ shownBy' \in [Post -> Nat]
        /\ shown'[j.post] = t /\ shownBy'[j.post] = j.run
        /\ \A q \in Post : q # j.post => shown'[q] = shown[q] /\ shownBy'[q] = shownBy[q]
    BY <1>1, <1>2, <2>1 DEF ShownInv
  <2>3. ShownLate'
    BY <1>1, <2>2 DEF ShownInv, ShownLate
  <2>4. LastEffectShowsItsVersion'
    BY <1>1, <1>5, <2>2 DEF ShownInv, LastEffectShowsItsVersion
  <2> QED BY <1>3, <2>2, <2>3, <2>4 DEF ShownInv
<1> QED BY <1>4, <1>5

\* The tab is reloaded.
LEMMA ReloadStep ==
  ASSUME ShownInv, Reload
  PROVE  ShownInv'
<1>1. /\ key' = 0 /\ sending' = {} /\ jobs' = {} /\ UNCHANGED <<post, made>>
      /\ rendered' = [p \in Post |-> NotRendered]
      /\ runs' = [p \in Post |-> 0] /\ shownBy' = [p \in Post |-> 0]
      /\ shown' = [p \in Post |-> Nothing]
  BY DEF Reload
<1>2. JobsRight' /\ ShownLate' /\ LastEffectShowsItsVersion'
  BY <1>1 DEF JobsRight, ShownLate, LastEffectShowsItsVersion
<1>3. /\ rendered' \in [Post -> PostState \X (0..MaxKeys)]
      /\ runs' \in [Post -> Nat] /\ shownBy' \in [Post -> Nat] /\ shown' \in [Post -> Text]
  BY <1>1, PostTypes
<1>4. key' \in 0..MaxKeys /\ jobs' \subseteq Job
  BY <1>1, PostTypes
<1>5. sending' \subseteq [post : Post, version : Version]
  BY <1>1
<1> QED BY <1>1, <1>2, <1>3, <1>4, <1>5 DEF ShownInv

\* What a step may do to the cache: leave it, clear it, or one insertion.
CacheChange == cache' = cache \/ cache' = <<>> \/ CacheStep
\* Each action of ReadPost keeps the invariant and does to the cache what it may.
LEMMA ReadStep ==
  ASSUME ReadInv, [ReadNext]_readVars
  PROVE  ReadInv' /\ CacheChange
<1> DEFINE Good == ReadInv' /\ CacheChange
<1>0. ShownInv /\ CacheInv /\ \A p \in Post : made[p] \in 0..MaxMade
  BY Halves DEF ShownInv
<1>1. ASSUME ShownInv', CacheChange PROVE Good
  <2>1. CacheInv'
    <3>1. CASE CacheStep
      BY <3>1 DEF CacheInv, CacheStep
    <3>2. CASE cache' = cache \/ cache' = <<>>
      BY <3>2, CacheFrame DEF CacheInv
    <3> QED BY <1>1, <3>1, <3>2 DEF CacheChange
  <2>2. ReadInv'
    BY <1>1, <2>1 DEF ReadInv, ReadTypeOK, CacheInv, ShownInv
  <2> QED BY <1>1, <2>2
<1>2. ASSUME NEW p \in Post, made[p] < MaxMade, made' = [made EXCEPT ![p] = made[p] + 1]
      PROVE  made' \in [Post -> 0..MaxMade] /\ made'[p] \in Version
  <2>1. made \in [Post -> 0..MaxMade]
    BY <1>0 DEF ShownInv
  <2> QED BY <1>2, <2>1, ReadPostAssumption DEF Version
<1>3. ASSUME NEW p \in Post, Arrive(p) PROVE Good
  <2>1. made' \in [Post -> 0..MaxMade] /\ made'[p] \in Version
    BY <1>2, <1>3 DEF Arrive
  <2>2. Store(p, made'[p]) /\ UNCHANGED <<sending, key, cache, rendered, runs, shown, shownBy>>
    BY <1>3 DEF Arrive
  <2>3. sending' \subseteq [post : Post, version : Version]
    BY <1>0, <2>2 DEF ShownInv
  <2> DEFINE v == made'[p]
  <2> HIDE DEF v
  <2>4. v \in Version /\ Store(p, v)
    BY <2>1, <2>2 DEF v
  <2>5. ShownInv'
    BY <1>0, <2>1, <2>2, <2>3, <2>4, StoreStep
  <2> QED BY <1>1, <2>2, <2>5 DEF CacheChange
<1>4. ASSUME NEW p \in Post, SendMine(p) PROVE Good
  <2>1. made' \in [Post -> 0..MaxMade] /\ made'[p] \in Version
    BY <1>2, <1>4 DEF SendMine
  <2>2. /\ Add(<<p, post[p].version = Absent>>, made'[p], made'[p])
        /\ sending' = sending \cup {[post |-> p, version |-> made'[p]]}
        /\ UNCHANGED <<post, key, rendered, runs, jobs, shown, shownBy>>
    BY <1>4 DEF SendMine
  <2>3. sending' \subseteq [post : Post, version : Version] /\ key' \in 0..MaxKeys
    BY <1>0, <2>1, <2>2 DEF ShownInv
  <2>4. ShownInv'
    BY <1>0, <2>1, <2>2, <2>3, TabFrame
  <2>5. <<p, post[p].version = Absent>> \in ID
    BY DEF ID
  <2>6. CacheStep
    <3> DEFINE v == made'[p]
    <3> DEFINE id == <<p, post[p].version = Absent>>
    <3>1. id \in ID /\ v \in Version /\ Add(id, v, v)
      BY <2>1, <2>2, <2>5
    <3> HIDE DEF v, id
    <3> QED BY <3>1, AddStep
  <2> QED BY <1>1, <2>4, <2>6 DEF CacheChange
<1>5. ASSUME NEW s \in sending, MineArrives(s) PROVE Good
  <2>1. /\ sending' = sending \ {s}
        /\ UNCHANGED <<made, key, cache, rendered, runs, shown, shownBy>>
        /\ UNCHANGED <<post, jobs>> \/ Store(s.post, s.version)
    BY <1>5 DEF MineArrives
  <2>2. /\ s.post \in Post /\ s.version \in Version
        /\ sending' \subseteq [post : Post, version : Version]
        /\ made' \in [Post -> 0..MaxMade] /\ key' \in 0..MaxKeys
    BY <1>0, <2>1 DEF ShownInv
  <2>3. CASE UNCHANGED <<post, jobs>>
    BY <1>0, <1>1, <2>1, <2>2, <2>3, TabFrame DEF CacheChange
  <2>4. CASE Store(s.post, s.version)
    BY <1>0, <1>1, <2>1, <2>2, <2>4, StoreStep DEF CacheChange
  <2> QED BY <2>1, <2>3, <2>4
<1>6. CASE NewKey
  <2>1. /\ key' = key + 1 /\ key < MaxKeys /\ cache' = <<>>
        /\ UNCHANGED <<post, made, sending, rendered, runs, jobs, shown, shownBy>>
    BY <1>6 DEF NewKey
  <2>2. /\ key' \in 0..MaxKeys /\ made' \in [Post -> 0..MaxMade]
        /\ sending' \subseteq [post : Post, version : Version]
    BY <1>0, <2>1, ReadPostAssumption DEF ShownInv
  <2> QED BY <1>0, <1>1, <2>1, <2>2, TabFrame DEF CacheChange
<1>7. CASE Reload
  <2>1. cache' = <<>>
    BY <1>7 DEF Reload
  <2> QED BY <1>0, <1>1, <1>7, <2>1, ReloadStep DEF CacheChange
<1>8. ASSUME NEW p \in Post, Effect(p) PROVE Good
  <2>1. cache' = cache
    BY <1>8 DEF Effect
  <2> QED BY <1>1, <1>8, <2>1, EffectStep DEF CacheChange
<1>9. ASSUME NEW j \in jobs, Decrypted(j) PROVE Good
  <2>1. /\ Displays(j, j.state.version) /\ jobs' = jobs \ {j}
        /\ Add(<<j.post, j.state.pending>>, j.state.version, j.state.version)
        /\ UNCHANGED <<post, made, sending, key, rendered, runs>>
    BY <1>9 DEF Decrypted
  <2>2. /\ j.post \in Post /\ j.state \in PostState /\ j.state.version \in Version
    BY <1>0 DEF ShownInv, JobsRight, Job
  <2>3. <<j.post, j.state.pending>> \in ID
    BY <2>2, PostTypes
  <2>4. CacheStep
    BY <2>1, <2>2, <2>3, AddStep
  <2>5. ShownInv'
    BY <1>0, <2>1, DisplaysStep
  <2> QED BY <1>1, <2>4, <2>5 DEF CacheChange
<1>10. ASSUME NEW j \in jobs, Fails(j) PROVE Good
  <2>1. /\ Displays(j, Error) /\ jobs' = jobs \ {j} /\ cache' = cache
        /\ UNCHANGED <<post, made, sending, key, rendered, runs>>
    BY <1>10 DEF Fails
  <2> QED BY <1>0, <1>1, <2>1, DisplaysStep DEF CacheChange
<1>11. CASE UNCHANGED readVars
  <2>1. /\ made' \in [Post -> 0..MaxMade] /\ key' \in 0..MaxKeys
        /\ sending' \subseteq [post : Post, version : Version]
    BY <1>0, <1>11 DEF ShownInv, readVars
  <2> QED BY <1>0, <1>1, <1>11, <2>1, TabFrame DEF CacheChange, readVars
<1> HIDE DEF Good
<1> QED BY <1>3, <1>4, <1>5, <1>6, <1>7, <1>8, <1>9, <1>10, <1>11 DEF ReadNext, Good

------------------------------------------------------------------------------
\* In every behaviour of ReadPost, what is cached is the text of its signature, and what
\* the last effect of a post has displayed is the text of the version that it ran for.
THEOREM ReadInvariance == ReadSpec => []ReadInv
BY ReadInitInv, ReadStep, PTL DEF ReadSpec

\* The variables of ReadPost keep their types.
THEOREM ReadTypeCorrect == ReadSpec => []ReadTypeOK
<1>1. ReadInv => ReadTypeOK
  BY DEF ReadInv
<1> QED BY <1>1, ReadInvariance, PTL

\* Neither the cache nor a change of keys makes the last effect of E2EEPost display the
\* text of another version.
THEOREM LastEffectIsRight == ReadSpec => []LastEffectShowsItsVersion
<1>1. ReadInv => LastEffectShowsItsVersion
  BY DEF ReadInv
<1> QED BY <1>1, ReadInvariance, PTL

\* The cache of msg_cache.ts stays below MAX_MSGS, and an insertion evicts nothing but the
\* oldest entry, and only when the cache is full.
THEOREM CacheEvictsOne == ReadSpec => EvictsOnlyAtTheLimit
<1> DEFINE A == /\ Len(cache') < MaxMsgs
                /\ cache' # <<>> /\ ~(Ids(cache) \subseteq Ids(cache')) =>
                     Len(cache) = MaxMsgs - 1 /\ Ids(cache) \ Ids(cache') = {cache[1].id}
<1>1. ReadInv /\ ReadInv' /\ [ReadNext]_readVars => [A]_cache
  <2> SUFFICES ASSUME ReadInv, ReadInv', [ReadNext]_readVars, cache' # cache PROVE A
    OBVIOUS
  <2>1. CacheChange
    BY ReadStep
  <2>2. Len(cache') < MaxMsgs
    BY DEF ReadInv, Sized
  <2>3. CASE cache' = <<>>
    BY <2>2, <2>3
  <2>4. CASE CacheStep
    BY <2>2, <2>4 DEF CacheStep
  <2> QED BY <2>1, <2>3, <2>4 DEF CacheChange
<1>2. ReadSpec => [][A]_cache
  BY <1>1, ReadInvariance, PTL DEF ReadSpec
<1> QED BY <1>2 DEF EvictsOnlyAtTheLimit
==============================================================================
