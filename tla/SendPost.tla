------------------------------- MODULE SendPost -------------------------------
(***************************************************************************)
(* How the web client decides to send a message encrypted or in clear:     *)
(* encryptPost and setChannelEncryptionMethod of webapp/src/hooks.tsx, for *)
(* one channel and the tabs of one browser.  The tabs share localStorage,  *)
(* which remembers the method of the last message; every tab has its own   *)
(* redux store, which caches the channel's method.  A step ends at an      *)
(* await, where other calls and other tabs run.  What encryption itself    *)
(* does is in Recipients; here it succeeds, returns an error or throws.    *)
(***************************************************************************)
EXTENDS Sequences, Integers, FiniteSets

CONSTANTS Post,      \* messages the user sends
          Tab,       \* tabs of the browser
          MaxFlips,  \* bound on the method changes made by others
          MaxSets    \* bound on the user's own /e2ee start and stop

ASSUME BoundsAssumption == MaxFlips \in Nat /\ MaxSets \in Nat

VARIABLES
  method,    \* the channel's method on the server
  flips,     \* method changes made by others so far
  status,    \* [Tab -> Method \cup {"unknown"}]: chansEncrMethod of each tab
  last,      \* localStorage 'chanEncrMeth:' + chanID
  set,       \* [Tab -> SetState]: the tab's setChannelEncryptionMethod call
  sets,      \* how many of these calls were made
  pc,        \* [Post -> Label]
  tab,       \* [Post -> Tab]: where the message is sent from
  lastRead,  \* [Post -> Method]: the local lastMethod
  got,       \* [Post -> Method]: the local method
  prompted,  \* history: the posts for which the user confirmed
  alone,     \* history: the post or tab whose call no other call overlapped
  log        \* history: Seq(Entry), the messages handed to the server and the
             \* methods set

sendVars == <<pc, tab, lastRead, got>>
histVars == <<prompted, alone, log>>
vars == <<method, flips, status, last, set, sets, sendVars, histVars>>

Method == {"none", "p2p"}
NoSet == [stage |-> "idle"]
SetState == {NoSet} \cup [stage : {"asked", "stored"}, method : Method]
Label == {"idle", "asked", "answered", "known", "encrypt", "gate",
          "posted", "rejected", "discarded", "error", "thrown"}
Settled == {"idle", "posted", "rejected", "discarded", "error", "thrown"}
Entry == [what : {"post", "set"}, method : Method, prompted : BOOLEAN, alone : BOOLEAN]

Active == {p \in Post : pc[p] \notin Settled}
Busy == Active # {} \/ \E t \in Tab : set[t] # NoSet

\* An absent item reads as E2EE_CHAN_ENCR_METHOD_NONE.
Init == /\ method = "none" /\ flips = 0
        /\ status = [t \in Tab |-> "unknown"]
        /\ last = "none"
        /\ set = [t \in Tab |-> NoSet] /\ sets = 0
        /\ pc = [p \in Post |-> "idle"]
        /\ tab \in [Post -> Tab]
        /\ lastRead = [p \in Post |-> "none"]
        /\ got = [p \in Post |-> "none"]
        /\ prompted = {} /\ alone = {}
        /\ log = <<>>

Goto(p, label) == pc' = [pc EXCEPT ![p] = label]

\* A call by post or tab x begins: alone, or overlapping those that run.
Begin(x) == alone' = IF Busy THEN {} ELSE {x}

\* Another member sets the other method.
Flip == /\ flips < MaxFlips
        /\ flips' = flips + 1
        /\ \E m \in Method \ {method} : method' = m
        /\ UNCHANGED <<status, last, set, sets, sendVars, histVars>>

\* channelStateChanged arrives, or the tab reconnects and forgets.
Notice(t) == /\ \E m \in {method, "unknown"} :
                  m # status[t] /\ status' = [status EXCEPT ![t] = m]
             /\ UNCHANGED <<method, flips, last, set, sets, sendVars, histVars>>

------------------------------------------------------------------------------
\* setChannelEncryptionMethod, from /e2ee start, /e2ee stop or the icon.

StartSet(t, m) ==
  /\ set[t] = NoSet /\ sets < MaxSets
  /\ sets' = sets + 1
  /\ set' = [set EXCEPT ![t] = [stage |-> "asked", method |-> m]]
  /\ Begin(t)
  /\ UNCHANGED <<method, flips, status, last, sendVars, prompted, log>>

\* The server stores the method and answers, or fails and the call throws.
AnswerSet(t) ==
  /\ set[t].stage = "asked"
  /\ \/ method' = set[t].method /\ set' = [set EXCEPT ![t].stage = "stored"]
     \/ UNCHANGED method /\ set' = [set EXCEPT ![t] = NoSet]
  /\ UNCHANGED <<flips, status, last, sets, sendVars, histVars>>

\* setLastEncryptionMethodForChannel, after the await.
FinishSet(t) ==
  /\ set[t].stage = "stored"
  /\ last' = set[t].method
  /\ set' = [set EXCEPT ![t] = NoSet]
  /\ log' = Append(log, [what |-> "set", method |-> set[t].method,
                         prompted |-> FALSE, alone |-> t \in alone])
  /\ UNCHANGED <<method, flips, status, sets, sendVars, prompted, alone>>

------------------------------------------------------------------------------
\* encryptPost.

\* The user sends a message: getLastEncryptionMethodForChannel, then the call of
\* getChannelEncryptionMethod, which looks into the tab's store.
Start(p) ==
  /\ pc[p] = "idle"
  /\ lastRead' = [lastRead EXCEPT ![p] = last]
  /\ Begin(p)
  /\ \/ /\ status[tab[p]] = "unknown"
        /\ Goto(p, "asked") /\ UNCHANGED got
     \/ /\ status[tab[p]] # "unknown"
        /\ got' = [got EXCEPT ![p] = status[tab[p]]]
        /\ Goto(p, "known")
  /\ UNCHANGED <<method, flips, status, last, set, sets, tab, prompted, log>>

\* messageWillBeUpdated: the encrypted text is removed from the edited post, and a
\* post that is left without any text goes as it is.
EmptyEdit(p) ==
  /\ pc[p] = "idle"
  /\ Goto(p, "posted")
  /\ UNCHANGED <<method, flips, status, last, set, sets, tab, lastRead, got, histVars>>

\* Fault: the error of getChannelEncryptionMethod is not looked at.
AnswerUnchecked(p) ==
  /\ pc[p] = "asked"
  /\ \/ got' = [got EXCEPT ![p] = method] /\ Goto(p, "answered")
     \/ got' = [got EXCEPT ![p] = "unknown"] /\ Goto(p, "known")
  /\ UNCHANGED <<method, flips, status, last, set, sets, tab, lastRead, histVars>>

\* GetChanEncryptionMethod answers, or the call ends with an error.
Answer(p) ==
  /\ pc[p] = "asked"
  /\ \/ got' = [got EXCEPT ![p] = method] /\ Goto(p, "answered")
     \/ UNCHANGED got /\ Goto(p, "error")
  /\ UNCHANGED <<method, flips, status, last, set, sets, tab, lastRead, histVars>>

\* Fault: the promise of the call is never resolved.
ReceivedUnresolved(p) ==
  /\ pc[p] = "answered"
  /\ status' = [status EXCEPT ![tab[p]] = got[p]]
  /\ UNCHANGED <<method, flips, last, set, sets, sendVars, histVars>>

\* RECEIVED_ENCRYPTION_STATUS with the answer.
Received(p) ==
  /\ pc[p] = "answered"
  /\ status' = [status EXCEPT ![tab[p]] = got[p]]
  /\ Goto(p, "known")
  /\ UNCHANGED <<method, flips, last, set, sets, tab, lastRead, got, histVars>>

\* Fault: the two methods are swapped.
NeedsPromptSwapped(p) == lastRead[p] = "none" /\ got[p] # "none"

\* The prompt is shown when lastMethod says encrypted and the method says clear.
NeedsPrompt(p) == lastRead[p] # "none" /\ got[p] = "none"

\* The user declines: message discarded.
Discard(p) ==
  /\ pc[p] = "known" /\ NeedsPrompt(p)
  /\ Goto(p, "discarded")
  /\ UNCHANGED <<method, flips, status, last, set, sets, tab, lastRead, got, histVars>>

Handed(p) == Append(log, [what |-> "post", method |-> got[p],
                          prompted |-> p \in prompted', alone |-> p \in alone])

\* No prompt, or the user confirms: the method is remembered, and a clear post
\* is handed to the server.
Proceed(p) ==
  /\ pc[p] = "known"
  /\ prompted' = IF NeedsPrompt(p) THEN prompted \cup {p} ELSE prompted
  /\ last' = got[p]
  /\ \/ got[p] = "p2p" /\ Goto(p, "encrypt") /\ UNCHANGED log
     \/ got[p] = "none" /\ Goto(p, "gate") /\ log' = Handed(p)
  /\ UNCHANGED <<method, flips, status, set, sets, tab, lastRead, got, alone>>

\* The post is encrypted and handed to the server, or one of the error returns keeps
\* it from being sent, or what the hook awaits (or the name of a recipient without a
\* profile) throws: the hook's promise is rejected, without an error for the user.
Encrypt(p) ==
  /\ pc[p] = "encrypt"
  /\ UNCHANGED prompted
  /\ \/ Goto(p, "gate") /\ log' = Handed(p)
     \/ (Goto(p, "error") \/ Goto(p, "thrown")) /\ UNCHANGED log
  /\ UNCHANGED <<method, flips, status, last, set, sets, tab, lastRead, got, alone>>

\* The server's hook rejects a clear post on an encrypted channel (PostGate).  An
\* edited post takes the same way up to here, but no hook of the plugin sees it.
Deliver(p) ==
  /\ pc[p] = "gate"
  /\ \E isUpdate \in BOOLEAN :
       Goto(p, IF ~isUpdate /\ got[p] = "none" /\ method # "none" THEN "rejected" ELSE "posted")
  /\ UNCHANGED <<method, flips, status, last, set, sets, tab, lastRead, got, histVars>>

SendStep(p) == \/ Answer(p) \/ Received(p) \/ Discard(p) \/ Proceed(p)
               \/ Encrypt(p) \/ Deliver(p)

AllSettled == /\ \A p \in Post : pc[p] \in Settled \ {"idle"}
              /\ UNCHANGED vars

Next == \/ Flip
        \/ \E t \in Tab : \/ Notice(t) \/ AnswerSet(t) \/ FinishSet(t)
                          \/ \E m \in Method : StartSet(t, m)
        \/ \E p \in Post : Start(p) \/ EmptyEdit(p) \/ SendStep(p)
        \/ AllSettled

Spec == Init /\ [][Next]_vars

\* The event loop runs every continuation; requests are answered or time out.
FairSpec == Spec /\ \A p \in Post : WF_vars(SendStep(p))

------------------------------------------------------------------------------

\* Every variable has its type.
TypeOK == /\ method \in Method /\ flips \in 0..MaxFlips
          /\ status \in [Tab -> Method \cup {"unknown"}]
          /\ last \in Method
          /\ set \in [Tab -> SetState] /\ sets \in 0..MaxSets
          /\ pc \in [Post -> Label] /\ tab \in [Post -> Tab]
          /\ lastRead \in [Post -> Method] /\ got \in [Post -> Method]
          /\ prompted \subseteq Post /\ alone \subseteq Post \cup Tab
          /\ log \in Seq(Entry)

\* The entry at i is a clear message that the user did not confirm and that
\* follows an encrypted message or the user's own choice of encryption.
SilentlyClear(i) == /\ log[i].what = "post" /\ log[i].method = "none"
                    /\ ~log[i].prompted
                    /\ log[i - 1].method = "p2p"

\* A message goes out in clear after an encrypted one only with the user's consent
\* (to this message, or to one that the server rejected in between), whatever the
\* other members and the cached methods of the tabs do, provided that no other
\* send or set of this browser overlapped the two.
NoSilentClear ==
  \A i \in 2..Len(log) : log[i].alone /\ log[i - 1].alone => ~SilentlyClear(i)

\* Every message that the user sends ends up posted, rejected or discarded, or its hook
\* ends with an error or an exception: no cached status or missing answer blocks it.
EveryPostSettles == \A p \in Post : pc[p] \in {"asked", "known"} ~> pc[p] \in Settled
==============================================================================
