-------------------------------- MODULE PrivKey --------------------------------
(***************************************************************************)
(* The life of a user's private key: generated by /e2ee init, imported     *)
(* from a backup or loaded from the browser, kept in the redux store and   *)
(* in IndexedDB, its public half registered on the server                  *)
(* (webapp/src/privkey.ts, hooks.tsx, e2ee.ts, keystore.ts, the import     *)
(* dialog, and the reducers privkey and pubkeys).  One user, several       *)
(* browsers.  A step ends at an await.                                     *)
(***************************************************************************)
EXTENDS Sequences, FiniteSets

CONSTANTS Device,  \* browsers of the user, one tab each
          Task,    \* calls of init and import; a new key has its task's name
          Nil,     \* no key
          Unknown, \* a public key that was not fetched yet
          Failed   \* an error in place of an answer

ASSUME CallAssumption == Device \cap Task = {}

\* A call of init or import, or the load of a browser's current tab.
Call == Device \cup Task

VARIABLES
  registered,  \* the public key on the server
  mem,         \* [Device -> MaybeKey]: the reducer privkey
  cached,      \* [Device -> MaybeKey \cup {Unknown}]: pubkeys.get(own user)
  disk,        \* [Device -> halves]: the ecdh_ and ecdsa_ items in IndexedDB
  writes,      \* [Device -> Seq(<<half, key>>)]: readwrite transactions queued
  task,        \* [Call -> record]: the state of each call
  open,        \* the browsers that have a tab
  ks,          \* those whose tab has opened its keystore, and so observes privkey
  atBoot,      \* history: [Device -> MaybeKey], registered when the tab opened
  unsaved,     \* history: the browsers whose tab could not write a half
  disturbed,   \* history: the browsers whose tab had overlapping calls, a failed
               \* push or a push by another browser
  accepted,    \* history: the calls whose key the server registered
  replaced     \* history: the calls whose key replaced another registered key

histVars == <<atBoot, unsaved, disturbed, accepted, replaced>>
tabVars == <<open, ks>>
vars == <<registered, mem, cached, disk, writes, task, tabVars, histVars>>

\* A key pair for ECDH and one for ECDSA, each named by the call that made it.
Key == [ecdh : Task, ecdsa : Task]
ASSUME ConstantsAssumption == /\ Nil \notin Task \cup Key
                              /\ Unknown \notin Task \cup Key \cup {Nil}
                              /\ Failed \notin Task \cup Key \cup {Nil, Unknown}
MaybeKey == Key \cup {Nil}
Whole(k) == [ecdh |-> k, ecdsa |-> k]
Half == {"ecdh", "ecdsa"}

Label == {"idle", "opening", "read", "lookup", "fetch", "answer", "decide", "install", "push",
          "generated", "imported", "ended"}
Running == {"opening", "read", "lookup", "fetch", "answer", "decide", "install", "push"}
TaskState == [pc : Label, dev : Device, kind : {"load", "init", "import"},
              force : BOOLEAN, hadKey : BOOLEAN, key : MaybeKey,
              saw : MaybeKey \cup {Unknown, Failed}]

Init == /\ registered = Nil
        /\ mem = [d \in Device |-> Nil]
        /\ cached = [d \in Device |-> Unknown]
        /\ disk = [d \in Device |-> [h \in Half |-> Nil]]
        /\ writes = [d \in Device |-> <<>>]
        /\ \E browser \in [Task -> Device] :
             task = [c \in Call |->
               [pc |-> "idle", dev |-> IF c \in Task THEN browser[c] ELSE c,
                kind |-> IF c \in Task THEN "init" ELSE "load",
                force |-> FALSE, hadKey |-> FALSE, key |-> Nil, saw |-> Unknown]]
        /\ open = {} /\ ks = {} /\ unsaved = {} /\ disturbed = {} /\ atBoot = [d \in Device |-> Nil]
        /\ accepted = {} /\ replaced = {}

RunsIn(d) == {t \in Call : task[t].dev = d /\ task[t].pc \in Running}
At(t, label) == task[t].pc = label
Dev(t) == task[t].dev

\* The keys whose backup the user has, from the chat message that init sends or
\* from the server's mail.
Made == {t \in Task : task[t].kind = "init" /\ (At(t, "generated") \/ t \in accepted)}

------------------------------------------------------------------------------
\* The calls begin.

\* AppPrivKey.init of a new tab, up to the opening of the keystore.
BeginLoad(d) ==
  /\ d \notin open
  /\ open' = open \cup {d}
  /\ atBoot' = [atBoot EXCEPT ![d] = registered]
  /\ task' = [task EXCEPT ![d].pc = "opening", ![d].key = Nil]
  /\ UNCHANGED <<registered, mem, cached, disk, writes, ks, unsaved, disturbed, accepted, replaced>>

\* The histories when another call begins in a tab.
Overlap(d) ==
  /\ disturbed' = IF RunsIn(d) = {} THEN disturbed ELSE disturbed \cup {d}
  /\ UNCHANGED <<atBoot, unsaved, accepted, replaced>>

\* handleInit: AppPrivKey.exists is evaluated before the first await.
BeginInit(t, force) ==
  /\ At(t, "idle") /\ Dev(t) \in open
  /\ task' = [task EXCEPT ![t].pc = "lookup", ![t].force = force,
                          ![t].hadKey = mem[Dev(t)] # Nil]
  /\ Overlap(Dev(t))
  /\ UNCHANGED <<registered, mem, cached, disk, writes, tabVars>>

\* AppPrivKey.import of a backup; the dialog forces it once the user confirmed.
BeginImport(t, k, force) ==
  /\ At(t, "idle") /\ Dev(t) \in open /\ k \in Made
  /\ task' = [task EXCEPT ![t].pc = IF force THEN "install" ELSE "lookup",
                          ![t].kind = "import", ![t].force = force, ![t].key = Whole(k)]
  /\ Overlap(Dev(t))
  /\ UNCHANGED <<registered, mem, cached, disk, writes, tabVars>>

------------------------------------------------------------------------------
\* Their steps.

\* privkey.save: one transaction for each half.
Save(d, k) ==
  writes' = [writes EXCEPT ![d] = @ \o <<<<"ecdh", k.ecdh>>, <<"ecdsa", k.ecdsa>>>>]

\* Fault: the observer is registered, and does not look at what is there.
OpenStoreUnobserved(d) ==
  /\ At(d, "opening")
  /\ \/ task' = [task EXCEPT ![d].pc = "ended"] /\ UNCHANGED ks
     \/ task' = [task EXCEPT ![d].pc = "read"] /\ ks' = ks \cup {d}
  /\ UNCHANGED <<registered, mem, cached, disk, writes, open, histVars>>

\* KeyStore.open fails, and the tab goes on without one; or the observer is
\* registered and saves the key that a call has installed meanwhile, then load.
OpenStore(d) ==
  /\ At(d, "opening")
  /\ \/ /\ task' = [task EXCEPT ![d].pc = "ended"]
        /\ UNCHANGED <<writes, ks>>
     \/ /\ task' = [task EXCEPT ![d].pc = "read"]
        /\ ks' = ks \cup {d}
        /\ IF mem[d] = Nil THEN UNCHANGED writes ELSE Save(d, mem[d])
  /\ UNCHANGED <<registered, mem, cached, disk, open, histVars>>

\* PrivateKeyMaterial.load: both items, or a KeyStoreError when one is missing.  Any
\* other error of the reads ends the load just so.
ReadDisk(t) ==
  /\ At(t, "read") /\ writes[Dev(t)] = <<>>
  /\ LET halves == disk[Dev(t)]
     IN  task' = IF \E h \in Half : halves[h] = Nil
                 THEN [task EXCEPT ![t].pc = "ended"]
                 ELSE [task EXCEPT ![t].pc = "lookup", ![t].key = halves]
  /\ UNCHANGED <<registered, mem, cached, disk, writes, tabVars, histVars>>

\* getUserPubkey takes the cached key if there is one, else asks the server.  What the
\* posts and recipients of the tab look up, and so cache, is left out.
LookUp(t) ==
  /\ At(t, "lookup")
  /\ task' = [task EXCEPT ![t].pc = IF cached[Dev(t)] = Unknown THEN "fetch" ELSE "decide",
                          ![t].saw = cached[Dev(t)]]
  /\ UNCHANGED <<registered, mem, cached, disk, writes, tabVars, histVars>>

\* Fault: an error is handled like an answer.
FetchUnchecked(t) ==
  /\ At(t, "fetch")
  /\ \E answer \in {registered, Failed} :
       task' = [task EXCEPT ![t].pc = "answer", ![t].saw = answer]
  /\ UNCHANGED <<registered, mem, cached, disk, writes, tabVars, histVars>>

\* handleGetPubKeys reads the key, or the request fails.
Fetch(t) ==
  /\ At(t, "fetch")
  /\ \E answer \in {registered, Failed} :
       task' = [task EXCEPT ![t].pc = IF answer = Failed THEN "decide" ELSE "answer",
                            ![t].saw = answer]
  /\ UNCHANGED <<registered, mem, cached, disk, writes, tabVars, histVars>>

\* RECEIVED_PUBKEYS overwrites the cached key with the answer.
Receive(t) ==
  /\ At(t, "answer")
  /\ cached' = [cached EXCEPT ![Dev(t)] = task[t].saw]
  /\ task' = [task EXCEPT ![t].pc = "decide"]
  /\ UNCHANGED <<registered, mem, disk, writes, tabVars, histVars>>

\* Fault: only the ECDH halves are compared.
CheckOneHalf(t) ==
  /\ At(t, "decide") /\ task[t].kind # "init"
  /\ LET saw == task[t].saw
         same == saw \in Key /\ saw.ecdh = task[t].key.ecdh
     IN  task' = [task EXCEPT ![t].saw = Unknown, ![t].pc =
                    IF saw = Nil \/ same THEN "install" ELSE "ended"]
  /\ UNCHANGED <<registered, mem, cached, disk, writes, tabVars, histVars>>

\* Fault: an error counts as "no key", as it does for init.
CheckIgnoringErrors(t) ==
  /\ At(t, "decide") /\ task[t].kind # "init"
  /\ task' = [task EXCEPT ![t].saw = Unknown, ![t].pc =
                IF task[t].saw \in {Nil, Failed, task[t].key} THEN "install" ELSE "ended"]
  /\ UNCHANGED <<registered, mem, cached, disk, writes, tabVars, histVars>>

\* checkPrivKey, for load and for an unforced import: a key that differs from the
\* registered one ends the call, and so does an error.
Check(t) ==
  /\ At(t, "decide") /\ task[t].kind # "init"
  /\ task' = [task EXCEPT ![t].saw = Unknown, ![t].pc =
                IF task[t].saw \in {Nil, task[t].key} THEN "install" ELSE "ended"]
  /\ UNCHANGED <<registered, mem, cached, disk, writes, tabVars, histVars>>

\* handleInit refuses to replace a key without --force, else generates one; an
\* error of userHasPubkey counts as "no key registered".
DecideInit(t) ==
  /\ At(t, "decide") /\ task[t].kind = "init"
  /\ LET refused == ~task[t].force /\ (task[t].hadKey \/ task[t].saw \in Key)
     IN  task' = [task EXCEPT ![t].saw = Unknown, ![t].hadKey = FALSE,
                              ![t].pc = IF refused THEN "ended" ELSE "install",
                              ![t].key = IF refused THEN Nil ELSE Whole(t)]
  /\ UNCHANGED <<registered, mem, cached, disk, writes, tabVars, histVars>>

\* setPrivKey: GOT_PRIVKEY changes both reducers, and the observer
\* privkeyChanged saves the key, if it was registered.
Install(t) ==
  /\ At(t, "install")
  /\ LET d == Dev(t)
         k == task[t].key
     IN  /\ mem' = [mem EXCEPT ![d] = k]
         /\ cached' = [cached EXCEPT ![d] = k]
         /\ IF d \in ks THEN Save(d, k) ELSE UNCHANGED writes
  /\ task' = [task EXCEPT ![t].pc = IF task[t].kind = "load" THEN "ended" ELSE "push"]
  /\ UNCHANGED <<registered, disk, tabVars, histVars>>

\* APIClient.pushPubKey; on an error the server may have stored the key or not.
\* generate returns the error, import drops it.
Push(t) ==
  /\ At(t, "push")
  /\ \E ok, stored \in BOOLEAN :
       /\ ok => stored
       /\ registered' = IF stored THEN task[t].key ELSE registered
       /\ accepted' = IF stored THEN accepted \cup {t} ELSE accepted
       /\ disturbed' = disturbed \cup (IF ok THEN {} ELSE {Dev(t)})
                                  \cup (IF stored THEN open \ {Dev(t)} ELSE {})
       /\ replaced' = IF registered' # registered /\ registered # Nil
                      THEN replaced \cup {t} ELSE replaced
       /\ task' = [task EXCEPT ![t].pc = IF task[t].kind = "import" THEN "imported"
                                         ELSE IF ok THEN "generated" ELSE "ended"]
  /\ UNCHANGED <<mem, cached, disk, writes, tabVars, atBoot, unsaved>>

\* IndexedDB completes the oldest transaction: a put, which erases.
WriteHalf(d) ==
  /\ writes[d] # <<>>
  /\ disk' = [disk EXCEPT ![d][Head(writes[d])[1]] = Head(writes[d])[2]]
  /\ writes' = [writes EXCEPT ![d] = Tail(@)]
  /\ UNCHANGED <<registered, mem, cached, task, tabVars, histVars>>

\* The transaction fails; nobody handles the error of saveKey.
AbortHalf(d) ==
  /\ writes[d] # <<>>
  /\ writes' = [writes EXCEPT ![d] = Tail(@)]
  /\ unsaved' = unsaved \cup {d}
  /\ UNCHANGED <<registered, mem, cached, disk, task, tabVars, atBoot, disturbed, accepted, replaced>>

\* The tab is closed: its calls and its queued writes are lost.
Close(d) ==
  /\ d \in open
  /\ open' = open \ {d} /\ ks' = ks \ {d} /\ unsaved' = unsaved \ {d}
  /\ disturbed' = disturbed \ {d}
  /\ mem' = [mem EXCEPT ![d] = Nil]
  /\ cached' = [cached EXCEPT ![d] = Unknown]
  /\ writes' = [writes EXCEPT ![d] = <<>>]
  /\ task' = [t \in Call |-> IF Dev(t) = d /\ task[t].pc \in Running
                             THEN [task[t] EXCEPT !.pc = "ended", !.saw = Unknown,
                                                  !.hadKey = FALSE]
                             ELSE task[t]]
  /\ UNCHANGED <<registered, disk, atBoot, accepted, replaced>>

\* GOT_RECONNECTED clears the public keys; no event tells a tab that another
\* browser of its own user pushed a key (OmitUsers).
Reconnect(d) ==
  /\ cached[d] # Unknown
  /\ cached' = [cached EXCEPT ![d] = Unknown]
  /\ UNCHANGED <<registered, mem, disk, writes, task, tabVars, histVars>>

Next == \/ \E t \in Task, force \in BOOLEAN :
             BeginInit(t, force) \/ \E k \in Task : BeginImport(t, k, force)
        \/ \E d \in Device : \/ BeginLoad(d) \/ OpenStore(d)
                              \/ WriteHalf(d) \/ AbortHalf(d)
                              \/ Close(d) \/ Reconnect(d)
        \/ \E t \in Call : \/ ReadDisk(t) \/ LookUp(t) \/ Fetch(t) \/ Receive(t)
                           \/ Check(t) \/ DecideInit(t) \/ Install(t) \/ Push(t)

Spec == Init /\ [][Next]_vars

------------------------------------------------------------------------------

\* Every variable has its type.
TypeOK == /\ registered \in MaybeKey
          /\ mem \in [Device -> MaybeKey]
          /\ cached \in [Device -> MaybeKey \cup {Unknown}]
          /\ disk \in [Device -> [Half -> Task \cup {Nil}]]
          /\ writes \in [Device -> Seq(Half \X Task)]
          /\ task \in [Call -> TaskState]
          /\ ks \subseteq open /\ open \subseteq Device /\ unsaved \subseteq open
          /\ disturbed \subseteq open
          /\ atBoot \in [Device -> MaybeKey]
          /\ accepted \subseteq Task /\ replaced \subseteq Task

\* What the tab holds is what the browser will load: once the queued writes are
\* done, IndexedDB has both halves of the key in memory, also when several calls
\* install keys in the same tab, one of them before the keystore is open, and an
\* older key was there.  Unless the keystore did not open, or a write failed.
DiskFollowsMemory ==
  \A d \in ks \ unsaved : mem[d] # Nil /\ writes[d] = <<>> => disk[d] = mem[d]

\* A tab closed between the two transactions, or one that fails, leaves the halves
\* of two keys in the browser.  Such a mixed pair is never used in a tab that was
\* opened when a key was registered: the check of load stops it, and so does its
\* failure.
MixedKeyNeverUsed ==
  \A d \in Device : mem[d] # Nil /\ atBoot[d] # Nil => mem[d].ecdh = mem[d].ecdsa

\* A tab whose calls came one after the other, and whose pushes succeeded, ends
\* with the registered key or none in use, whatever was in the browser, what the
\* lookups returned and what the tab's cache had; unless another browser pushes
\* its key meanwhile, of which nobody tells this one.
UndisturbedTabUsesRegisteredKey ==
  \A d \in open \ disturbed :
    RunsIn(d) = {} /\ mem[d] # Nil /\ registered # Nil => mem[d] = registered

\* The help text of /e2ee init: "Use --force to erase an existing key": an init
\* without --force never replaces a registered key.
UnforcedInitKeepsKey ==
  \A t \in replaced : task[t].kind = "init" => task[t].force
==============================================================================
