----------------------------- MODULE PrivKeyProofs -----------------------------
(***************************************************************************)
(* What PrivKey guarantees for every set of browsers and calls: its types, *)
(* that a browser's store follows the key in use, that the halves of two   *)
(* keys are never used together, and that a tab uses the registered key.   *)
(***************************************************************************)
EXTENDS PrivKey, Integers, TLAPS

\* The calls that load a key are those of the browsers, and only an import is marked
\* as such when it begins.
LoadInv == /\ \A d \in Device : task[d].dev = d /\ task[d].kind = "load"
           /\ \A t \in Task : task[t].kind # "load"
           /\ \A t \in Task : task[t].pc = "idle" => task[t].kind = "init"

\* Calls run in open tabs, and nothing is left of a tab that was closed.
OpenInv == /\ \A t \in Call : task[t].pc \in Running => Dev(t) \in open
           /\ \A d \in Device \ open :
                mem[d] = Nil /\ cached[d] = Unknown /\ writes[d] = <<>>

\* What a call has at each label: a key before it is checked or installed, and an
\* answer before it is cached.
LabelInv ==
  /\ \A t \in Call : task[t].pc \in {"opening", "read"} => task[t].kind = "load"
  /\ \A t \in Call :
       task[t].kind # "init" /\ task[t].pc \in {"lookup", "fetch", "answer", "decide"} =>
         task[t].key \in Key
  /\ \A t \in Call : task[t].pc \in {"install", "push"} => task[t].key \in Key
  /\ \A t \in Call : task[t].pc = "push" => task[t].kind # "load"
  /\ \A t \in Call : task[t].pc = "answer" => task[t].saw \in MaybeKey

\* Half h of the store s will be k once the writes w are done: k is the last one queued
\* for h, or it is there and none is queued.
WillHold(w, s, h, k) ==
  \/ \E i \in 1..Len(w) : /\ w[i] = <<h, k>>
                          /\ \A j \in (i + 1)..Len(w) : w[j][1] # h
  \/ s[h] = k /\ \A j \in 1..Len(w) : w[j][1] # h

\* What a tab with a keystore holds, its browser will hold.
DiskInv ==
  \A d \in ks \ unsaved, h \in Half :
    mem[d] # Nil => WillHold(writes[d], disk[d], h, mem[d][h])

\* The two halves of k are of one key.
Unmixed(k) == k \in Key => k.ecdh = k.ecdsa

\* Keys that were made or imported are not mixed, so the registered one is not; and
\* in a tab opened when a key was registered, no lookup says that there is none.
MadeWhole == \A t \in Call : task[t].kind # "load" => Unmixed(task[t].key)
RegisteredWhole == Unmixed(registered)
BootRegistered == \A d \in Device : atBoot[d] # Nil => registered # Nil
CachedWhole == \A d \in Device : atBoot[d] # Nil => cached[d] # Nil /\ Unmixed(cached[d])
MemWhole == \A d \in Device : atBoot[d] # Nil => Unmixed(mem[d])
SawWhole ==
  \A t \in Call : atBoot[Dev(t)] # Nil /\ task[t].pc \in {"fetch", "answer", "decide"} =>
    task[t].saw # Nil /\ Unmixed(task[t].saw)
InstallWhole ==
  \A t \in Call : atBoot[Dev(t)] # Nil /\ task[t].pc = "install" => Unmixed(task[t].key)

MixInv == /\ MadeWhole /\ RegisteredWhole /\ BootRegistered /\ CachedWhole /\ MemWhole
          /\ SawWhole /\ InstallWhole

\* The tabs that nothing disturbed.
Calm == open \ disturbed

\* In such a tab one call runs at a time; ...
OneCall ==
  \A t, q \in Call : /\ Dev(t) \in Calm /\ Dev(q) = Dev(t)
                     /\ task[t].pc \in Running /\ task[q].pc \in Running
                     => t = q
\* ... a key is installed before it is pushed; ...
PushInstalled ==
  \A t \in Call : Dev(t) \in Calm /\ task[t].pc = "push" =>
    mem[Dev(t)] = task[t].key /\ cached[Dev(t)] \in {Unknown, task[t].key}
\* ... otherwise the tab agrees with the server, once a key is registered; ...
InStep ==
  \A d \in Calm : registered # Nil /\ (\A t \in Call : Dev(t) = d => task[t].pc # "push") =>
    mem[d] \in {Nil, registered} /\ cached[d] \in {Unknown, registered}
\* ... its lookups are right; ...
SawRegistered ==
  \A t \in Call : /\ Dev(t) \in Calm /\ task[t].pc \in {"answer", "decide"}
                  /\ registered # Nil
                  => task[t].saw \in {Failed, registered}
\* ... and so is the key that load is about to install.
LoadRegistered ==
  \A t \in Call : /\ Dev(t) \in Calm /\ task[t].pc = "install" /\ task[t].kind = "load"
                  /\ registered # Nil
                  => task[t].key = registered

CalmInv == OneCall /\ PushInstalled /\ InStep /\ SawRegistered /\ LoadRegistered

\* The inductive invariant.
IInv == /\ TypeOK
        /\ LoadInv
        /\ OpenInv
        /\ LabelInv
        /\ DiskInv
        /\ MixInv
        /\ CalmInv

\* A key pair is a function on the halves, and its halves are keys.
LEMMA KeyHalves ==
  ASSUME NEW k \in Key
  PROVE  k \in [Half -> Task] /\ k.ecdh \in Task /\ k.ecdsa \in Task
BY DEF Key, Half

\* The key that a call makes.
LEMMA WholeKey ==
  ASSUME NEW t \in Task
  PROVE  Whole(t) \in Key /\ Unmixed(Whole(t))
BY DEF Whole, Key, Unmixed

\* Only the call t moves on, in its browser.
Turn(t) == /\ \A c \in Call : c # t => task'[c] = task[c]
           /\ task'[t].dev = task[t].dev

\* What init, import and load do before they install a key: only the call changes,
\* what it sees is the cached or the registered key or an error, and it installs a
\* new key or the one that it had and that what it saw does not exclude.
LEMMA Search ==
  ASSUME TypeOK, LoadInv, LabelInv, NEW t \in Call,
         (t \in Device /\ OpenStore(t)) \/ ReadDisk(t) \/ LookUp(t) \/ Fetch(t)
           \/ Check(t) \/ DecideInit(t)
  PROVE  /\ UNCHANGED <<registered, mem, cached, disk, open, histVars>>
         /\ Turn(t) /\ task' \in [Call -> TaskState] /\ task'[t].kind = task[t].kind
         /\ task[t].pc \in {"opening", "read", "lookup", "fetch", "decide"}
         /\ task'[t].pc \in {"read", "lookup", "fetch", "answer", "decide", "install", "ended"}
         /\ task'[t].pc = "read" => task[t].pc = "opening"
         /\ task'[t].pc = "lookup" => task'[t].key \in Key
         /\ task'[t].pc \in {"fetch", "answer", "decide"} =>
              /\ task[t].pc \in {"lookup", "fetch"} /\ task'[t].key = task[t].key
              /\ \/ task'[t].saw = cached[Dev(t)]
                 \/ task'[t].saw = registered
                 \/ task'[t].pc = "decide" /\ task'[t].saw = Failed
         /\ task'[t].pc \in {"answer", "decide"} =>
              task'[t].saw # Unknown
         /\ task'[t].pc = "answer" => task'[t].saw = registered
         /\ task'[t].pc = "install" =>
              \/ task[t].kind = "init" /\ task'[t].key = Whole(t)
              \/ /\ task[t].kind # "init" /\ task[t].pc = "decide"
                 /\ task'[t].key = task[t].key /\ task[t].saw \in {Nil, task[t].key}
         /\ task[t].kind # "load" => task'[t].key \in {task[t].key, Nil, Whole(t)}
<1>1. /\ task \in [Call -> TaskState] /\ task[t] \in TaskState /\ task[t].dev \in Device
      /\ disk \in [Device -> [Half -> Task \cup {Nil}]]
      /\ cached[Dev(t)] \in MaybeKey \cup {Unknown}
      /\ registered \in MaybeKey
  BY DEF TypeOK, TaskState, Dev
<1> USE DEF At, Dev
<1>2. CASE t \in Device /\ OpenStore(t)
  <2>1. \E l \in {"read", "ended"} : task' = [task EXCEPT ![t].pc = l]
    BY <1>2 DEF OpenStore
  <2>2. PICK l \in {"read", "ended"} : task' = [task EXCEPT ![t].pc = l]
    BY <2>1
  <2>3. [task[t] EXCEPT !.pc = l] \in TaskState
    BY <1>1 DEF TaskState, Label
  <2>4. /\ Turn(t) /\ task' \in [Call -> TaskState] /\ task'[t].kind = task[t].kind
        /\ task'[t].pc = l /\ task'[t].key = task[t].key
    BY <1>1, <2>2, <2>3 DEF Turn, TaskState
  <2>5. UNCHANGED <<registered, mem, cached, disk, open, histVars>> /\ task[t].pc = "opening"
    BY <1>2 DEF OpenStore
  <2>6. task[t].kind = "load"
    BY <1>2 DEF LoadInv
  <2> QED BY <2>4, <2>5, <2>6
<1>3. CASE ReadDisk(t)
  <2>1. disk[Dev(t)] \in [Half -> Task \cup {Nil}]
    BY <1>1
  <2>2. (\A h \in Half : disk[Dev(t)][h] # Nil) => disk[Dev(t)] \in Key
    BY <2>1 DEF Half, Key
  <2>3. CASE task' = [task EXCEPT ![t].pc = "ended"]
    <3>1. /\ Turn(t) /\ task' \in [Call -> TaskState] /\ task'[t].kind = task[t].kind
          /\ task'[t].pc = "ended" /\ task'[t].key = task[t].key
      BY <1>1, <2>3 DEF Turn, TaskState, Label
    <3> QED BY <1>3, <3>1 DEF ReadDisk, tabVars
  <2>4. CASE /\ task' = [task EXCEPT ![t].pc = "lookup", ![t].key = disk[Dev(t)]]
             /\ disk[Dev(t)] \in Key
    <3>1. /\ Turn(t) /\ task' \in [Call -> TaskState] /\ task'[t].kind = task[t].kind
          /\ task'[t].pc = "lookup" /\ task'[t].key \in Key
      BY <1>1, <2>4 DEF Turn, TaskState, Label, MaybeKey
    <3>2. task[t].kind = "load"
      BY <1>3 DEF ReadDisk, LabelInv
    <3> QED BY <1>3, <3>1, <3>2 DEF ReadDisk, tabVars
  <2> QED BY <1>3, <2>2, <2>3, <2>4 DEF ReadDisk
<1>4. CASE LookUp(t)
  <2>1. PICK l \in {"fetch", "decide"} :
          /\ task' = [task EXCEPT ![t].pc = l, ![t].saw = cached[Dev(t)]]
          /\ l = "decide" => cached[Dev(t)] # Unknown
    BY <1>4 DEF LookUp
  <2>2. /\ Turn(t) /\ task' \in [Call -> TaskState] /\ task'[t].kind = task[t].kind
        /\ task'[t].pc = l /\ task'[t].key = task[t].key /\ task'[t].saw = cached[Dev(t)]
    BY <1>1, <2>1 DEF Turn, TaskState, Label
  <2> QED BY <1>4, <2>1, <2>2 DEF LookUp, tabVars
<1>5. CASE Fetch(t)
  <2>1. PICK a \in {registered, Failed} :
          task' = [task EXCEPT ![t].pc = IF a = Failed THEN "decide" ELSE "answer", ![t].saw = a]
    BY <1>5 DEF Fetch
  <2>2. /\ Turn(t) /\ task' \in [Call -> TaskState] /\ task'[t].kind = task[t].kind
        /\ task'[t].pc = (IF a = Failed THEN "decide" ELSE "answer")
        /\ task'[t].key = task[t].key /\ task'[t].saw = a
    BY <1>1, <2>1 DEF Turn, TaskState, Label
  <2>3. a # Unknown
    BY <1>1, ConstantsAssumption DEF MaybeKey
  <2> QED BY <1>5, <2>2, <2>3 DEF Fetch, tabVars
<1>6. CASE Check(t)
  <2>1. PICK l \in {"install", "ended"} :
          /\ task' = [task EXCEPT ![t].saw = Unknown, ![t].pc = l]
          /\ l = "install" => task[t].saw \in {Nil, task[t].key}
    BY <1>6 DEF Check
  <2>2. /\ Turn(t) /\ task' \in [Call -> TaskState] /\ task'[t].kind = task[t].kind
        /\ task'[t].pc = l /\ task'[t].key = task[t].key
    BY <1>1, <2>1 DEF Turn, TaskState, Label
  <2> QED BY <1>6, <2>1, <2>2 DEF Check, tabVars
<1>7. CASE DecideInit(t)
  <2>1. t \in Task
    BY <1>7 DEF DecideInit, LoadInv, Call
  <2>2. Whole(t) \in MaybeKey
    BY <2>1, WholeKey DEF MaybeKey
  <2>3. PICK refused \in BOOLEAN :
          task' = [task EXCEPT ![t].saw = Unknown, ![t].hadKey = FALSE,
                               ![t].pc = IF refused THEN "ended" ELSE "install",
                               ![t].key = IF refused THEN Nil ELSE Whole(t)]
    BY <1>1, <1>7 DEF DecideInit, TaskState
  <2>4. /\ Turn(t) /\ task' \in [Call -> TaskState] /\ task'[t].kind = task[t].kind
        /\ task'[t].pc = (IF refused THEN "ended" ELSE "install")
        /\ task'[t].key = (IF refused THEN Nil ELSE Whole(t))
    BY <1>1, <2>2, <2>3 DEF Turn, TaskState, Label, MaybeKey
  <2> QED BY <1>7, <2>4 DEF DecideInit, tabVars
<1> QED BY <1>2, <1>3, <1>4, <1>5, <1>6, <1>7

\* A call of the user begins: init without a key yet, or import with one that the
\* user has, which no check precedes if it is forced.
LEMMA Begin ==
  ASSUME TypeOK, LoadInv, NEW t \in Task, NEW force \in BOOLEAN,
         BeginInit(t, force) \/ \E k \in Task : BeginImport(t, k, force)
  PROVE  /\ UNCHANGED <<registered, mem, cached, disk, writes, tabVars,
                        atBoot, unsaved, accepted, replaced>>
         /\ disturbed' = IF RunsIn(Dev(t)) = {} THEN disturbed ELSE disturbed \cup {Dev(t)}
         /\ Turn(t) /\ task' \in [Call -> TaskState]
         /\ task[t].pc = "idle" /\ Dev(t) \in open
         /\ task'[t].kind # "load" /\ task'[t].pc \in {"lookup", "install"}
         /\ task'[t].kind = "init" => task'[t].pc = "lookup"
         /\ \/ task'[t].kind = "import" /\ task'[t].key \in Key /\ Unmixed(task'[t].key)
            \/ task'[t].kind = "init" /\ task'[t].key = task[t].key
<1>1. /\ task \in [Call -> TaskState] /\ task[t] \in TaskState /\ task[t].dev \in Device
      /\ t \in Call /\ task[t].kind # "load"
      /\ task[t].pc = "idle" => task[t].kind = "init"
  BY DEF TypeOK, TaskState, Call, LoadInv
<1> USE DEF At, Dev
<1>2. CASE BeginInit(t, force)
  <2>1. PICK had \in BOOLEAN :
          task' = [task EXCEPT ![t].pc = "lookup", ![t].force = force, ![t].hadKey = had]
    BY <1>2 DEF BeginInit
  <2>2. /\ Turn(t) /\ task' \in [Call -> TaskState] /\ task'[t].kind = task[t].kind
        /\ task'[t].pc = "lookup" /\ task'[t].key = task[t].key
    BY <1>1, <2>1 DEF Turn, TaskState, Label
  <2>3. task[t].pc = "idle" /\ task'[t].kind = "init"
    BY <1>1, <1>2, <2>2 DEF BeginInit
  <2> QED BY <1>2, <2>2, <2>3 DEF BeginInit, Overlap
<1>3. ASSUME NEW k \in Task, BeginImport(t, k, force)
      PROVE  /\ UNCHANGED <<registered, mem, cached, disk, writes, tabVars,
                            atBoot, unsaved, accepted, replaced>>
             /\ disturbed' = IF RunsIn(Dev(t)) = {} THEN disturbed ELSE disturbed \cup {Dev(t)}
             /\ Turn(t) /\ task' \in [Call -> TaskState]
             /\ task[t].pc = "idle" /\ Dev(t) \in open
             /\ task'[t].kind = "import" /\ task'[t].pc \in {"lookup", "install"}
             /\ task'[t].key \in Key /\ Unmixed(task'[t].key)
  <2>1. PICK l \in {"lookup", "install"} :
          task' = [task EXCEPT ![t].pc = l, ![t].kind = "import", ![t].force = force,
                               ![t].key = Whole(k)]
    BY <1>3 DEF BeginImport
  <2>2. Whole(k) \in Key /\ Unmixed(Whole(k))
    BY WholeKey
  <2>3. /\ Turn(t) /\ task' \in [Call -> TaskState] /\ task'[t].kind = "import"
        /\ task'[t].pc = l /\ task'[t].key = Whole(k)
    BY <1>1, <2>1, <2>2 DEF Turn, TaskState, Label, MaybeKey
  <2> QED BY <1>3, <2>2, <2>3 DEF BeginImport, Overlap
<1> QED BY <1>2, <1>3

\* How the three other steps of a call change it.
LEMMA Move ==
  ASSUME TypeOK, LoadInv, LabelInv, NEW t \in Call, Receive(t) \/ Install(t) \/ Push(t)
  PROVE  /\ Turn(t) /\ task' \in [Call -> TaskState]
         /\ task'[t].kind = task[t].kind /\ task'[t].key = task[t].key
         /\ Receive(t) => /\ task[t].pc = "answer" /\ task'[t].pc = "decide"
                          /\ task'[t].saw = task[t].saw
         /\ Install(t) => /\ task[t].pc = "install"
                          /\ task[t].kind = "load" => task'[t].pc = "ended"
                          /\ task[t].kind # "load" => task'[t].pc = "push"
         /\ Push(t) => /\ task[t].pc = "push" /\ t \in Task
                       /\ task'[t].pc \in {"generated", "imported", "ended"}
<1>1. task \in [Call -> TaskState] /\ task[t] \in TaskState
  BY DEF TypeOK
<1>2. PICK l \in Label :
        /\ task' = [task EXCEPT ![t].pc = l]
        /\ Receive(t) => task[t].pc = "answer" /\ l = "decide"
        /\ Install(t) => /\ task[t].pc = "install"
                         /\ task[t].kind = "load" => l = "ended"
                         /\ task[t].kind # "load" => l = "push"
        /\ Push(t) => task[t].pc = "push" /\ l \in {"generated", "imported", "ended"}
  <2>1. CASE Receive(t)
    BY <2>1 DEF Receive, Install, Push, At, Label
  <2>2. CASE Install(t)
    BY <2>2 DEF Receive, Install, Push, At, Label
  <2>3. CASE Push(t)
    BY <2>3 DEF Receive, Install, Push, At, Label
  <2> QED BY <2>1, <2>2, <2>3
<1>3. /\ Turn(t) /\ task' \in [Call -> TaskState]
      /\ task'[t].kind = task[t].kind /\ task'[t].key = task[t].key
      /\ task'[t].pc = l /\ task'[t].saw = task[t].saw
  BY <1>1, <1>2 DEF Turn, TaskState
<1>4. task[t].pc = "push" => t \in Task
  BY DEF LabelInv, LoadInv, Call
<1> QED BY <1>2, <1>3, <1>4

\* A tab opens, and only its load begins.
LEMMA Open ==
  ASSUME TypeOK, LoadInv, NEW d \in Device, BeginLoad(d)
  PROVE  /\ UNCHANGED <<registered, mem, cached, disk, writes, ks, unsaved, disturbed,
                        accepted, replaced>>
         /\ d \notin open /\ open' = open \cup {d}
         /\ atBoot' = [atBoot EXCEPT ![d] = registered]
         /\ Turn(d) /\ task' \in [Call -> TaskState]
         /\ task'[d].pc = "opening" /\ task'[d].kind = "load"
<1>1. task \in [Call -> TaskState] /\ task[d] \in TaskState /\ d \in Call /\ task[d].kind = "load"
  BY DEF TypeOK, Call, LoadInv
<1>2. task' = [task EXCEPT ![d].pc = "opening", ![d].key = Nil]
  BY DEF BeginLoad
<1>3. /\ Turn(d) /\ task' \in [Call -> TaskState]
      /\ task'[d].pc = "opening" /\ task'[d].kind = "load"
  BY <1>1, <1>2 DEF Turn, TaskState, Label, MaybeKey
<1> QED BY <1>3 DEF BeginLoad

\* A tab is closed: its calls end, and the others do not change.
LEMMA Shut ==
  ASSUME TypeOK, NEW d \in Device, Close(d)
  PROVE  /\ UNCHANGED <<registered, disk, atBoot, accepted, replaced>>
         /\ open' = open \ {d} /\ ks' = ks \ {d} /\ unsaved' = unsaved \ {d}
         /\ disturbed' = disturbed \ {d}
         /\ mem' = [mem EXCEPT ![d] = Nil] /\ cached' = [cached EXCEPT ![d] = Unknown]
         /\ writes' = [writes EXCEPT ![d] = <<>>]
         /\ task' \in [Call -> TaskState]
         /\ \A c \in Call : /\ task'[c].dev = task[c].dev /\ task'[c].kind = task[c].kind
                            /\ task'[c].key = task[c].key
                            /\ task'[c].pc \in Running =>
                                 task'[c] = task[c] /\ task[c].dev # d
                            /\ task[c].dev # d => task'[c] = task[c]
<1>1. task \in [Call -> TaskState]
  BY DEF TypeOK
<1>2. ASSUME NEW c \in Call
      PROVE  /\ task'[c] \in TaskState
             /\ task'[c].dev = task[c].dev /\ task'[c].kind = task[c].kind
             /\ task'[c].key = task[c].key
             /\ task'[c].pc \in Running => task'[c] = task[c] /\ task[c].dev # d
             /\ task[c].dev # d => task'[c] = task[c]
  <2>1. task[c] \in TaskState
    BY <1>1
  <2>2. CASE task[c].dev = d /\ task[c].pc \in Running
    <3>1. task'[c] = [task[c] EXCEPT !.pc = "ended", !.saw = Unknown, !.hadKey = FALSE]
      BY <2>2 DEF Close, Dev
    <3> QED BY <2>1, <2>2, <3>1 DEF TaskState, Label, Running
  <2>3. CASE ~(task[c].dev = d /\ task[c].pc \in Running)
    <3>1. task'[c] = task[c]
      BY <2>3 DEF Close, Dev
    <3> QED BY <2>1, <2>3, <3>1
  <2> QED BY <2>2, <2>3
<1>3. task' = [c \in Call |-> task'[c]]
  BY DEF Close
<1>4. task' \in [Call -> TaskState]
  BY <1>2, <1>3
<1> QED BY <1>2, <1>4 DEF Close

\* Saving a key queues its two halves.
LEMMA SaveType ==
  ASSUME writes \in [Device -> Seq(Half \X Task)], NEW d \in Device, NEW k \in Key, Save(d, k)
  PROVE  /\ writes' \in [Device -> Seq(Half \X Task)]
         /\ \A c \in Device : c # d => writes'[c] = writes[c]
         /\ writes'[d] = writes[d] \o <<<<"ecdh", k.ecdh>>, <<"ecdsa", k.ecdsa>>>>
<1>1. <<<<"ecdh", k.ecdh>>, <<"ecdsa", k.ecdsa>>>> \in Seq(Half \X Task)
  BY KeyHalves DEF Half
<1>2. writes[d] \o <<<<"ecdh", k.ecdh>>, <<"ecdsa", k.ecdsa>>>> \in Seq(Half \X Task)
  BY <1>1
<1> QED BY <1>2 DEF Save

\* The queued writes of an open tab grow by the key that OpenStore and Install save.
LEMMA Saved ==
  ASSUME TypeOK, LoadInv, LabelInv, NEW t \in Call,
         (t \in Device /\ OpenStore(t)) \/ Install(t)
  PROVE  /\ writes' \in [Device -> Seq(Half \X Task)]
         /\ \A d \in Device : d # Dev(t) => writes'[d] = writes[d]
<1>1. /\ writes \in [Device -> Seq(Half \X Task)] /\ mem \in [Device -> MaybeKey]
      /\ task[t].dev \in Device
  BY DEF TypeOK, TaskState
<1>2. CASE t \in Device /\ OpenStore(t)
  <2>1. Dev(t) = t
    BY <1>2 DEF LoadInv, Dev
  <2>2. UNCHANGED writes \/ (mem[t] \in Key /\ Save(t, mem[t]))
    BY <1>1, <1>2 DEF OpenStore, MaybeKey
  <2> QED BY <1>1, <1>2, <2>1, <2>2, SaveType
<1>3. CASE Install(t)
  <2>1. UNCHANGED writes \/ Save(Dev(t), task[t].key)
    BY <1>3 DEF Install
  <2>2. task[t].key \in Key
    BY <1>3 DEF Install, LabelInv, At
  <2> QED BY <1>1, <2>1, <2>2, SaveType DEF Dev
<1> QED BY <1>2, <1>3

\* A step keeps the types of the tasks and what their labels say.
LEMMA LabelStep ==
  ASSUME TypeOK, LoadInv, LabelInv, [Next]_vars
  PROVE  task' \in [Call -> TaskState] /\ LoadInv' /\ LabelInv'
<1> DEFINE Goal == task' \in [Call -> TaskState] /\ LoadInv' /\ LabelInv'
<1> SUFFICES Goal
  OBVIOUS
<1>0. Task \subseteq Call /\ Device \subseteq Call /\ \A c \in Call : c \in Task \/ c \in Device
  BY DEF Call
<1>1. ASSUME NEW t \in Task, NEW force \in BOOLEAN,
             BeginInit(t, force) \/ \E k \in Task : BeginImport(t, k, force)
      PROVE  Goal
  <2>1. /\ Turn(t) /\ task' \in [Call -> TaskState]
        /\ task'[t].kind # "load" /\ task'[t].pc \in {"lookup", "install"}
        /\ task'[t].kind = "init" => task'[t].pc = "lookup"
        /\ task'[t].kind # "init" => task'[t].key \in Key
    BY <1>1, Begin
  <2> QED BY <1>0, <2>1, CallAssumption DEF Turn, LoadInv, LabelInv
<1>2. ASSUME NEW d \in Device, BeginLoad(d)
      PROVE  Goal
  <2>1. Turn(d) /\ task' \in [Call -> TaskState] /\ task'[d].pc = "opening" /\ task'[d].kind = "load"
    BY <1>2, Open
  <2> QED BY <1>0, <2>1, CallAssumption DEF Turn, LoadInv, LabelInv
<1>3. ASSUME NEW t \in Call,
             (t \in Device /\ OpenStore(t)) \/ ReadDisk(t) \/ LookUp(t) \/ Fetch(t)
               \/ Check(t) \/ DecideInit(t)
      PROVE  Goal
  <2>1. /\ Turn(t) /\ task' \in [Call -> TaskState] /\ task'[t].kind = task[t].kind
        /\ task[t].pc # "idle"
        /\ task'[t].pc \in {"read", "lookup", "fetch", "answer", "decide", "install", "ended"}
        /\ task'[t].pc = "read" => task[t].pc = "opening"
        /\ task'[t].pc = "lookup" => task'[t].key \in Key
        /\ task'[t].pc \in {"fetch", "answer", "decide"} =>
             task[t].pc \in {"lookup", "fetch"} /\ task'[t].key = task[t].key
        /\ task'[t].pc = "answer" => task'[t].saw = registered
        /\ task'[t].pc = "install" =>
             \/ task[t].kind = "init" /\ task'[t].key = Whole(t)
             \/ /\ task[t].kind # "init" /\ task[t].pc = "decide"
                /\ task'[t].key = task[t].key
    BY <1>3, Search
  <2>2. LoadInv'
    BY <1>0, <2>1, CallAssumption DEF Turn, LoadInv
  <2>3. task[t].kind = "init" => Whole(t) \in Key
    BY <1>0, WholeKey DEF LoadInv
  <2>4. registered' \in MaybeKey /\ registered \in MaybeKey
    BY <1>3, Search DEF TypeOK
  <2>5. LabelInv'
    BY <2>1, <2>3, <2>4 DEF Turn, LabelInv
  <2> QED BY <2>1, <2>2, <2>5
<1>4. ASSUME NEW t \in Call, Receive(t) \/ Install(t) \/ Push(t)
      PROVE  Goal
  <2>1. /\ Turn(t) /\ task' \in [Call -> TaskState]
        /\ task'[t].kind = task[t].kind /\ task'[t].key = task[t].key
        /\ task[t].pc # "idle"
        /\ task'[t].pc \in {"decide", "push", "generated", "imported", "ended"}
        /\ task'[t].pc = "decide" => task[t].pc = "answer"
        /\ task'[t].pc = "push" => task[t].pc = "install" /\ task[t].kind # "load"
    BY <1>4, Move
  <2>2. LoadInv'
    BY <1>0, <2>1, CallAssumption DEF Turn, LoadInv
  <2>3. LabelInv'
    BY <2>1 DEF Turn, LabelInv
  <2> QED BY <2>1, <2>2, <2>3
<1>5. ASSUME NEW d \in Device, Close(d)
      PROVE  Goal
  <2>1. /\ task' \in [Call -> TaskState]
        /\ \A c \in Call : /\ task'[c].dev = task[c].dev /\ task'[c].kind = task[c].kind
                           /\ task'[c].pc \in Running => task'[c] = task[c]
                           /\ task'[c].pc = "idle" => task[c].pc = "idle"
    <3>1. \A c \in Call : task'[c].pc = "idle" => task[c].pc = "idle"
      <4> SUFFICES ASSUME NEW c \in Call, task[c].pc # "idle"
                   PROVE  task'[c].pc # "idle"
        OBVIOUS
      <4> QED BY <1>5 DEF Close, TypeOK, TaskState
    <3> QED BY <1>5, <3>1, Shut
  <2> QED BY <1>0, <2>1 DEF LoadInv, LabelInv, Running
<1>6. CASE \/ \E d \in Device : WriteHalf(d) \/ AbortHalf(d) \/ Reconnect(d)
           \/ UNCHANGED vars
  <2>1. UNCHANGED task
    BY <1>6 DEF WriteHalf, AbortHalf, Reconnect, vars
  <2> QED BY <2>1 DEF TypeOK, LoadInv, LabelInv
<1> QED BY <1>0, <1>1, <1>2, <1>3, <1>4, <1>5, <1>6 DEF Next

\* A step keeps the types of the other variables, and calls run in open tabs.
LEMMA TypeStep ==
  ASSUME TypeOK, LoadInv, OpenInv, LabelInv, [Next]_vars
  PROVE  TypeOK' /\ OpenInv'
<1> DEFINE Goal == TypeOK' /\ OpenInv'
<1> SUFFICES Goal
  OBVIOUS
<1>0. /\ task' \in [Call -> TaskState] /\ LoadInv'
      /\ \A t \in Call : task[t].dev \in Device /\ task'[t].dev \in Device
      /\ Task \subseteq Call /\ Device \subseteq Call
  BY LabelStep DEF TypeOK, TaskState, Call
<1> USE DEF TypeOK
<1>1. ASSUME NEW t \in Task, NEW force \in BOOLEAN,
             BeginInit(t, force) \/ \E k \in Task : BeginImport(t, k, force)
      PROVE  Goal
  <2>1. /\ UNCHANGED <<registered, mem, cached, disk, writes, tabVars,
                       atBoot, unsaved, accepted, replaced>>
        /\ disturbed' = IF RunsIn(Dev(t)) = {} THEN disturbed ELSE disturbed \cup {Dev(t)}
        /\ Turn(t) /\ Dev(t) \in open
    BY <1>1, Begin
  <2>2. disturbed' \subseteq open
    BY <2>1
  <2>3. TypeOK'
    BY <1>0, <2>1, <2>2 DEF tabVars
  <2>4. OpenInv'
    BY <1>0, <2>1 DEF tabVars, OpenInv, Turn, Dev
  <2> QED BY <2>3, <2>4
<1>2. ASSUME NEW d \in Device, BeginLoad(d)
      PROVE  Goal
  <2>1. /\ UNCHANGED <<registered, mem, cached, disk, writes, ks, unsaved, disturbed,
                       accepted, replaced>>
        /\ open' = open \cup {d}
        /\ atBoot' = [atBoot EXCEPT ![d] = registered]
        /\ Turn(d)
    BY <1>2, Open
  <2>2. TypeOK'
    BY <1>0, <2>1
  <2>3. task[d].dev = d
    BY DEF LoadInv
  <2>4. OpenInv'
    BY <1>0, <2>1, <2>3 DEF OpenInv, Turn, Dev
  <2> QED BY <2>2, <2>4
<1>3. ASSUME NEW t \in Call,
             (t \in Device /\ OpenStore(t)) \/ ReadDisk(t) \/ LookUp(t) \/ Fetch(t)
               \/ Check(t) \/ DecideInit(t)
      PROVE  Goal
  <2>1. /\ UNCHANGED <<registered, mem, cached, disk, open, histVars>>
        /\ Turn(t) /\ task[t].pc \in Running
    BY <1>3, Search DEF Running
  <2>2. Dev(t) \in open
    BY <2>1 DEF OpenInv
  <2>3. /\ writes' \in [Device -> Seq(Half \X Task)]
        /\ \A d \in Device : d # Dev(t) => writes'[d] = writes[d]
    <3>1. CASE t \in Device /\ OpenStore(t)
      BY <3>1, Saved
    <3>2. CASE ~(t \in Device /\ OpenStore(t))
      BY <1>3, <3>2 DEF ReadDisk, LookUp, Fetch, Check, DecideInit
    <3> QED BY <3>1, <3>2
  <2>4. ks' \in {ks, ks \cup {Dev(t)}}
    <3>1. CASE t \in Device /\ OpenStore(t)
      BY <3>1 DEF OpenStore, LoadInv, Dev
    <3>2. CASE ~(t \in Device /\ OpenStore(t))
      BY <1>3, <3>2 DEF ReadDisk, LookUp, Fetch, Check, DecideInit, tabVars
    <3> QED BY <3>1, <3>2
  <2>5. TypeOK'
    BY <1>0, <2>1, <2>2, <2>3, <2>4 DEF histVars
  <2>6. OpenInv'
    BY <1>0, <2>1, <2>2, <2>3 DEF OpenInv, Turn, Dev
  <2> QED BY <2>5, <2>6
<1>4. ASSUME NEW t \in Call, Receive(t) \/ Install(t) \/ Push(t)
      PROVE  Goal
  <2>1. Turn(t) /\ task[t].pc \in {"answer", "install", "push"} /\ (Push(t) => t \in Task)
    BY <1>4, Move
  <2>2. Dev(t) \in open /\ Dev(t) \in Device
    BY <1>0, <2>1 DEF OpenInv, Running, Dev
  <2>3. UNCHANGED <<disk, open, ks, unsaved, atBoot>>
    BY <1>4 DEF Receive, Install, Push, tabVars, histVars
  <2>4. /\ writes' \in [Device -> Seq(Half \X Task)]
        /\ \A d \in Device : d # Dev(t) => writes'[d] = writes[d]
    <3>1. CASE Install(t)
      BY <3>1, Saved
    <3>2. CASE Receive(t) \/ Push(t)
      BY <3>2 DEF Receive, Push
    <3> QED BY <1>4, <3>1, <3>2
  <2>5. /\ mem' \in [Device -> MaybeKey] /\ cached' \in [Device -> MaybeKey \cup {Unknown}]
        /\ \A d \in Device : d # Dev(t) => mem'[d] = mem[d] /\ cached'[d] = cached[d]
    <3>1. CASE Receive(t)
      <4>1. task[t].saw \in MaybeKey
        BY <3>1 DEF Receive, LabelInv, At
      <4> QED BY <3>1, <4>1 DEF Receive
    <3>2. CASE Install(t)
      <4>1. task[t].key \in MaybeKey
        BY <3>2 DEF Install, LabelInv, At, MaybeKey
      <4> QED BY <3>2, <4>1 DEF Install
    <3>3. CASE Push(t)
      BY <3>3 DEF Push
    <3> QED BY <1>4, <3>1, <3>2, <3>3
  <2>6. /\ registered' \in MaybeKey /\ disturbed' \subseteq open
        /\ accepted' \subseteq Task /\ replaced' \subseteq Task
    <3>1. CASE Receive(t) \/ Install(t)
      BY <3>1 DEF Receive, Install, histVars
    <3>2. CASE Push(t)
      <4>1. task[t].key \in MaybeKey /\ t \in Task
        BY <2>1, <3>2 DEF Push, LabelInv, At, MaybeKey
      <4>2. PICK ok \in BOOLEAN, stored \in BOOLEAN :
              /\ registered' = IF stored THEN task[t].key ELSE registered
              /\ accepted' = IF stored THEN accepted \cup {t} ELSE accepted
              /\ disturbed' = disturbed \cup (IF ok THEN {} ELSE {Dev(t)})
                                         \cup (IF stored THEN open \ {Dev(t)} ELSE {})
              /\ replaced' = IF registered' # registered /\ registered # Nil
                             THEN replaced \cup {t} ELSE replaced
        BY <3>2 DEF Push
      <4> QED BY <2>2, <4>1, <4>2
    <3> QED BY <1>4, <3>1, <3>2
  <2>7. TypeOK'
    BY <1>0, <2>3, <2>4, <2>5, <2>6
  <2>8. OpenInv'
    BY <1>0, <2>1, <2>2, <2>3, <2>4, <2>5 DEF OpenInv, Turn, Dev
  <2> QED BY <2>7, <2>8
<1>5. ASSUME NEW d \in Device, WriteHalf(d) \/ AbortHalf(d)
      PROVE  Goal
  <2>1. d \in open
    BY <1>5 DEF WriteHalf, AbortHalf, OpenInv
  <2>2. /\ writes[d] \in Seq(Half \X Task) /\ writes[d] # <<>>
        /\ writes' = [writes EXCEPT ![d] = Tail(@)]
    BY <1>5 DEF WriteHalf, AbortHalf
  <2>3. Head(writes[d]) \in Half \X Task /\ Tail(writes[d]) \in Seq(Half \X Task)
    BY <2>2
  <2>4. writes' \in [Device -> Seq(Half \X Task)]
    BY <2>2, <2>3
  <2>5. disk' \in [Device -> [Half -> Task \cup {Nil}]] /\ unsaved' \subseteq open
    <3>1. PICK h \in Half, k \in Task : Head(writes[d]) = <<h, k>>
      BY <2>3
    <3>2. CASE WriteHalf(d)
      <4>1. disk' = [disk EXCEPT ![d][h] = k] /\ UNCHANGED unsaved
        <5>1. Head(writes[d])[1] = h /\ Head(writes[d])[2] = k
          BY <3>1
        <5>2. disk' = [disk EXCEPT ![d][Head(writes[d])[1]] = Head(writes[d])[2]]
          BY <3>2 DEF WriteHalf
        <5>3. UNCHANGED unsaved
          BY <3>2 DEF WriteHalf, histVars
        <5> QED BY <5>1, <5>2, <5>3
      <4> QED BY <4>1
    <3>3. CASE AbortHalf(d)
      BY <2>1, <3>3 DEF AbortHalf
    <3> QED BY <1>5, <3>2, <3>3
  <2>6. UNCHANGED <<registered, mem, cached, task, open, ks, atBoot, disturbed, accepted, replaced>>
    BY <1>5 DEF WriteHalf, AbortHalf, histVars, tabVars
  <2>7. TypeOK'
    BY <2>4, <2>5, <2>6
  <2>8. OpenInv'
    BY <2>1, <2>2, <2>6 DEF OpenInv, Dev
  <2> QED BY <2>7, <2>8
<1>6. ASSUME NEW d \in Device, Close(d)
      PROVE  Goal
  <2>1. /\ UNCHANGED <<registered, disk, atBoot, accepted, replaced>>
        /\ open' = open \ {d} /\ ks' = ks \ {d} /\ unsaved' = unsaved \ {d}
        /\ disturbed' = disturbed \ {d}
        /\ mem' = [mem EXCEPT ![d] = Nil] /\ cached' = [cached EXCEPT ![d] = Unknown]
        /\ writes' = [writes EXCEPT ![d] = <<>>]
        /\ \A c \in Call : task'[c].pc \in Running => task'[c] = task[c] /\ task[c].dev # d
    BY <1>6, Shut
  <2>2. TypeOK'
    BY <1>0, <2>1 DEF MaybeKey
  <2>3. OpenInv'
    BY <2>1 DEF OpenInv, Dev
  <2> QED BY <2>2, <2>3
<1>7. ASSUME NEW d \in Device, Reconnect(d)
      PROVE  Goal
  <2>1. d \in open
    BY <1>7 DEF Reconnect, OpenInv
  <2>2. TypeOK'
    BY <1>7 DEF Reconnect, tabVars, histVars
  <2>3. OpenInv'
    BY <1>7, <2>1 DEF Reconnect, OpenInv, Dev, tabVars
  <2> QED BY <2>2, <2>3
<1>8. CASE UNCHANGED vars
  BY <1>8 DEF vars, tabVars, histVars, OpenInv, Dev
<1> HIDE DEF TypeOK
<1> QED BY <1>0, <1>1, <1>2, <1>3, <1>4, <1>5, <1>6, <1>7, <1>8 DEF Next

\* Once a key's halves are queued last, the browser will have them.
LEMMA HoldSaved ==
  ASSUME NEW w \in Seq(Half \X Task), NEW s, NEW k \in Key, NEW h \in Half
  PROVE  WillHold(w \o <<<<"ecdh", k.ecdh>>, <<"ecdsa", k.ecdsa>>>>, s, h, k[h])
<1> DEFINE v == w \o <<<<"ecdh", k.ecdh>>, <<"ecdsa", k.ecdsa>>>>
<1>1. <<<<"ecdh", k.ecdh>>, <<"ecdsa", k.ecdsa>>>> \in Seq(Half \X Task) /\ Len(w) \in Nat
  BY KeyHalves DEF Half
<1>2. /\ Len(v) = Len(w) + 2
      /\ v[Len(w) + 1] = <<"ecdh", k.ecdh>>
      /\ v[Len(w) + 2] = <<"ecdsa", k.ecdsa>>
  BY <1>1
<1> HIDE DEF v
<1>3. CASE h = "ecdh"
  <2>1. v[Len(w) + 1] = <<h, k[h]>> /\ v[Len(w) + 2][1] # h
    BY <1>2, <1>3
  <2>2. Len(w) + 1 \in 1..Len(v)
    BY <1>1, <1>2
  <2>3. \A j \in ((Len(w) + 1) + 1)..Len(v) : j = Len(w) + 2
    BY <1>1, <1>2
  <2>4. \A j \in ((Len(w) + 1) + 1)..Len(v) : v[j][1] # h
    BY <2>1, <2>3
  <2>5. WillHold(v, s, h, k[h])
    BY <2>1, <2>2, <2>4 DEF WillHold
  <2> QED BY <2>5 DEF v
<1>4. CASE h = "ecdsa"
  <2>1. v[Len(w) + 2] = <<h, k[h]>>
    BY <1>2, <1>4
  <2>2. Len(w) + 2 \in 1..Len(v) /\ ((Len(w) + 2) + 1)..Len(v) = {}
    BY <1>1, <1>2
  <2>3. WillHold(v, s, h, k[h])
    BY <2>1, <2>2 DEF WillHold
  <2> QED BY <2>3 DEF v
<1> QED BY <1>3, <1>4 DEF Half

\* The oldest write is done, and what the browser will hold stays the same.
LEMMA HoldWritten ==
  ASSUME NEW w \in Seq(Half \X Task), w # <<>>, NEW s \in [Half -> Task \cup {Nil}],
         NEW h \in Half, NEW k, WillHold(w, s, h, k)
  PROVE  WillHold(Tail(w), [s EXCEPT ![Head(w)[1]] = Head(w)[2]], h, k)
<1> DEFINE v == Tail(w)
           z == [s EXCEPT ![Head(w)[1]] = Head(w)[2]]
<1>1. /\ Len(w) \in Nat /\ Len(w) >= 1 /\ Len(v) = Len(w) - 1
      /\ \A i \in 1..Len(v) : v[i] = w[i + 1]
  OBVIOUS
<1>2. /\ Head(w)[1] = h => z[h] = Head(w)[2]
      /\ Head(w)[1] # h => z[h] = s[h]
      /\ Head(w) = w[1]
  OBVIOUS
<1> HIDE DEF v, z
<1>3. CASE \E i \in 1..Len(w) : w[i] = <<h, k>> /\ \A j \in (i + 1)..Len(w) : w[j][1] # h
  <2>1. PICK i \in 1..Len(w) : w[i] = <<h, k>> /\ \A j \in (i + 1)..Len(w) : w[j][1] # h
    BY <1>3
  <2>2. CASE i = 1
    <3>1. z[h] = k
      BY <1>2, <2>1, <2>2
    <3>2. \A j \in 1..Len(v) : j + 1 \in (i + 1)..Len(w)
      BY <1>1, <2>2
    <3>3. \A j \in 1..Len(v) : v[j][1] # h
      BY <1>1, <2>1, <3>2
    <3> QED BY <3>1, <3>3 DEF WillHold, v, z
  <2>3. CASE i # 1
    <3>1. i - 1 \in 1..Len(v) /\ (i - 1) + 1 = i
      BY <1>1, <2>3
    <3>2. v[i - 1] = <<h, k>>
      BY <1>1, <2>1, <3>1
    <3>3. \A j \in ((i - 1) + 1)..Len(v) : j + 1 \in (i + 1)..Len(w) /\ j \in 1..Len(v)
      BY <1>1, <3>1
    <3>4. \A j \in ((i - 1) + 1)..Len(v) : v[j][1] # h
      BY <1>1, <2>1, <3>3
    <3>5. WillHold(v, z, h, k)
      BY <3>1, <3>2, <3>4 DEF WillHold
    <3> QED BY <3>5 DEF v, z
  <2> QED BY <2>2, <2>3
<1>4. CASE s[h] = k /\ \A j \in 1..Len(w) : w[j][1] # h
  <2>1. z[h] = k
    BY <1>1, <1>2, <1>4
  <2>2. \A j \in 1..Len(v) : v[j][1] # h
    BY <1>1, <1>4
  <2> QED BY <2>1, <2>2 DEF WillHold, v, z
<1> QED BY <1>3, <1>4 DEF WillHold

\* A step keeps the invariant about the browsers' stores.
LEMMA DiskStep ==
  ASSUME TypeOK, LoadInv, LabelInv, DiskInv, [Next]_vars
  PROVE  DiskInv'
<1>0. /\ writes \in [Device -> Seq(Half \X Task)] /\ mem \in [Device -> MaybeKey]
      /\ disk \in [Device -> [Half -> Task \cup {Nil}]] /\ ks \subseteq Device
  BY DEF TypeOK
<1>1. CASE UNCHANGED <<mem, writes, disk, ks, unsaved>>
  BY <1>1 DEF DiskInv
<1>2. ASSUME NEW d \in Device, OpenStore(d)
      PROVE  DiskInv'
  <2>1. UNCHANGED <<mem, disk, unsaved>> /\ ks' \in {ks, ks \cup {d}}
    BY <1>2 DEF OpenStore, histVars
  <2>2. \/ UNCHANGED ks /\ UNCHANGED writes
        \/ mem[d] = Nil /\ UNCHANGED writes
        \/ mem[d] \in Key /\ Save(d, mem[d])
    BY <1>0, <1>2 DEF OpenStore, MaybeKey
  <2> SUFFICES ASSUME NEW c \in Device, c \in ks', c \notin unsaved, NEW h \in Half, mem[c] # Nil
               PROVE  WillHold(writes'[c], disk[c], h, mem[c][h])
    BY <1>0, <2>1 DEF DiskInv
  <2>3. CASE mem[d] \in Key /\ Save(d, mem[d])
    <3>1. /\ \A b \in Device : b # d => writes'[b] = writes[b]
          /\ writes'[d] = writes[d] \o <<<<"ecdh", mem[d].ecdh>>, <<"ecdsa", mem[d].ecdsa>>>>
      BY <1>0, <2>3, SaveType
    <3>2. CASE c = d
      <4>1. WillHold(writes[d] \o <<<<"ecdh", mem[d].ecdh>>, <<"ecdsa", mem[d].ecdsa>>>>,
                     disk[d], h, mem[d][h])
        BY <1>0, <2>3, HoldSaved
      <4> QED BY <3>1, <3>2, <4>1
    <3>3. CASE c # d
      BY <2>1, <3>1, <3>3 DEF DiskInv
    <3> QED BY <3>2, <3>3
  <2>4. CASE UNCHANGED writes /\ (UNCHANGED ks \/ mem[d] = Nil)
    BY <2>1, <2>4 DEF DiskInv
  <2> QED BY <2>2, <2>3, <2>4
<1>3. ASSUME NEW t \in Call, Install(t)
      PROVE  DiskInv'
  <2> DEFINE d == Dev(t)
             k == task[t].key
  <2>1. /\ UNCHANGED <<disk, ks, unsaved>> /\ mem' = [mem EXCEPT ![d] = k]
        /\ IF d \in ks THEN Save(d, k) ELSE UNCHANGED writes
    BY <1>3 DEF Install, histVars, tabVars
  <2>2. k \in Key /\ d \in Device
    BY <1>3 DEF Install, LabelInv, At, TypeOK, TaskState, Dev
  <2> HIDE DEF d, k
  <2> SUFFICES ASSUME NEW c \in Device, c \in ks, c \notin unsaved, NEW h \in Half, mem'[c] # Nil
               PROVE  WillHold(writes'[c], disk[c], h, mem'[c][h])
    BY <1>0, <2>1 DEF DiskInv
  <2>3. CASE d \in ks
    <3>1. /\ \A b \in Device : b # d => writes'[b] = writes[b]
          /\ writes'[d] = writes[d] \o <<<<"ecdh", k.ecdh>>, <<"ecdsa", k.ecdsa>>>>
      BY <1>0, <2>1, <2>2, <2>3, SaveType
    <3>2. CASE c = d
      <4>1. mem'[c] = k
        BY <1>0, <2>1, <3>2
      <4>2. WillHold(writes[d] \o <<<<"ecdh", k.ecdh>>, <<"ecdsa", k.ecdsa>>>>,
                     disk[d], h, k[h])
        BY <1>0, <2>2, HoldSaved
      <4> QED BY <3>1, <3>2, <4>1, <4>2
    <3>3. CASE c # d
      BY <1>0, <2>1, <3>1, <3>3 DEF DiskInv
    <3> QED BY <3>2, <3>3
  <2>4. CASE d \notin ks
    <3>1. mem'[c] = mem[c] /\ writes'[c] = writes[c]
      BY <1>0, <2>1, <2>4
    <3> QED BY <3>1 DEF DiskInv
  <2> QED BY <2>3, <2>4
<1>4. ASSUME NEW d \in Device, WriteHalf(d)
      PROVE  DiskInv'
  <2>1. /\ UNCHANGED <<mem, ks, unsaved>> /\ writes[d] # <<>>
        /\ writes' = [writes EXCEPT ![d] = Tail(writes[d])]
        /\ disk' = [disk EXCEPT ![d] = [disk[d] EXCEPT ![Head(writes[d])[1]] = Head(writes[d])[2]]]
    BY <1>4 DEF WriteHalf, histVars, tabVars
  <2> SUFFICES ASSUME NEW c \in Device, c \in ks, c \notin unsaved, NEW h \in Half, mem[c] # Nil
               PROVE  WillHold(writes'[c], disk'[c], h, mem[c][h])
    BY <1>0, <2>1 DEF DiskInv
  <2>2. WillHold(writes[c], disk[c], h, mem[c][h])
    BY DEF DiskInv
  <2>3. CASE c = d
    <3>1. /\ writes'[c] = Tail(writes[c])
          /\ disk'[c] = [disk[c] EXCEPT ![Head(writes[c])[1]] = Head(writes[c])[2]]
      BY <1>0, <2>1, <2>3
    <3>2. WillHold(Tail(writes[c]), [disk[c] EXCEPT ![Head(writes[c])[1]] = Head(writes[c])[2]],
                   h, mem[c][h])
      BY <1>0, <2>1, <2>2, <2>3, HoldWritten
    <3> QED BY <3>1, <3>2
  <2>4. CASE c # d
    <3>1. writes'[c] = writes[c] /\ disk'[c] = disk[c]
      BY <1>0, <2>1, <2>4
    <3> QED BY <2>2, <3>1
  <2> QED BY <2>3, <2>4
<1>5. ASSUME NEW d \in Device, AbortHalf(d)
      PROVE  DiskInv'
  <2>1. /\ UNCHANGED <<mem, disk, ks>> /\ unsaved' = unsaved \cup {d}
        /\ \A c \in Device : c # d => writes'[c] = writes[c]
    BY <1>0, <1>5 DEF AbortHalf, tabVars
  <2> QED BY <1>0, <2>1 DEF DiskInv
<1>6. ASSUME NEW d \in Device, Close(d)
      PROVE  DiskInv'
  <2>1. /\ UNCHANGED disk /\ ks' = ks \ {d} /\ unsaved' = unsaved \ {d}
        /\ \A c \in Device : c # d => writes'[c] = writes[c] /\ mem'[c] = mem[c]
    BY <1>0, <1>6 DEF Close
  <2> QED BY <1>0, <2>1 DEF DiskInv
<1> QED BY <1>1, <1>2, <1>3, <1>4, <1>5, <1>6
        DEF Next, vars, tabVars, histVars, BeginInit, BeginImport, Overlap, BeginLoad,
            ReadDisk, LookUp, Fetch, Receive, Check, DecideInit, Push, Reconnect

\* In a state of the invariant with no write queued, the browser has the key in use.
LEMMA DiskFollows == TypeOK /\ DiskInv => DiskFollowsMemory
<1> SUFFICES ASSUME TypeOK, DiskInv, NEW d \in ks \ unsaved, mem[d] # Nil, writes[d] = <<>>
             PROVE  disk[d] = mem[d]
  BY DEF DiskFollowsMemory
<1>1. d \in Device /\ mem[d] \in Key /\ disk[d] \in [Half -> Task \cup {Nil}]
  BY DEF TypeOK, MaybeKey
<1>2. \A h \in Half : disk[d][h] = mem[d][h]
  BY DEF DiskInv, WillHold
<1> QED BY <1>1, <1>2, KeyHalves

\* What is no key is not mixed.
LEMMA NoKey == /\ Nil \notin Key /\ Unknown \notin Key /\ Failed \notin Key
               /\ Unmixed(Nil) /\ Unmixed(Unknown) /\ Unmixed(Failed)
               /\ Unknown # Nil /\ Failed # Nil /\ Failed # Unknown
BY ConstantsAssumption DEF Unmixed

\* A step keeps the invariant about mixed keys.
LEMMA MixStep ==
  ASSUME TypeOK, LoadInv, OpenInv, LabelInv, MixInv, [Next]_vars
  PROVE  MixInv'
<1> USE DEF MixInv
<1>0. /\ Task \subseteq Call /\ Device \subseteq Call
      /\ mem \in [Device -> MaybeKey] /\ cached \in [Device -> MaybeKey \cup {Unknown}]
      /\ atBoot \in [Device -> MaybeKey] /\ registered \in MaybeKey
      /\ \A c \in Call : task[c].dev \in Device
      /\ \A c \in Task : task[c].kind # "load"
  BY DEF TypeOK, TaskState, Call, LoadInv
<1>1. ASSUME NEW t \in Task, NEW force \in BOOLEAN,
             BeginInit(t, force) \/ \E k \in Task : BeginImport(t, k, force)
      PROVE  MixInv'
  <2>1. /\ UNCHANGED <<registered, mem, cached, atBoot>> /\ Turn(t)
        /\ task'[t].pc \in {"lookup", "install"}
        /\ task'[t].pc = "install" => Unmixed(task'[t].key)
        /\ Unmixed(task'[t].key) \/ task'[t].key = task[t].key
    BY <1>1, Begin
  <2>2. MadeWhole'
    BY <1>0, <2>1 DEF MadeWhole, Turn, Unmixed
  <2>3. RegisteredWhole' /\ BootRegistered' /\ CachedWhole' /\ MemWhole'
    BY <2>1 DEF RegisteredWhole, BootRegistered, CachedWhole, MemWhole, Unmixed
  <2>4. SawWhole'
    BY <2>1 DEF SawWhole, Turn, Dev, Unmixed
  <2>5. InstallWhole'
    BY <2>1 DEF InstallWhole, Turn, Dev, Unmixed
  <2> QED BY <2>2, <2>3, <2>4, <2>5
<1>2. ASSUME NEW d \in Device, BeginLoad(d)
      PROVE  MixInv'
  <2>1. /\ UNCHANGED <<registered, mem, cached>> /\ d \notin open /\ Turn(d)
        /\ atBoot' = [atBoot EXCEPT ![d] = registered]
        /\ task'[d].pc = "opening" /\ task'[d].kind = "load"
    BY <1>2, Open
  <2>2. /\ mem[d] = Nil /\ cached[d] = Unknown
        /\ \A c \in Call : Dev(c) = d => task[c].pc \notin Running
    BY <2>1 DEF OpenInv
  <2>3. MadeWhole'
    BY <2>1 DEF MadeWhole, Turn, Unmixed
  <2>4. RegisteredWhole' /\ BootRegistered'
    BY <1>0, <2>1 DEF RegisteredWhole, BootRegistered, Unmixed
  <2>5. CachedWhole'
    BY <1>0, <2>1, <2>2, NoKey DEF CachedWhole, Unmixed
  <2>6. MemWhole'
    BY <1>0, <2>1, <2>2, NoKey DEF MemWhole, Unmixed
  <2>7. SawWhole'
    BY <1>0, <2>1, <2>2 DEF SawWhole, Turn, Dev, Unmixed, Running
  <2>8. InstallWhole'
    BY <1>0, <2>1, <2>2 DEF InstallWhole, Turn, Dev, Unmixed, Running
  <2> QED BY <2>3, <2>4, <2>5, <2>6, <2>7, <2>8
<1>3. ASSUME NEW t \in Call,
             (t \in Device /\ OpenStore(t)) \/ ReadDisk(t) \/ LookUp(t) \/ Fetch(t)
               \/ Check(t) \/ DecideInit(t)
      PROVE  MixInv'
  <2>1. /\ UNCHANGED <<registered, mem, cached, atBoot>> /\ Turn(t)
        /\ task'[t].kind = task[t].kind
        /\ task'[t].pc \in {"fetch", "answer", "decide"} =>
             task'[t].saw \in {cached[Dev(t)], registered, Failed}
        /\ task'[t].pc = "install" =>
             \/ task[t].kind = "init" /\ task'[t].key = Whole(t)
             \/ /\ task[t].pc = "decide"
                /\ task'[t].key = task[t].key /\ task[t].saw \in {Nil, task[t].key}
        /\ task[t].kind # "load" => task'[t].key \in {task[t].key, Nil, Whole(t)}
    BY <1>3, Search DEF histVars
  <2>2. task[t].kind # "load" => Unmixed(Whole(t))
    BY WholeKey DEF LoadInv, Call
  <2>3. MadeWhole'
    <3>1. task[t].kind # "load" => Unmixed(task'[t].key)
      BY <2>1, <2>2, NoKey DEF MadeWhole
    <3> QED BY <2>1, <3>1 DEF MadeWhole, Turn, Unmixed
  <2>4. RegisteredWhole' /\ BootRegistered' /\ CachedWhole' /\ MemWhole'
    BY <2>1 DEF RegisteredWhole, BootRegistered, CachedWhole, MemWhole, Unmixed
  <2>5. SawWhole'
    <3>1. atBoot[Dev(t)] # Nil /\ task'[t].pc \in {"fetch", "answer", "decide"} =>
            task'[t].saw # Nil /\ Unmixed(task'[t].saw)
      <4>1. Dev(t) \in Device
        BY <1>0 DEF Dev
      <4>2. atBoot[Dev(t)] # Nil => /\ registered # Nil /\ Unmixed(registered)
                                    /\ cached[Dev(t)] # Nil /\ Unmixed(cached[Dev(t)])
        BY <4>1 DEF BootRegistered, RegisteredWhole, CachedWhole
      <4> QED BY <2>1, <4>2, NoKey
    <3> QED BY <2>1, <3>1 DEF SawWhole, Turn, Dev, Unmixed
  <2>6. InstallWhole'
    <3>1. atBoot[Dev(t)] # Nil /\ task'[t].pc = "install" => Unmixed(task'[t].key)
      BY <2>1, <2>2 DEF SawWhole
    <3> QED BY <2>1, <3>1 DEF InstallWhole, Turn, Dev, Unmixed
  <2> QED BY <2>3, <2>4, <2>5, <2>6
<1>4. ASSUME NEW t \in Call, Receive(t) \/ Install(t) \/ Push(t)
      PROVE  MixInv'
  <2>1. /\ UNCHANGED atBoot /\ Turn(t)
        /\ task'[t].kind = task[t].kind /\ task'[t].key = task[t].key
        /\ task'[t].pc \in {"decide", "push", "generated", "imported", "ended"}
        /\ task'[t].pc = "decide" => task[t].pc = "answer" /\ task'[t].saw = task[t].saw
    BY <1>4, Move DEF Receive, Install, Push, histVars
  <2>2. Dev(t) \in Device
    BY <1>0 DEF Dev
  <2>3. MadeWhole'
    BY <2>1 DEF MadeWhole, Turn, Unmixed
  <2>4. RegisteredWhole' /\ (registered # Nil => registered' # Nil)
    <3>1. CASE Receive(t) \/ Install(t)
      BY <3>1 DEF Receive, Install, RegisteredWhole, Unmixed
    <3>2. CASE Push(t)
      <4>1. task[t].key \in Key /\ task[t].kind # "load" /\ registered' \in {registered, task[t].key}
        BY <3>2 DEF Push, LabelInv, At
      <4> QED BY <4>1, NoKey DEF RegisteredWhole, MadeWhole, Unmixed
    <3> QED BY <1>4, <3>1, <3>2
  <2>5. BootRegistered'
    BY <2>1, <2>4 DEF BootRegistered
  <2>6. CachedWhole' /\ MemWhole'
    <3>1. CASE Receive(t)
      <4>1. task[t].pc = "answer" /\ UNCHANGED mem /\ cached' = [cached EXCEPT ![Dev(t)] = task[t].saw]
        BY <3>1 DEF Receive, At
      <4>2. atBoot[Dev(t)] # Nil => task[t].saw # Nil /\ Unmixed(task[t].saw)
        BY <4>1 DEF SawWhole
      <4>3. CachedWhole'
        BY <1>0, <2>1, <4>1, <4>2 DEF CachedWhole, Unmixed
      <4>4. MemWhole'
        BY <2>1, <4>1 DEF MemWhole, Unmixed
      <4> QED BY <4>3, <4>4
    <3>2. CASE Install(t)
      <4>1. /\ task[t].pc = "install" /\ mem' = [mem EXCEPT ![Dev(t)] = task[t].key]
            /\ cached' = [cached EXCEPT ![Dev(t)] = task[t].key]
        BY <3>2 DEF Install, At
      <4>2. task[t].key # Nil /\ (atBoot[Dev(t)] # Nil => Unmixed(task[t].key))
        BY <4>1, NoKey DEF InstallWhole, LabelInv
      <4>3. CachedWhole'
        BY <1>0, <2>1, <4>1, <4>2 DEF CachedWhole, Unmixed
      <4>4. MemWhole'
        BY <1>0, <2>1, <4>1, <4>2 DEF MemWhole, Unmixed
      <4> QED BY <4>3, <4>4
    <3>3. CASE Push(t)
      BY <2>1, <3>3 DEF Push, CachedWhole, MemWhole, Unmixed
    <3> QED BY <1>4, <3>1, <3>2, <3>3
  <2>7. SawWhole'
    BY <2>1 DEF SawWhole, Turn, Dev, Unmixed
  <2>8. InstallWhole'
    BY <2>1 DEF InstallWhole, Turn, Dev, Unmixed
  <2> QED BY <2>3, <2>4, <2>5, <2>6, <2>7, <2>8
<1>5. ASSUME NEW d \in Device, Close(d)
      PROVE  MixInv'
  <2>1. /\ UNCHANGED <<registered, atBoot>>
        /\ mem' = [mem EXCEPT ![d] = Nil] /\ cached' = [cached EXCEPT ![d] = Unknown]
        /\ \A c \in Call : /\ task'[c].kind = task[c].kind /\ task'[c].key = task[c].key
                           /\ task'[c].pc \in Running => task'[c] = task[c]
    BY <1>5, Shut
  <2>2. MadeWhole' /\ RegisteredWhole' /\ BootRegistered'
    BY <2>1 DEF MadeWhole, RegisteredWhole, BootRegistered, Unmixed
  <2>3. CachedWhole' /\ MemWhole'
    BY <1>0, <2>1, NoKey DEF CachedWhole, MemWhole, Unmixed
  <2>4. SawWhole' /\ InstallWhole'
    BY <2>1 DEF SawWhole, InstallWhole, Running, Dev, Unmixed
  <2> QED BY <2>2, <2>3, <2>4
<1>6. CASE \/ \E d \in Device : WriteHalf(d) \/ AbortHalf(d) \/ Reconnect(d)
           \/ UNCHANGED vars
  <2>1. /\ UNCHANGED <<registered, atBoot, mem, task>>
        /\ \A d \in Device : cached'[d] \in {cached[d], Unknown}
    BY <1>0, <1>6 DEF WriteHalf, AbortHalf, Reconnect, vars, histVars
  <2>2. CachedWhole'
    BY <2>1, NoKey DEF CachedWhole, Unmixed
  <2>3. MadeWhole' /\ RegisteredWhole' /\ BootRegistered' /\ MemWhole'
    BY <2>1 DEF MadeWhole, RegisteredWhole, BootRegistered, MemWhole, Unmixed
  <2>4. SawWhole' /\ InstallWhole'
    BY <2>1 DEF SawWhole, InstallWhole, Dev, Unmixed
  <2> QED BY <2>2, <2>3, <2>4
<1> QED BY <1>0, <1>1, <1>2, <1>3, <1>4, <1>5, <1>6 DEF Next

\* A step keeps the invariant about undisturbed tabs.
LEMMA CalmStep ==
  ASSUME TypeOK, LoadInv, OpenInv, LabelInv, CalmInv, [Next]_vars
  PROVE  CalmInv'
<1> USE DEF CalmInv
<1>0. /\ Task \subseteq Call /\ Device \subseteq Call /\ open \subseteq Device
      /\ disturbed \subseteq open
      /\ mem \in [Device -> MaybeKey] /\ cached \in [Device -> MaybeKey \cup {Unknown}]
      /\ registered \in MaybeKey
      /\ \A c \in Call : Dev(c) \in Device
      /\ \A d \in Device : Dev(d) = d
  BY DEF TypeOK, TaskState, Call, LoadInv, Dev
<1>1. ASSUME NEW t \in Task, NEW force \in BOOLEAN,
             BeginInit(t, force) \/ \E k \in Task : BeginImport(t, k, force)
      PROVE  CalmInv'
  <2>1. /\ UNCHANGED <<registered, mem, cached, open>> /\ Turn(t)
        /\ disturbed' = IF RunsIn(Dev(t)) = {} THEN disturbed ELSE disturbed \cup {Dev(t)}
        /\ task[t].pc = "idle" /\ task'[t].pc \in {"lookup", "install"}
        /\ task'[t].kind # "load"
    BY <1>1, Begin DEF tabVars
  <2>2. /\ Calm' \subseteq Calm
        /\ Dev(t) \in Calm' => \A c \in Call : Dev(c) = Dev(t) => task[c].pc \notin Running
    BY <2>1 DEF Calm, RunsIn, Dev
  <2>3. \A c \in Call : Dev(c)' = Dev(c)
    BY <2>1 DEF Turn, Dev
  <2>4. OneCall'
    <3> SUFFICES ASSUME NEW c \in Call, NEW q \in Call, Dev(c) \in Calm', Dev(q) = Dev(c),
                        task'[c].pc \in Running, task'[q].pc \in Running
                 PROVE  c = q
      BY <2>3 DEF OneCall
    <3>1. CASE c # t /\ q # t
      BY <2>1, <2>2, <3>1 DEF OneCall, Turn
    <3>2. CASE (c = t /\ q # t) \/ (c # t /\ q = t)
      BY <2>1, <2>2, <3>2 DEF Turn
    <3> QED BY <3>1, <3>2
  <2>5. PushInstalled'
    BY <2>1, <2>2, <2>3 DEF PushInstalled, Turn
  <2>6. InStep'
    BY <1>0, <2>1, <2>2, <2>3 DEF InStep, Turn
  <2>7. SawRegistered'
    BY <2>1, <2>2, <2>3 DEF SawRegistered, Turn
  <2>8. LoadRegistered'
    BY <2>1, <2>2, <2>3 DEF LoadRegistered, Turn
  <2> QED BY <2>4, <2>5, <2>6, <2>7, <2>8
<1>2. ASSUME NEW d \in Device, BeginLoad(d)
      PROVE  CalmInv'
  <2>1. /\ UNCHANGED <<registered, mem, cached, disturbed>> /\ d \notin open
        /\ open' = open \cup {d} /\ Turn(d)
        /\ task'[d].pc = "opening" /\ task'[d].kind = "load"
    BY <1>2, Open
  <2>2. /\ mem[d] = Nil /\ cached[d] = Unknown
        /\ \A c \in Call : Dev(c) = d => task[c].pc \notin Running
        /\ \A c \in Calm' : c \in Calm \/ c = d
    BY <2>1 DEF OpenInv, Calm
  <2>3. \A c \in Call : Dev(c)' = Dev(c)
    BY <2>1 DEF Turn, Dev
  <2>4. OneCall'
    <3> SUFFICES ASSUME NEW c \in Call, NEW q \in Call, Dev(c) \in Calm', Dev(q) = Dev(c),
                        task'[c].pc \in Running, task'[q].pc \in Running
                 PROVE  c = q
      BY <2>3 DEF OneCall
    <3>1. CASE Dev(c) = d
      BY <2>1, <2>2, <3>1 DEF Turn
    <3>2. CASE Dev(c) # d
      BY <1>0, <2>1, <2>2, <3>2 DEF OneCall, Turn
    <3> QED BY <3>1, <3>2
  <2>5. PushInstalled'
    BY <1>0, <2>1, <2>2, <2>3 DEF PushInstalled, Turn, Running
  <2>6. InStep'
    <3> SUFFICES ASSUME NEW c \in Calm', registered # Nil,
                        \A q \in Call : Dev(q) = c => task'[q].pc # "push"
                 PROVE  mem[c] \in {Nil, registered} /\ cached[c] \in {Unknown, registered}
      BY <2>1, <2>3 DEF InStep
    <3>1. CASE c = d
      BY <2>2, <3>1
    <3>2. CASE c # d
      <4>1. c \in Calm /\ \A q \in Call : Dev(q) = c => task[q].pc # "push"
        BY <1>0, <2>1, <2>2, <3>2 DEF Turn
      <4> QED BY <4>1 DEF InStep
    <3> QED BY <3>1, <3>2
  <2>7. SawRegistered'
    BY <1>0, <2>1, <2>2, <2>3 DEF SawRegistered, Turn, Running
  <2>8. LoadRegistered'
    BY <1>0, <2>1, <2>2, <2>3 DEF LoadRegistered, Turn, Running
  <2> QED BY <2>4, <2>5, <2>6, <2>7, <2>8
<1>3. ASSUME NEW t \in Call,
             (t \in Device /\ OpenStore(t)) \/ ReadDisk(t) \/ LookUp(t) \/ Fetch(t)
               \/ Check(t) \/ DecideInit(t)
      PROVE  CalmInv'
  <2>1. /\ UNCHANGED <<registered, mem, cached, open, disturbed>> /\ Turn(t)
        /\ task'[t].kind = task[t].kind
        /\ task[t].pc \in Running /\ task[t].pc # "push" /\ task'[t].pc # "push"
        /\ task'[t].pc \in {"answer", "decide"} =>
             /\ task'[t].saw \in {cached[Dev(t)], registered, Failed}
             /\ task'[t].saw # Unknown
        /\ task'[t].pc = "install" =>
             \/ task[t].kind = "init"
             \/ /\ task[t].kind # "init" /\ task[t].pc = "decide"
                /\ task'[t].key = task[t].key /\ task[t].saw \in {Nil, task[t].key}
    BY <1>3, Search DEF histVars, Running
  <2>2. Calm' = Calm
    BY <2>1 DEF Calm
  <2>3. \A c \in Call : Dev(c)' = Dev(c)
    BY <2>1 DEF Turn, Dev
  <2>4. \A c \in Call : task'[c].pc \in Running => task[c].pc \in Running
    BY <2>1 DEF Turn
  <2>5. OneCall'
    BY <2>2, <2>3, <2>4 DEF OneCall
  <2>6. PushInstalled'
    BY <2>1, <2>2, <2>3 DEF PushInstalled, Turn
  <2>7. InStep'
    BY <2>1, <2>2, <2>3 DEF InStep, Turn
  <2>8. SawRegistered'
    <3>1. Dev(t) \in Calm /\ task'[t].pc \in {"answer", "decide"} /\ registered # Nil =>
            task'[t].saw \in {Failed, registered}
      <4> SUFFICES ASSUME Dev(t) \in Calm, task'[t].pc \in {"answer", "decide"}, registered # Nil
                   PROVE  task'[t].saw \in {Failed, registered}
        OBVIOUS
      <4>1. \A q \in Call : Dev(q) = Dev(t) => task[q].pc # "push"
        BY <2>1 DEF OneCall, Running
      <4>2. cached[Dev(t)] \in {Unknown, registered}
        BY <4>1 DEF InStep
      <4> QED BY <2>1, <4>2
    <3> QED BY <2>1, <2>2, <2>3, <3>1 DEF SawRegistered, Turn
  <2>9. LoadRegistered'
    <3>1. Dev(t) \in Calm /\ task'[t].pc = "install" /\ task[t].kind = "load" /\ registered # Nil
            => task'[t].key = registered
      <4> SUFFICES ASSUME Dev(t) \in Calm, task'[t].pc = "install", task[t].kind = "load",
                          registered # Nil
                   PROVE  task'[t].key = registered
        OBVIOUS
      <4>1. /\ task[t].pc = "decide" /\ task'[t].key = task[t].key
            /\ task[t].saw \in {Nil, task[t].key}
        BY <2>1
      <4>2. task[t].saw \in {Failed, registered}
        BY <4>1 DEF SawRegistered
      <4>3. task[t].key \in Key
        BY <4>1 DEF LabelInv
      <4> QED BY <4>1, <4>2, <4>3, NoKey
    <3> QED BY <2>1, <2>2, <2>3, <3>1 DEF LoadRegistered, Turn
  <2> QED BY <2>5, <2>6, <2>7, <2>8, <2>9
<1>4. ASSUME NEW t \in Call, Receive(t)
      PROVE  CalmInv'
  <2>1. /\ UNCHANGED <<registered, mem, open, disturbed>> /\ Turn(t)
        /\ cached' = [cached EXCEPT ![Dev(t)] = task[t].saw]
        /\ task[t].pc = "answer" /\ task'[t].pc = "decide" /\ task'[t].saw = task[t].saw
    BY <1>4, Move DEF Receive, histVars, tabVars
  <2>2. Calm' = Calm
    BY <2>1 DEF Calm
  <2>3. \A c \in Call : Dev(c)' = Dev(c)
    BY <2>1 DEF Turn, Dev
  <2>4. \A c \in Call : task'[c].pc \in Running => task[c].pc \in Running
    BY <2>1 DEF Turn, Running
  <2>5. Dev(t) \in Calm => \A q \in Call : Dev(q) = Dev(t) => task[q].pc # "push"
    BY <2>1 DEF OneCall, Running
  <2>6. OneCall'
    BY <2>2, <2>3, <2>4 DEF OneCall
  <2>7. PushInstalled'
    BY <1>0, <2>1, <2>2, <2>3, <2>5 DEF PushInstalled, Turn
  <2>8. InStep'
    <3>1. Dev(t) \in Calm /\ registered # Nil => task[t].saw = registered
      <4>1. task[t].saw \in MaybeKey
        BY <2>1 DEF LabelInv
      <4> QED BY <2>1, <4>1, NoKey DEF SawRegistered, MaybeKey
    <3>2. \A c \in Call : task'[c].pc # "push" => task[c].pc # "push"
      BY <2>1 DEF Turn
    <3>3. ASSUME NEW d \in Calm, registered # Nil,
                 \A q \in Call : Dev(q) = d => task'[q].pc # "push"
          PROVE  mem[d] \in {Nil, registered} /\ cached'[d] \in {Unknown, registered}
      <4>1. mem[d] \in {Nil, registered} /\ cached[d] \in {Unknown, registered}
        BY <3>2, <3>3 DEF InStep
      <4>2. cached'[d] = IF d = Dev(t) THEN task[t].saw ELSE cached[d]
        BY <1>0, <2>1 DEF Calm
      <4> QED BY <3>1, <3>3, <4>1, <4>2
    <3> QED BY <2>1, <2>2, <2>3, <3>3 DEF InStep
  <2>9. SawRegistered'
    BY <2>1, <2>2, <2>3 DEF SawRegistered, Turn
  <2>10. LoadRegistered'
    BY <2>1, <2>2, <2>3 DEF LoadRegistered, Turn
  <2> QED BY <2>6, <2>7, <2>8, <2>9, <2>10
<1>5. ASSUME NEW t \in Call, Install(t)
      PROVE  CalmInv'
  <2>1. /\ UNCHANGED <<registered, open, disturbed>> /\ Turn(t)
        /\ mem' = [mem EXCEPT ![Dev(t)] = task[t].key]
        /\ cached' = [cached EXCEPT ![Dev(t)] = task[t].key]
        /\ task[t].pc = "install" /\ task'[t].key = task[t].key
        /\ task[t].kind = "load" => task'[t].pc = "ended"
        /\ task[t].kind # "load" => task'[t].pc = "push"
    BY <1>5, Move DEF Install, histVars, tabVars
  <2>2. Calm' = Calm
    BY <2>1 DEF Calm
  <2>3. \A c \in Call : Dev(c)' = Dev(c)
    BY <2>1 DEF Turn, Dev
  <2>4. \A c \in Call : task'[c].pc \in Running => task[c].pc \in Running
    BY <2>1 DEF Turn, Running
  <2>5. Dev(t) \in Calm => \A q \in Call : Dev(q) = Dev(t) => task[q].pc # "push"
    BY <2>1 DEF OneCall, Running
  <2>6. OneCall'
    BY <2>2, <2>3, <2>4 DEF OneCall
  <2>7. PushInstalled'
    <3>1. ASSUME NEW q \in Call, Dev(q) \in Calm, task'[q].pc = "push"
          PROVE  mem'[Dev(q)] = task'[q].key /\ cached'[Dev(q)] \in {Unknown, task'[q].key}
      <4>1. CASE q = t
        BY <1>0, <2>1, <4>1
      <4>2. CASE q # t
        <5>1. task'[q] = task[q] /\ Dev(q) # Dev(t)
          BY <2>1, <2>5, <3>1, <4>2 DEF Turn
        <5>2. mem'[Dev(q)] = mem[Dev(q)] /\ cached'[Dev(q)] = cached[Dev(q)]
          BY <1>0, <2>1, <5>1
        <5> QED BY <3>1, <5>1, <5>2 DEF PushInstalled
      <4> QED BY <4>1, <4>2
    <3> QED BY <2>2, <2>3, <3>1 DEF PushInstalled
  <2>8. InStep'
    <3>1. ASSUME NEW d \in Calm, registered # Nil,
                 \A q \in Call : Dev(q) = d => task'[q].pc # "push"
          PROVE  mem'[d] \in {Nil, registered} /\ cached'[d] \in {Unknown, registered}
      <4>1. CASE d = Dev(t)
        <5>1. task[t].kind = "load"
          BY <2>1, <3>1, <4>1
        <5>2. task[t].key = registered
          BY <2>1, <3>1, <4>1, <5>1 DEF LoadRegistered
        <5> QED BY <1>0, <2>1, <4>1, <5>2
      <4>2. CASE d # Dev(t)
        <5>1. \A q \in Call : Dev(q) = d => task[q].pc # "push"
          BY <2>1, <3>1, <4>2 DEF Turn
        <5>2. mem'[d] = mem[d] /\ cached'[d] = cached[d]
          BY <1>0, <2>1, <4>2 DEF Calm
        <5> QED BY <3>1, <5>1, <5>2 DEF InStep
      <4> QED BY <4>1, <4>2
    <3> QED BY <2>1, <2>2, <2>3, <3>1 DEF InStep
  <2>9. SawRegistered'
    BY <2>1, <2>2, <2>3 DEF SawRegistered, Turn
  <2>10. LoadRegistered'
    BY <2>1, <2>2, <2>3 DEF LoadRegistered, Turn
  <2> QED BY <2>6, <2>7, <2>8, <2>9, <2>10
<1>6. ASSUME NEW t \in Call, Push(t)
      PROVE  CalmInv'
  <2>1. /\ UNCHANGED <<mem, cached, open>> /\ Turn(t)
        /\ task[t].pc = "push" /\ task'[t].pc \notin Running
    BY <1>6, Move DEF Push, tabVars, Running
  <2>2. /\ Calm' \subseteq Calm
        /\ \A d \in Calm' : \/ d = Dev(t) /\ registered' = task[t].key
                            \/ d # Dev(t) /\ registered' = registered
    <3>1. PICK ok \in BOOLEAN, stored \in BOOLEAN :
            /\ ok => stored
            /\ registered' = IF stored THEN task[t].key ELSE registered
            /\ disturbed' = disturbed \cup (IF ok THEN {} ELSE {Dev(t)})
                                       \cup (IF stored THEN open \ {Dev(t)} ELSE {})
      BY <1>6 DEF Push
    <3> QED BY <2>1, <3>1 DEF Calm
  <2>3. \A c \in Call : Dev(c)' = Dev(c)
    BY <2>1 DEF Turn, Dev
  <2>4. \A c \in Call : task'[c].pc \in Running => c # t /\ task'[c] = task[c]
    BY <2>1 DEF Turn, Running
  <2>5. Dev(t) \in Calm => \A q \in Call : Dev(q) = Dev(t) /\ task[q].pc \in Running => q = t
    BY <2>1 DEF OneCall, Running
  <2>6. OneCall'
    BY <2>2, <2>3, <2>4 DEF OneCall
  <2>7. PushInstalled'
    BY <2>1, <2>2, <2>3, <2>4 DEF PushInstalled, Running
  <2>8. InStep'
    <3>1. ASSUME NEW d \in Calm', registered' # Nil,
                 \A q \in Call : Dev(q) = d => task'[q].pc # "push"
          PROVE  mem[d] \in {Nil, registered'} /\ cached[d] \in {Unknown, registered'}
      <4>1. CASE d = Dev(t)
        BY <2>1, <2>2, <3>1, <4>1 DEF PushInstalled
      <4>2. CASE d # Dev(t)
        <5>1. \A q \in Call : Dev(q) = d => task[q].pc # "push"
          BY <2>1, <3>1, <4>2 DEF Turn
        <5> QED BY <2>2, <3>1, <4>2, <5>1 DEF InStep
      <4> QED BY <4>1, <4>2
    <3> QED BY <2>1, <2>3, <3>1 DEF InStep
  <2>9. SawRegistered'
    <3>1. ASSUME NEW q \in Call, Dev(q) \in Calm', task'[q].pc \in {"answer", "decide"},
                 registered' # Nil
          PROVE  task'[q].saw \in {Failed, registered'}
      <4>1. task'[q] = task[q] /\ Dev(q) # Dev(t)
        BY <2>2, <2>4, <2>5, <3>1 DEF Running
      <4> QED BY <2>2, <3>1, <4>1 DEF SawRegistered
    <3> QED BY <2>3, <3>1 DEF SawRegistered
  <2>10. LoadRegistered'
    <3>1. ASSUME NEW q \in Call, Dev(q) \in Calm', task'[q].pc = "install",
                 task'[q].kind = "load", registered' # Nil
          PROVE  task'[q].key = registered'
      <4>1. task'[q] = task[q] /\ Dev(q) # Dev(t)
        BY <2>2, <2>4, <2>5, <3>1 DEF Running
      <4> QED BY <2>2, <3>1, <4>1 DEF LoadRegistered
    <3> QED BY <2>3, <3>1 DEF LoadRegistered
  <2> QED BY <2>6, <2>7, <2>8, <2>9, <2>10
<1>7. ASSUME NEW d \in Device, Close(d)
      PROVE  CalmInv'
  <2>1. /\ UNCHANGED registered /\ open' = open \ {d} /\ disturbed' = disturbed \ {d}
        /\ mem' = [mem EXCEPT ![d] = Nil] /\ cached' = [cached EXCEPT ![d] = Unknown]
        /\ \A c \in Call : /\ Dev(c)' = Dev(c)
                           /\ task'[c].pc \in Running => task'[c] = task[c]
                           /\ Dev(c) # d => task'[c] = task[c]
    BY <1>7, Shut DEF Dev
  <2>2. Calm' = Calm \ {d}
    BY <2>1 DEF Calm
  <2>3. \A c \in Calm' : mem'[c] = mem[c] /\ cached'[c] = cached[c]
    BY <1>0, <2>1, <2>2 DEF Calm
  <2>4. OneCall'
    BY <2>1, <2>2 DEF OneCall
  <2>5. PushInstalled'
    BY <2>1, <2>2, <2>3 DEF PushInstalled
  <2>6. InStep'
    BY <2>1, <2>2, <2>3 DEF InStep
  <2>7. SawRegistered' /\ LoadRegistered'
    BY <2>1, <2>2 DEF SawRegistered, LoadRegistered
  <2> QED BY <2>4, <2>5, <2>6, <2>7
<1>8. CASE \/ \E d \in Device : WriteHalf(d) \/ AbortHalf(d) \/ Reconnect(d)
           \/ UNCHANGED vars
  <2>1. /\ UNCHANGED <<registered, open, disturbed, mem, task>>
        /\ \A d \in Device : cached'[d] \in {cached[d], Unknown}
    BY <1>0, <1>8 DEF WriteHalf, AbortHalf, Reconnect, vars, histVars, tabVars
  <2>2. Calm' = Calm /\ Calm \subseteq Device /\ \A c \in Call : Dev(c)' = Dev(c)
    BY <1>0, <2>1 DEF Calm, Dev
  <2>3. OneCall' /\ SawRegistered' /\ LoadRegistered'
    BY <2>1, <2>2 DEF OneCall, SawRegistered, LoadRegistered
  <2>4. PushInstalled'
    BY <1>0, <2>1, <2>2 DEF PushInstalled
  <2>5. InStep'
    BY <2>1, <2>2 DEF InStep
  <2> QED BY <2>3, <2>4, <2>5
<1> QED BY <1>0, <1>1, <1>2, <1>3, <1>4, <1>5, <1>6, <1>7, <1>8 DEF Next

\* The initial states satisfy the inductive invariant.
LEMMA InitInv == Init => IInv
<1> SUFFICES ASSUME Init PROVE IInv
  OBVIOUS
<1>1. PICK browser \in [Task -> Device] :
        task = [c \in Call |->
          [pc |-> "idle", dev |-> IF c \in Task THEN browser[c] ELSE c,
           kind |-> IF c \in Task THEN "init" ELSE "load",
           force |-> FALSE, hadKey |-> FALSE, key |-> Nil, saw |-> Unknown]]
  BY DEF Init
<1>2. /\ task \in [Call -> TaskState]
      /\ \A c \in Call : task[c].pc = "idle" /\ task[c].key = Nil
      /\ \A t \in Task : task[t].kind = "init"
      /\ \A d \in Device : task[d].dev = d /\ task[d].kind = "load"
  BY <1>1, CallAssumption DEF Call, TaskState, Label, MaybeKey
<1>3. /\ registered = Nil /\ mem = [d \in Device |-> Nil] /\ cached = [d \in Device |-> Unknown]
      /\ disk = [d \in Device |-> [h \in Half |-> Nil]] /\ writes = [d \in Device |-> <<>>]
      /\ open = {} /\ ks = {} /\ unsaved = {} /\ disturbed = {}
      /\ atBoot = [d \in Device |-> Nil] /\ accepted = {} /\ replaced = {}
  BY DEF Init
<1>4. TypeOK
  BY <1>2, <1>3 DEF TypeOK, MaybeKey
<1>5. LoadInv /\ LabelInv
  BY <1>2 DEF LoadInv, LabelInv
<1>6. OpenInv /\ DiskInv
  BY <1>2, <1>3 DEF OpenInv, DiskInv, Running
<1>7. MixInv
  BY <1>2, <1>3, NoKey DEF MixInv, MadeWhole, RegisteredWhole, BootRegistered, CachedWhole,
     MemWhole, SawWhole, InstallWhole
<1>8. CalmInv
  BY <1>2, <1>3 DEF CalmInv, Calm, OneCall, PushInstalled, InStep, SawRegistered, LoadRegistered
<1> QED BY <1>4, <1>5, <1>6, <1>7, <1>8 DEF IInv

\* A step keeps the inductive invariant.
LEMMA InvStep == IInv /\ [Next]_vars => IInv'
BY LabelStep, TypeStep, DiskStep, MixStep, CalmStep DEF IInv

\* The inductive invariant holds in every reachable state.
THEOREM Invariance == Spec => []IInv
BY InitInv, InvStep, PTL DEF Spec

\* Every variable has its type.
THEOREM TypeCorrect == Spec => []TypeOK
<1>1. IInv => TypeOK
  BY DEF IInv
<1> QED BY Invariance, <1>1, PTL

\* Whatever keys the calls of a tab install, in whatever order, before or after its
\* keystore is open, IndexedDB holds both halves of the key in use once the writes
\* are done, unless one of them failed.
THEOREM DiskFollowsTheTab == Spec => []DiskFollowsMemory
<1>1. IInv => DiskFollowsMemory
  BY DiskFollows DEF IInv
<1> QED BY Invariance, <1>1, PTL

\* The halves of two keys, which a tab closed too early or a failed write leaves in
\* the browser, are never installed in a tab that was opened when a key was registered.
THEOREM NoMixedKey == Spec => []MixedKeyNeverUsed
<1>1. IInv => MixedKeyNeverUsed
  BY DEF IInv, TypeOK, MixInv, MemWhole, Unmixed, MaybeKey, MixedKeyNeverUsed
<1> QED BY Invariance, <1>1, PTL

\* When no calls overlapped in a tab, its pushes succeeded and no other browser pushed
\* meanwhile, the tab ends up with the registered key or none, for every combination
\* of what IndexedDB, the cache and the server held, and of lookups that failed.
THEOREM CalmTabIsRegistered == Spec => []UndisturbedTabUsesRegisteredKey
<1>1. IInv => UndisturbedTabUsesRegisteredKey
  <2> SUFFICES ASSUME IInv, NEW d \in open \ disturbed, RunsIn(d) = {}, mem[d] # Nil,
                      registered # Nil
               PROVE  mem[d] = registered
    BY DEF UndisturbedTabUsesRegisteredKey
  <2>1. d \in Calm /\ \A t \in Call : Dev(t) = d => task[t].pc # "push"
    BY DEF Calm, RunsIn, Running, Dev
  <2> QED BY <2>1 DEF IInv, CalmInv, InStep
<1> QED BY Invariance, <1>1, PTL
==============================================================================
