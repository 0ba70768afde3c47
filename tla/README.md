# Verification of the Mattermost end-to-end encryption plugin

This directory holds TLA+ specifications of `mattermost-plugin-e2ee`, TLC configurations that
model-check them on small instances, and theorems that TLAPS checks for every instance. The
plugin lets the members of a Mattermost channel exchange messages that the server cannot read.
A Go plugin in the server keeps public keys, backups of private keys and the encryption method
of every channel; a TypeScript plugin in the web application keeps the private key, encrypts
what is sent and decrypts what is shown.

Run a configuration with `tlc -config <file>.cfg <module>` and the proofs with
`tlapm <module>.tla`, for each of the eight modules whose name ends in `Proofs`.

## 1. The system

| Part | Source | State | Operations |
|---|---|---|---|
| Channel encryption methods | `server/channel_encr_meth.go`, `server/api.go` | a KV entry per channel, one RWMutex for all of them | `get`, `setIfDifferent`, the handlers of the two REST routes |
| Post hook and configuration | `server/hooks.go`, `server/configuration.go` | the configuration pointer and its lock, the set `AlwaysAllowMsgTypes` | `MessageWillBePosted`, `OnConfigurationChange` |
| Public keys and backups | `server/pubkey.go`, `server/privkey_backup.go`, `server/api.go`, `server/plugin.go` | KV entries `pubkey:` and `backup_gpg:` per user | `PushPubKey`, `GetPubKeys`, `GetChannelMembersWithoutKeys`, the mail, `/e2ee show_backup` |
| Channel status cache | `webapp/src/actions.ts`, `reducers.ts`, `hooks.tsx` | redux map `chansEncrMethod` | fetch, `toggleEncryption`, `channelStateChanged`, `LEAVE_CHANNEL`, `GOT_RECONNECTED` |
| Lock in the channel header | `webapp/src/components/icon.tsx` | the component's `isEncrypted` | its effect, which looks the method up |
| Sending decision | `webapp/src/hooks.tsx` | localStorage `chanEncrMeth:` | `encryptPost`, `setChannelEncryptionMethod` |
| Recipients and warnings | `webapp/src/hooks.tsx`, `pubkeys_storage.ts` | redux map `pubkeys`, localStorage `pubkeyID:` and `e2eeChannelRecipients:` | the rest of `encryptPost`, `checkPubkeys`, `onNewPubKey` |
| Private key | `webapp/src/privkey.ts`, `keystore.ts`, import dialog | redux `privkey`, IndexedDB items `ecdh_` and `ecdsa_` | `init`, `load`, `generate`, `import`, `/e2ee init` |
| Debounced requests | `webapp/src/utils.ts`, `client/client.ts` | shared set, callbacks, timer | `debouncedMerge` around `getPubKeys` |
| Message cache and display | `webapp/src/msg_cache.ts`, `components/e2ee_post` | a Map with at most `MAX_MSGS` entries, the state of a component | `addMine`, `addUpdated`, `addDecrypted`, `get`, the effect |
| Notifications | `webapp/src/hooks.tsx`, `notifications.ts`, `notification_actions.js` | `requestedNotificationPermission` | `onPosted`, `shouldNotify`, `sendDesktopNotification`, `showNotification` |
| Message format | `webapp/src/e2ee.ts`, `e2ee_post.ts` | none | `encrypt`, `verifyAndDecrypt` |

How they interact. The client calls the server by REST (`push_pubkey`, `get_pubkeys`,
`get`/`set` of a channel's method). The server tells clients by websocket events `newPubkey`
(to all users but the author of the push) and `channelStateChanged` (to the channel's members);
`posted`, `user_removed` and the reconnection come from Mattermost itself. Server parts share
the KV store and nothing else; tabs of one browser share localStorage and IndexedDB and have a
redux store each.

What is hard. On the server every request and every hook call is a goroutine, KV operations
are atomic one by one, several of them make an operation, and each may fail. In the client
everything runs to the next `await`, so that what was read before it may be stale after it:
answers, websocket events, reconnections, other sends and other tabs come in any order. A tab
can be closed, and the server plugin restarted, between any two steps. `PROJECT.json` lists
these hazards with their lines and the properties aimed at them.

What makes each part correct:

- methods: the read-compare-write of `setIfDifferent` is atomic, each change is told once;
- post hook: a clear message passes an encrypted channel only for a stated exception, and
  only such messages are turned away;
- keys: the backup a user gets is one of his announced keys, and of the current one after a
  successful push; answers about keys are complete and fresh;
- status cache: what an idle client believes about a channel is what the server has;
- lock: what it shows is what the client believes about the channel in view;
- sending: no message goes out in clear after an encrypted one without consent; every message
  ends somewhere;
- recipients: nobody gets a message unannounced; a changed key is noticed;
- private key: what is stored is what is used; an incomplete or mixed pair is not used;
  nothing but `--force` erases a key; a tab uses the registered key;
- debouncing: no call is lost, answered twice, or with another's or an older answer;
- notifications: a post that concerns the user is shown, once it is wanted and permitted, and no
  other is;
- display: the text shown for a post is the text of that post in that version;
- messages: only the text its author meant for the reader is shown.

## 2. Plan

Modules in the order in which they were, or will be, written; a later one relies on what the
earlier ones show.

1. `ChanEncrMethodAbs`, `ChanEncrMethod`, `ChanEncrMethodProofs` - the register of methods, its
   implementation and the proofs. Done.
2. `ChannelStatus` - the clients next to that register (composes `ChanEncrMethodAbs` by
   INSTANCE). Done.
3. `PostGate` - the hook next to the configuration. Done.
4. `SendPost` - the client's decision, next to a server that gates posts. Done.
5. `KeyServer`, `PrivKey`, `Recipients` - the life of keys on the server, in the browsers and
   as recipients. Done, except for what section 7 names.
6. `DebouncedMerge`, `ReadPost`, `P2PMessage` - requests for keys, display and format. Done.
7. `Notify` (composes `DebouncedMerge`) and `Icon` (composes `ChannelStatus`) - what the user
   sees: notifications and the lock. `PrivKey` with a keystore that opens late, or not at all,
   and writes that fail; `SendPost` with edits. Done.
8. `DebouncedMergeAbs` - what the debouncer promises. Done.
9. A module of proofs for each component: every safety invariant and action property of the
   passing runs is a theorem, and so are both refinements. Done; section 5.
10. Next: the switch of users in one tab and the upgrade of the key store (in `PrivKey`),
    `verifyUsernamesInChannel` (in `Recipients`), and their proofs.

## 3. Modules

Names follow the source. Every module has `Init`, one action per step of the code, `Next`,
`Spec`, where needed `FairSpec`, and then its properties. Histories ("history:" in the
declarations) are written and never read by the actions, except those that only feed other
histories. An operator whose comment begins with "Fault:" is not part of the specification: it is a
plausible error of the operator that follows it, under which one of the properties fails, and
documents that the property depends on that code. The definitions of `ReadPost` and `P2PMessage`
have prefixes (`ReadSpec`, `MsgSpec`) because the modules of proofs `DisplayProofs` and `PostProofs`
extend two components each.

**ChanEncrMethodAbs** is what the server promises: per channel, a method; a set request
decides in one step to change it, to find it already so or to fail, with or without effect; a get
request answers the method, or "none" when the store fails.

**ChanEncrMethod** is the code: every goroutine has a program counter, and a step is one call
of the plugin API or of the RWMutex. `Lock`, `ReadOld`, `SameMethod`, `StoreNew` and `Unlock`
are `setIfDifferent`; `RLock`, `Get` and `Unlock` are `get`; `CheckMember`, `Publish`,
`GetRequester`, `GetChannelMembersWithoutKeys`, `Announce` and `TellAlready` are the rest of the
handlers. Each call that returns an error in Go has a failing branch, and a KVSet that reports an
error may have stored the method all the same (`"torn"`). `Crash` stops the process between any two
steps: its requests are `"lost"`, the mutex is new, and what KVSet stored stays. A request that ends
between its change and the event about it, in either way, is `"cut"`.

**ChannelStatus** puts tabs next to the abstract register. Every method has an age, the
number of changes stored so far, so that "older" and "newer" can be told; changes whose request was
told of a failure count as well, and have no event. An event is published
some time after its change and in any order with others (`Publish`); a tab that is offline or
out of the channel does not get it. `FinishFetch` is the code after the `await` of
`getChannelEncryptionMethod`, with the reducer; the set requests are finitely many, and the answers
under way are kept tab by tab; `ChannelStateChanged`, `LeaveChannel` and
`Reconnect` are the websocket handlers. `Set` asks for any method at any time, which includes what
`toggleEncryption` asks for, however old the method is that it computed the other one from.

**Icon** extends it with the lock in the channel header. The effect of the component runs again
whenever the channel in view or the map changes (`stale`), takes the cached method or asks for it,
and never cancels a lookup; those of another channel are one flag, `elsewhere`, with any answer.
A continuation of a settled promise is a microtask and runs before React's next passive effect,
so the dispatch and the `setIsEncrypted` of one answer are one step.

**PostGate** has the hook step by step against `setConfiguration`, which installs the
pointer, replaces the set and fills it under the lock, while the hook reads the set without it.
The Go memory model leaves that open: the read sees the set while it is filled, or the runtime
finds the concurrent map access and stops the process (`Crash`, `Restart`).

**SendPost** has `encryptPost` up to the encryption, cut at its awaits, for the tabs of one
browser, with changes of the method by others, stale caches (`Notice`), own changes, the prompt,
failing requests and the server's verdict. A call may end with the error that the hook returns or
with the exception that leaves it (`"thrown"`: a TypeError, or a rejection that nothing catches).
An edit goes the same way, except that an empty one passes untouched (`EmptyEdit`) and that the
server does not gate edits.

**KeyServer** has one step per KV operation of `PushPubKey`, its event and its mail, of the loops
of `GetPubKeys` and `GetChannelMembersWithoutKeys`, and of `show_backup`. The key server setting
changes at any time (it is read again at each use), users are deactivated or not, `Restart` cuts
all requests off. `Page` is the one page of `MaxUsersPerTeam` members that the warning looks at. A
KV operation that fails leaves the value here. A key and its backup are named by the request that
pushed them.

**PrivKey** has the calls of `init` (with or without `--force`), `import` (with or without the
confirmation) and the load of a new tab for the browsers of one user. The keystore opens
asynchronously, or fails to, and only then is the store observed (`OpenStore`); a call may install
a key before that. A key has two halves that are written in two IndexedDB transactions, each of
which may abort (`AbortHalf`); closing the tab loses those that are queued. The histories `unsaved`
and `disturbed` name the browsers where a write aborted, and those whose calls overlapped, whose
push failed or whose key another browser replaced.

**Recipients** has the p2p branch of `encryptPost`, the observer of the public keys with its
overlapping `checkPubkeys` loops, `newPubkey` events and reconnections. Keys are also asked for by
posts that are displayed (`GetAuthor`, `Display`); only such calls leave the author's profile
unloaded, for which a warning fails, since the members of a message are fetched with their profiles.
A loop also ends when `localStorage` refuses an identifier. A user's keys are numbered in the order
in which they were registered, and `pushes` counts them. The histories are about keys, not users:
`warned` has the keys that the user was told of as a change, `silent` the changed keys that a failing
loop stored as known, `skipped` those that it did not get to; `firstID` is the first key known of
each user. The keys of one request are read at once, while `KeyServer` has the loop of the server.

**DebouncedMerge** has the debounced call, the timer, the server's read, the answer and the
failure. The server reads the keys of a request one after the other (`Serve`), as the loop of
`GetPubKeys` does, while users register keys.

**DebouncedMergeAbs** is what those who call it are promised: `getPubKeys` as it would be without
the debouncer, with a request for each call. It keeps, for every call, the keys that were read.

**Notify** extends it with `onPosted`, whose calls are callers of the debounced `getPubKeys`: the
post is dropped, read from the cache or decrypted once the key is there; `ShouldNotify` looks at
every text of up to `MaxText` words, under every setting of the user, where a word stands for a kind
of word (a mention of everybody, of those who are here, of the user, a mention key in one or the
other case, the first name, any other). `Class` is the reference: what the settings say of the
text as a whole. `Turn` is the user who looks elsewhere, mutes the channel, goes away or comes back,
`AnswerPrompt` the answer to the browser's prompt.

**ReadPost** has the cache as a sequence of entries with an id, a text and a signature, each named by
the version it is of, so that an entry can hold the text of one version and the signature of
another; its order is that of insertion. There are posts known under a
pending and a final id, edits, the decryption of `onPosted`, the effect of `E2EEPost` and the decryptions it
starts and does not cancel, a change of the private key and the reload of the tab.

**P2PMessage** has the format with symbolic cryptography: signatures, ECDH, AES-KW (which
notices a wrong key) and AES-CTR (which does not). Stored messages lose fields, exchange them with
another message or have their wrapped keys exchanged; `intact` has the fields of each message to
which nothing of that has happened. Keys are replaced between writing and reading.

## 4. Runs

| Run | Instance | What it shows |
|---|---|---|
| `chan_method` | 3 requests, 2 channels, fair | The mutex is held exactly in the critical sections (`LockDiscipline`); consecutive changes differ (`ChangesAlternate`); each change has one event, unless its request was cut off, and at most one announcement, after it (`EveryChangeToldOnce`); every request ends, or is stopped with the process (`EveryRequestServed`); the whole implements the register (`ImplementsAtomicRegister`). |
| `status` | 1 tab with 2 fetches and its lock, 2 set requests | `CurrentUnlessOvertaken`: an idle tab knows the current method or nothing, unless its status was overtaken; `LockShowsStatus`: once its lookups have ended, the lock shows what the tab knows of the channel in view. |
| `status_left` | 1 tab, 1 fetch, 1 set | Violated: `LeftChannelIsForgotten`, see section 6. |
| `gate` | 1 post at a time, 3 reloads between 2 configurations, 2 changes of the method | `ClearPostHasReason`, `RejectedPostHasReason`: every verdict has one of the reasons the code names, whatever overlaps the call. |
| `send` | 2 messages, 2 tabs, 1 change by others, 1 own, fair | `NoSilentClear` and `EveryPostSettles`. |
| `keys` | 3 requests, 2 users (one beyond the page of members), 1 change of the setting | `BackupMatchesKey`, `BackupOfAnnouncedKey`, `MailedBackupIsOwn`, `KeylessWarningIsRight`, `PubKeysReplyIsFresh`. |
| `privkey` | 2 browsers, 2 calls | `DiskFollowsMemory`, `MixedKeyNeverUsed`, `UndisturbedTabUsesRegisteredKey`: a tab whose calls did not overlap, and whose key nobody else replaced, uses the registered key. |
| `privkey_force` | 2 browsers, 2 calls | Violated: `UnforcedInitKeepsKey`, see section 6. |
| `recipients` | 2 messages or displayed posts, 2 users, 3 keys or reconnections | `SentToAnnounced`: what a message is encrypted for was announced; `ChangedKeyIsWarned`: when no check is running, a cached key is the first one known of its user, or the user was warned of this very key, be it the first change or a later one, or a check failed at it or before it. |
| `debounce` | 3 calls for {i1}, {i1, i2}, {i2}, the first and the last for posts; one user registers a key meanwhile; texts of up to 2 words; fair | `HeldOnce`: a waiting call is in the shared state or in one request; `ImplementsSeparateRequests`: the calls cannot tell the debouncer from a request of their own, so that what each gets is for its own users and was read during the call; `EveryCallEnds`; `ShownHasReason`, `MissedHasReason`: a notification is shown, or a post that concerns the user goes unnoticed, only for a reason. |
| `read` | 2 posts with 2 versions, 1 key, a cache of 2 entries | `LastEffectShowsItsVersion`; `EvictsOnlyAtTheLimit`: the cache stays below its limit, and an insertion evicts at most the oldest entry, and only when it is full. |
| `p2p` | 2 messages, 2 users, 1 replacement each, 2 damaged fields | `OnlyAuthenticTexts`: what is read was signed by its author for the reader, is never garbage, and is the text of another message only when no field of the own one is left; `RecipientsCanRead`: a message without damage is read by its recipients while its author keeps his key, and by no other. |

Each passing run also checks the type invariant of its module.

Why the bounds are enough. An atomicity error between requests needs two of them, and a third
distinguishes "one other" from "the others"; a second channel shows that channels share the lock
and nothing else. `status` needs two changes for a stale answer to differ from a newer event and
two fetches for one to overtake the other; tabs do not see each other, so one is enough. `gate`
needs three loads: the first one, one that differs and one while a call runs; calls do not see each
other except through `Crash`, so one call after another is enough. `send` needs an encrypted and a
clear message and a second tab for localStorage to be shared. `keys` needs two pushes and a query or
a third push; `privkey` needs two calls to make, or restore, another key in either browser.
`recipients` needs two sends for stale recipients and three keys of one user for a change behind a
change (a warning of the first one does not stand for the second); keys and reconnections share the
bound `MaxChanges`. In `read` the tab has no private key and then one (`MaxKeys`), as a second one takes
longer than a run should; the theorems are for any number. In
`debounce` the three arguments overlap pairwise or not at all, and calls fall in one, two or three
batches; one key registered meanwhile tells an answer before it from one after. Two words are
enough for `shouldNotify`, where the first mention hides the second, and two posts for the prompt,
which the first opens and the second finds open. In `read` two ids of one post fill the cache, so
the second post evicts. All bounds are constants (`MaxReloads`, `MaxFlips`, `MaxSets`, `MaxChanges`, `MaxInbox`,
`MaxMade`, `MaxKeys`, `MaxMsgs`, `MaxRotations`, `MaxDamage`, `MaxUsers`, `MaxText`); only
`MaxMsgs` is also one of the code (`MAX_MSGS` is 5000 there). Symmetry is used for sets of model values, and not with liveness.

Deadlock is checked in every run. `Done`, `AllServed`, `AllSettled` and their like let a finite
set of requests end; elsewhere reconnections or restarts go on for ever.

Fairness. `ChanEncrMethod!FairSpec`: weak fairness of each goroutine; the Go scheduler runs what
is runnable, and calls of the plugin API return. Weak fairness of a step that waits for the mutex is
enough here because there are finitely many requests: Go's RWMutex prefers waiting writers, which is
stronger than what is assumed. `Crash` has no
fairness; a request that it stops counts as ended. `SendPost!FairSpec`: the event loop runs every continuation, a request
is answered or fails by its timeout, and the user answers the prompt. `Notify!NotifySpec` (and
`DebouncedMerge!FairSpec`, for the debouncer alone): the timer fires, and requests end; nothing is
assumed of the user. No other module states liveness.

## 5. Proofs

Every safety invariant and every action property that a passing run checks is a theorem of the
same specification, for all values of the constants, and so are the two refinements. What the
theorems assume of the constants are the named assumptions of the modules, and TLC evaluates them
in the runs: identifiers that mean "none" are no requests, keys, or users; calls and tabs are
different things; bounds are numbers; users (`P2PMessage`) and set requests (`ChannelStatus`) are
finite. Two of them say more. `MissingAssumption` (`P2PMessage`) has a lost field differ from any
that `Encrypt` produces, and `ReadPostAssumption` has a cache that can hold an entry. No bound that
stands for the size of the instance (`MaxReloads`, `MaxMade`, `MaxText`, ...) is fixed by a proof.

Each module proves one inductive invariant, in a lemma for each of its conjuncts, with a step for
each action, or the other way round where an action disturbs most of them; the theorems follow from
it. Why the properties alone are not inductive, and what the invariant adds:

- `ChanEncrMethodProofs` (`TypeCorrect`, `MutexHeld`, `ComparedIsStored`, `Alternation`,
  `ToldOnce`, `Implementation`). That no other request stores between `ReadOld` and `StoreNew` needs
  `LockDiscipline` (both would be the writer), which in turn needs `LabelInv` (which labels a set
  and a get can be at, stopped requests included, and what `ret` holds there, so that `Unlock` releases what was acquired).
  `ChangesAlternate` needs `OldMethodIsCurrent`: the method just stored differs from `old`, which
  is the last one. `EveryChangeToldOnce` counts; `ToldLabels` says at which labels a request
  owes an event, or a post, for its change, or was cut off before it, and lemmas on cardinalities (`CountAppend`,
  `CardSplit`) follow the counts through the steps.
  `Implementation` maps `mode <- [c |-> MethodOf(kv[c])], asked <- req` and `result` to `ret`, where
  "torn" is an error, and shows for every action that it is a step of the register (`StoreNew` with
  "torn" is a `Fail` that took effect) or leaves its variables unchanged (as `Crash` does).
- `DisplayProofs`, first part (`TypeCorrect`, `IdleTabIsCurrent`, `LockIsRight`, of `Icon` and
  the `ChannelStatus` under it). `ServerInv` has each change stored once, those reported as failed
  included, so that a method's age says which one it is; `StatusRight`, `InboxRight` and `FetchRight` have every method that a tab
  holds, or that is under way to it, be the one of its age; `Heard` has each published change in the
  inbox of those who have not taken it in; `StatusNew` has a status that was not overtaken be as
  new as what the tab has taken in. That the lock is right then depends on the tab alone
  (`OneTab`), since every step of `Icon` is one of `ChannelStatus` or leaves it alone
  (`IconIsStatus`).
- `DisplayProofs`, second part (`ReadTypeCorrect`, `LastEffectIsRight`, `CacheEvictsOne`, of
  `ReadPost`). A text is shown from the cache or by a decryption: `TextsMatch` has every text of the
  cache be of the version of its signature, `JobsRight` has the decryption that the last effect started be
  for what that effect ran for, and no other decryption count as its. `Sized` and `IdsOnce` give the
  evicted entry: the first one, when `MAX_MSGS` is reached.
- `PostProofs`, first part (`TypeCorrect`, `ClearPostsAreExcused`, `RejectionsAreExcused`, of
  `PostGate`). `WitnessInv` has what a call could see now be among what it has witnessed, and no more
  than one configuration among it without a reload, for which `LoaderInv` says what the set holds at
  each point of `setConfiguration`; `LabelInv` says what the label of a call has shown of the method
  and the bots.
- `PostProofs`, second part (`MsgTypeCorrect`, `TextsAreAuthentic`, `RecipientsRead`, of
  `P2PMessage`). `FieldsSent` has every field of a stored message be lost or be that field of some
  message sent; `IntactAsSent` has an undamaged one be its own. The lemma `SignDataInjective` shows
  that the signed data determine the IV, the ephemeral key and the encrypted text, whatever number
  of recipients is between them, so that a signature that verifies is for the message whose text
  is decrypted; the wrapped keys are not signed, and a wrong one does not unwrap; `SetToSeqOnce` and
  `WrapsOnce` that a reader finds the one key that was wrapped for him.
- `SendPostProofs` (`TypeCorrect`, `ClearOnlyByConsent`). `SoleInv` says what "alone" means while the
  call is under way; `ReadInv`, `EncryptInv` and `LastInv` that localStorage is what such a call read,
  that a message is remembered before it is encrypted, and that it is not forgotten.
- `KeyServerProofs` (`TypeCorrect`, `BackupsMatch`, `BackupsAnnounced`, `WarningsRight`,
  `RepliesFresh`, `MailsOwn`). `KeyInv`, `AnnouncedInv` and `HandedInv` follow a key
  and its backup from the push to the mail; `CleanInv` follows the pushes that overlap no other of the user; `QueryInv` is about
  those users that the loop of a query has visited so far.
- `PrivKeyProofs` (`TypeCorrect`, `DiskFollowsTheTab`, `NoMixedKey`, `CalmTabIsRegistered`).
  `DiskInv` says what IndexedDB will hold once the queued transactions are done (`WillHold`);
  `MixInv` that in a tab opened after a key was registered nothing mixed is looked up, loaded or
  installed; `CalmInv` where the one call of an undisturbed tab has the tab and the server
  disagree: between the installation of a key and its push.
- `RecipientsProofs` (`TypeCorrect`, `OnlyAnnouncedKeys`, `ChangesAreWarned`). `AnnounceInv` has the
  keys of a message announced, except for those held as new until the announcement; `FirstKnown`
  has the known key of a user be the first one, or one he was warned of, or one that a failing check
  stored; `ToCheck` that a key in the cache is one of these, or was skipped by a failing check, or
  is still to be looked at by a running one. As `warned` holds keys, a warning of an earlier change
  does not excuse a later one.
- `NotifyProofs` (`TypeCorrect`, `CallsHeldOnce`, `SeparateRequests`,
  `ShownForAReason`, `MissedForAReason`). `BatchWaits`, `RequestsWait`, `Apart` and `NoneLost` say of
  sets what `HeldOnce` says of numbers, and `Covered` that a request asks for all that its calls ask
  for. `SeparateRequests` maps what was read for a
  call to what its request has of it (`KeysRead`): a batch that is sent is no step of the abstract
  module, a key that is read is read for all the calls of the request that ask for it, and the
  request's end is the end of its calls. `HandlerInv` says what a handler has seen at
  each stage; that `shouldNotify` errs in no other case than the one in `Class` is a lemma about
  texts of every length (`ReadingsRight`), by the least index of a mention.

TLC has checked each invariant on the instance of its run before the proof. Two attempts changed the
models. `OnlyAuthenticTexts` used to say that the text read is always that of the message that was
stored, which fails when all five fields are exchanged with those of another message: nothing
signed says which post a message is for. And `EvictsOnlyAtTheLimit` did not say which entry goes.

What stays with TLC: the liveness properties `EveryRequestServed`, `EveryPostSettles` and
`EveryCallEnds`, because they depend on fairness, hence on ENABLED, which the prover does not treat;
and the two runs that show a violation, where a counterexample is all there is to show.

## 6. Disagreements and known limits

Two runs show that the code does other than a comment or a help text of the repository says.

- `status_left`. `reducers.ts:62` removes the status of a channel that the user leaves "as we
  won't get websockets events anymore". If a fetch is under way, its answer puts the status back
  (`actions.ts:61`), and later changes do not reach the tab.
- `privkey_force`. `plugin.go:19` asks for `--force` "to erase an existing key". `userHasPubkey`
  (`privkey.ts:77`) takes an error for "no key": when the lookup fails although a key is registered,
  init without `--force` pushes another key over it. That a cached "no key" survives a push by
  another browser of the same user, who is omitted from `newPubkey` (`api.go:55`), is a second way
  to the same end; the counterexample does not need it.

Other limits of the code are excluded explicitly, by a named history or condition, in the property
that holds apart from them, or are outside every property. Where the models have such a behaviour, the
property fails without its exception; a hazard in `PROJECT.json` that no property speaks of says why:

- a change of the method is stored, and nobody is told of it, when the process stops before the
  event or KVSet reports an error for what it stored (`channel_encr_meth.go:94`, `"cut"` in
  `EveryChangeToldOnce`);
- an answer of `get_pubkeys` that was read before a push, whose event is lost with the connection,
  is cached after the reconnection (`actions.ts:35`); `ChangedKeyIsWarned` compares with the cache,
  and no property with the server;
- an answer or event overtaken by a newer event, a reconnection or a departure leaves a stale
  status until the next event (`late` in `CurrentUnlessOvertaken`);
- a failing `KVGet` reads as "none" and lets a clear message pass (`channel_encr_meth.go:59`,
  `kvError` in `ClearPostHasReason`);
- a listed message type is turned away while the set is filled again, or the plugin crashes
  (`hooks.go:34`, `reload` in `RejectedPostHasReason`);
- overlapping sends or sets of one browser can skip the prompt (`hooks.tsx:264`, `alone` in
  `NoSilentClear`); after a clear message that the server rejected, the next one goes without a
  prompt (`hooks.tsx:282`: its method is remembered, and its consent counts in `NoSilentClear`);
- two overlapping pushes of a user may leave, or mail, the backup of the other key, or an empty one,
  since the check for a missing backup (`privkey_backup.go:20`) never applies (`clean` in
  `BackupMatchesKey` and `MailedBackupIsOwn`);
- a push that fails after it stored the key, or that finds the backups disabled, leaves the backup
  of the former key (`api.go:61`; `BackupMatchesKey` is about pushes reported as done that saw the
  backups enabled), and a KV operation that fails after it took effect is not modelled there;
- members beyond the first page are not in the warning about missing keys (`pubkey.go:134`, `Page` in
  `KeylessWarningIsRight`);
- a changed key whose owner's profile is not loaded is stored as known before the warning fails
  (`hooks.tsx:126`, `silent` in `ChangedKeyIsWarned`), and a loop that fails leaves the keys after it
  unchecked until the next one (`skipped`);
- an older decryption that ends after a newer effect overwrites the text shown
  (`e2ee_post.tsx:84`; `LastEffectShowsItsVersion` is about what the last effect displayed);
- a lookup that fails closes the lock (`icon.tsx:38`: `undefined` differs from `'none'`), until the
  effect runs again (`misled` in `LockShowsStatus`);
- a post that comes while the prompt for the permission is open is treated as if it were refused
  (`notifications.ts:99`), the state read before the author's profile is fetched is used after it
  (`notification_actions.js:22`), and a switched-off `@all` hides a direct mention after it
  (`notifications.ts:18`); `MissedHasReason` allows for these;
- a keystore that does not open leaves the key in memory only, without a word to the user, and a
  write that fails loses its half (`privkey.ts:33`, `keystore.ts:78`; `ks` and `unsaved` in
  `DiskFollowsMemory`);
- the load of a tab that ends after an overlapping `init` or `import` brings the older key back
  (`privkey.ts:115`, `disturbed` in `UndisturbedTabUsesRegisteredKey`);
- the hook of the server sees new posts only: an edit in clear of an encrypted channel's post
  depends on the client alone (`server/hooks.go:10`);
- the import dialog keeps its confirmation when it is cancelled (`e2ee_import_modal.tsx:61`);
- `index.ts:37` asks for a major version of exactly 6, where its comment says "Mattermost >= 6.6";
  `hkp.ts:64` does not see a key as revoked that has another flag besides; neither is modelled;
- `import` drops the error of the push (`privkey.ts:93`); no property claims that an imported key
  is registered;
- the test for "no recipient" reads `length` of a `Map` (`hooks.tsx:294`) and never holds; no
  property claims that a sent message has a recipient;
- the counts in the signed data are little endian (`e2ee.ts:344`, `e2ee.ts:351`), and the design
  document says big endian; both sides agree, so nothing depends on it.

## 7. Not modelled

- `PubKey.Validate` (points on P-256) and the GPG and HKP code: arithmetic and text of other
  libraries; valid or invalid, success or failure is a choice in the models.
- The switch of users in one tab, and the upgrade of the key store, planned. One browser has one
  user in `PrivKey`.
- `verifyUsernamesInChannel` is a choice between its two outcomes in `Recipients`.
- The recovery middleware and the headers of `api.go`; command texts; the layout of
  icons, dialogs and notifications, and the timers that close the latter.
- The build tools.
- Mattermost itself (delivery of events, members, profiles, posts), IndexedDB and Web Crypto are
  modelled from how the plugin uses them and marked external in the map.
