-------------------------------- MODULE Notify --------------------------------
(***************************************************************************)
(* Desktop notifications of encrypted posts: onPosted of webapp/src/hooks  *)
(* .tsx, which asks for the author's key through the debounced getPubKeys, *)
(* shouldNotify and showNotification of notifications.ts, and              *)
(* sendDesktopNotification of notification_actions.js.                     *)
(***************************************************************************)
EXTENDS DebouncedMerge, Sequences

CONSTANTS Posted,      \* the calls made by onPosted, each for one post
          MaxText      \* bound on the words of a message that are looked at

ASSUME PostedAssumption == Posted \subseteq Caller
ASSUME MaxTextAssumption == MaxText \in Nat

VARIABLES
  handler,     \* [Posted -> Handler]: the run of onPosted for each post
  wanted,      \* is a notification wanted?  The channel is not muted, the user is
               \* not away, and the window is unfocused or shows another channel
  permission,  \* Notification.permission
  requested    \* requestedNotificationPermission

noteVars == <<handler, wanted, permission, requested>>
notifyVars == <<vars, noteVars>>

------------------------------------------------------------------------------
\* shouldNotify.  "@me" and "First" stand for the user's own names, "key" for a
\* mention key, "@all" also for @channel; words in other cases are other words.
Word == {"@all", "@here", "@me", "key", "KEY", "First", "FIRST", "word"}
Text == UNION {[1..n -> Word] : n \in 0..MaxText}
User == [channel : BOOLEAN, online : BOOLEAN,
         mention_keys : SUBSET {"key", "First"}, first_name : BOOLEAN]

Upper(w) == CASE w = "key" -> "KEY" [] w = "First" -> "FIRST" [] OTHER -> w

\* The words that the loop over the mentions stops at.
Mention == {"@all", "@here", "@me"}

\* A mention as the settings of the user have it.
Allowed(w, user) == CASE w = "@all" -> user.channel
                      [] w = "@here" -> user.channel /\ user.online
                      [] w = "@me" -> TRUE

\* Fault: a mention key is compared with the word as it is written.
IsKeyAsWritten(w, user) == w \in user.mention_keys

\* The case of a mention key does not matter.
IsKey(w, user) == Upper(w) \in {Upper(k) : k \in user.mention_keys}

\* The first mention decides, whatever it is; without one, the words do.
ShouldNotify(text, user) ==
  \/ \E i \in DOMAIN text :
       /\ text[i] \in Mention /\ \A j \in 1..(i - 1) : text[j] \notin Mention
       /\ Allowed(text[i], user)
  \/ /\ \A i \in DOMAIN text : text[i] \notin Mention
     /\ \E i \in DOMAIN text : \/ IsKey(text[i], user)
                               \/ user.first_name /\ text[i] = "First"

\* What the settings say: some word of the text concerns the user.
Concerns(text, user) ==
  \E i \in DOMAIN text :
    \/ text[i] = "@me"
    \/ text[i] \in {"@all", "@here"} /\ Allowed(text[i], user)
    \/ \E k \in user.mention_keys : Upper(k) = Upper(text[i])
    \/ user.first_name /\ text[i] = "First"

\* A text for everybody that the user does not want to hear of.
Unwanted(text, user) ==
  \E i \in DOMAIN text : text[i] \in {"@all", "@here"} /\ ~Allowed(text[i], user)

Class(text, user) == IF ~Concerns(text, user) THEN "never"
                     ELSE IF Unwanted(text, user) THEN "may" ELSE "must"

\* The texts and settings, by what the code and what the settings make of them.
Readings == {[notify |-> ShouldNotify(t, u), class |-> Class(t, u)] : t \in Text, u \in User}

------------------------------------------------------------------------------
Handler == [stage : {"idle", "keys", "profile", "asking", "shown", "missed", "dropped"},
            class : {"must", "may", "never"},  \* of the text, once decrypted
            was : BOOLEAN,           \* wanted, in the state that was read
            seen : SUBSET BOOLEAN]   \* history: wanted, since the post came

Idle == [stage |-> "idle", class |-> "never", was |-> FALSE, seen |-> {}]
Active(p) == handler[p].stage \in {"keys", "profile", "asking"}

NotifyInit == /\ Init
              /\ handler = [p \in Posted |-> Idle]
              /\ wanted \in BOOLEAN
              /\ permission = "default"
              /\ requested = FALSE

Become(p, h) == handler' = [handler EXCEPT ![p] = h]
End(p, h, stage) == Become(p, [Idle EXCEPT !.stage = stage, !.class = h.class])

\* showNotification, up to its await: whoever comes after the first request
\* needs the permission.
ShowNotification(p, h) ==
  \/ /\ permission # "granted" /\ requested
     /\ End(p, h, "missed")
     /\ UNCHANGED requested
  \/ /\ permission = "granted" \/ ~requested
     /\ requested' = TRUE
     /\ Become(p, [h EXCEPT !.stage = "asking", !.was = FALSE])

\* Fault: muted channels, absence and the channel in view do not count.
NotifyAlways(p, h, was) == ShowNotification(p, h)

\* The rest of sendDesktopNotification, with what it read of the user's state.
Notify(p, h, was) == \/ was /\ ShowNotification(p, h)
                     \/ ~was /\ End(p, h, "missed") /\ UNCHANGED requested

\* sendDesktopNotification: own posts are left out; the state is read once, and
\* used after the request for the author's profile, if that is missing.
SendDesktopNotification(p, h) ==
  \/ End(p, [h EXCEPT !.class = "never"], "missed") /\ UNCHANGED requested
  \/ Become(p, [h EXCEPT !.stage = "profile", !.was = wanted]) /\ UNCHANGED requested
  \/ Notify(p, h, wanted)

\* The post is decrypted; its text tells whether the user is concerned.
Read(p, h) ==
  \E r \in Readings :
    \/ /\ r.notify
       /\ SendDesktopNotification(p, [h EXCEPT !.class = r.class])
    \/ /\ ~r.notify
       /\ End(p, [h EXCEPT !.class = r.class], "missed")
       /\ UNCHANGED requested

\* onPosted: the post is not for it or there is no private key, its text or its
\* author's key is cached, or the key is asked for.
OnPosted(p) ==
  /\ handler[p].stage = "idle"
  /\ LET h == [Idle EXCEPT !.seen = {wanted}] IN
     \/ End(p, h, "dropped") /\ UNCHANGED <<vars, requested>>
     \/ Read(p, h) /\ UNCHANGED vars
     \/ Call(p) /\ Become(p, [h EXCEPT !.stage = "keys"]) /\ UNCHANGED requested
  /\ UNCHANGED <<wanted, permission>>

\* The key is there and decrypts the post, or one of the two fails.
GotKey(p) ==
  /\ handler[p].stage = "keys" /\ outcome[p] # Pending
  /\ \/ End(p, handler[p], "dropped") /\ UNCHANGED requested
     \/ /\ outcome[p] # Rejected
        /\ \A i \in Arg[p] : outcome[p].keys[i] # None
        /\ Read(p, handler[p])
  /\ UNCHANGED <<vars, wanted, permission>>

\* The author's profile is there, or not.
GotProfile(p) == /\ handler[p].stage = "profile"
                 /\ Notify(p, handler[p], handler[p].was)
                 /\ UNCHANGED <<vars, wanted, permission>>

\* requestPermission is answered; who closes the prompt leaves the default.
GotPermission(p) ==
  /\ handler[p].stage = "asking"
  /\ End(p, handler[p], IF permission = "granted" THEN "shown" ELSE "missed")
  /\ UNCHANGED <<vars, wanted, permission, requested>>

\* The user turns to, or away from, the channel, mutes it, goes away or returns.
Turn == /\ wanted' = ~wanted
        /\ handler' = [p \in Posted |-> IF Active(p)
                         THEN [handler[p] EXCEPT !.seen = @ \cup {~wanted}] ELSE handler[p]]
        /\ UNCHANGED <<vars, permission, requested>>

\* The user answers a prompt, of this plugin or of Mattermost.
AnswerPrompt == /\ permission = "default"
                /\ permission' \in {"granted", "denied"}
                /\ UNCHANGED <<vars, handler, wanted, requested>>

NotifyNext ==
  \/ \E c \in Caller \ Posted : Call(c) /\ UNCHANGED noteVars
  \/ \E i \in Id, v \in Value : Register(i, v) /\ UNCHANGED noteVars
  \/ (DoCall \/ Respond) /\ UNCHANGED noteVars
  \/ \E p \in Posted : OnPosted(p) \/ GotKey(p) \/ GotProfile(p) \/ GotPermission(p)
  \/ Turn \/ AnswerPrompt

\* The timer fires, and every request is answered or times out.
NotifySpec == /\ NotifyInit /\ [][NotifyNext]_notifyVars
              /\ WF_notifyVars(DoCall /\ UNCHANGED noteVars)
              /\ WF_notifyVars(Respond /\ UNCHANGED noteVars)

------------------------------------------------------------------------------

\* Every variable has its type.
NotifyTypeOK == /\ TypeOK
                /\ handler \in [Posted -> Handler]
                /\ wanted \in BOOLEAN /\ requested \in BOOLEAN
                /\ permission \in {"default", "granted", "denied"}

\* Whether a notification was wanted, from the post's arrival to this step.
WantedSince(p) == handler[p].seen \cup {wanted}

Ends(p, stage) == handler[p].stage # stage /\ handler'[p].stage = stage

\* What is shown concerns the user by his settings, was permitted, and was wanted
\* at some moment since the post came, however late the profile or the answer to
\* the prompt is.
ShownHasReason ==
  [][\A p \in Posted : Ends(p, "shown") =>
       /\ handler'[p].class \in {"must", "may"}
       /\ permission = "granted"
       /\ TRUE \in WantedSince(p)]_notifyVars

\* A decrypted post that concerns the user, and has no mention of everybody that
\* the user has switched off, goes unnoticed only for want of the permission, or
\* when at some moment since it came no notification was wanted.
MissedHasReason ==
  [][\A p \in Posted : Ends(p, "missed") /\ handler'[p].class = "must" =>
       \/ permission # "granted"
       \/ FALSE \in WantedSince(p)]_notifyVars
==============================================================================
