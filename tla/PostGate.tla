------------------------------- MODULE PostGate -------------------------------
(***************************************************************************)
(* The server hook that keeps clear messages out of encrypted channels:    *)
(* MessageWillBePosted (server/hooks.go), next to the configuration it     *)
(* reads while OnConfigurationChange (server/configuration.go) replaces    *)
(* it.  The configuration pointer is read under configurationLock; the set *)
(* AlwaysAllowMsgTypes computed from it is written under that lock but     *)
(* read without it, which Go leaves undefined: a lookup sees the set as it *)
(* is being filled, or the runtime stops the process.                      *)
(***************************************************************************)
EXTENDS FiniteSets, Integers

CONSTANTS Post,        \* posts that reach the server
          Type,        \* the message types posts may have
          Encrypted,   \* the type "custom_e2ee"
          Config,      \* configurations an administrator may set: BotCanAlwaysPost
                       \* and the types that AlwaysAllowMsgTypes lists
          MaxReloads,  \* bound on the configuration changes
          MaxFlips     \* bound on the changes of the channel's method

ASSUME TypesAssumption == /\ Encrypted \in Type
                          /\ Config \subseteq [bots : BOOLEAN, types : SUBSET Type]
ASSUME BoundsAssumption == MaxReloads \in Nat /\ MaxFlips \in Nat

VARIABLES
  method,      \* the channel's method in the key-value store
  flips,       \* how often it changed
  config,      \* p.configuration
  allow,       \* p.AlwaysAllowMsgTypes
  toFill,      \* types that setConfiguration has yet to add to allow
  loader,      \* "idle", or the next step of setConfiguration
  reloads,     \* how often the configuration was loaded
  up,          \* whether the plugin process runs
  pc,          \* [Post -> Label]: where each call of the hook is
  post,        \* [Post -> Author \X Type]: who posts what
  during       \* history: [Post -> record], what was true during the call

configVars == <<config, allow, toFill, loader, reloads>>
vars == <<method, flips, configVars, up, pc, post, during>>

Author == {"e2ee bot", "bot", "human"}

\* The verdicts are "accept" and "reject"; "lost" is a hook call that the end
\* of the plugin process interrupted.
Label == {"idle", "method", "config", "user", "type", "accept", "reject", "lost"}
Running == {"method", "config", "user", "type"}

\* What getConfiguration returns before the first load.
ZeroConfig == [bots |-> FALSE, types |-> {}]

\* What a hook call could see from its start to its verdict.
Seen == [off : BOOLEAN, on : BOOLEAN, kvError : BOOLEAN, userError : BOOLEAN,
         bots : BOOLEAN, ever : SUBSET Type, reload : BOOLEAN]

Watch == [off |-> method = "none", on |-> method # "none",
          kvError |-> FALSE, userError |-> FALSE, bots |-> config.bots,
          ever |-> config.types \cup allow, reload |-> loader # "idle"]

Init == /\ method = "none" /\ flips = 0
        /\ config = ZeroConfig /\ allow = {} /\ toFill = {}
        /\ loader = "idle" /\ reloads = 0
        /\ up = TRUE
        /\ pc = [p \in Post |-> "idle"]
        /\ post = [p \in Post |-> <<"human", Encrypted>>]
        /\ during = [p \in Post |-> Watch]

Goto(p, label) == pc' = [pc EXCEPT ![p] = label]

\* The running hook calls witness a change of the method or the configuration.
Witness(change(_)) ==
  during' = [p \in Post |-> IF pc[p] \in Running THEN change(during[p]) ELSE during[p]]

\* SetChanEncryptionMethod stored the other method.
Flip == /\ flips < MaxFlips
        /\ flips' = flips + 1
        /\ method' = IF method = "none" THEN "p2p" ELSE "none"
        /\ LET SeesMethod(w) == [w EXCEPT !.off = TRUE, !.on = TRUE]
           IN  Witness(SeesMethod)
        /\ UNCHANGED <<configVars, up, pc, post>>

\* OnConfigurationChange: setConfiguration locks and installs the configuration.
SetConfiguration(g) ==
  /\ up /\ loader = "idle" /\ reloads < MaxReloads
  /\ reloads' = reloads + 1
  /\ config' = g
  /\ loader' = "swap"
  /\ LET SeesConfig(w) == [w EXCEPT !.bots = @ \/ g.bots,
                                    !.ever = @ \cup g.types,
                                    !.reload = TRUE]
     IN  Witness(SeesConfig)
  /\ UNCHANGED <<method, flips, allow, toFill, up, pc, post>>

\* It then replaces the set by an empty one.
NewSet == /\ loader = "swap"
          /\ allow' = {}
          /\ toFill' = config.types
          /\ loader' = "fill"
          /\ UNCHANGED <<method, flips, config, reloads, up, pc, post, during>>

\* Fault: the empty string that Split may return is not skipped.
AllowEmptyType(t) ==
  /\ loader = "fill" /\ t \in toFill
  /\ allow' = allow \cup {t, ""}
  /\ toFill' = toFill \ {t}
  /\ UNCHANGED <<method, flips, config, loader, reloads, up, pc, post, during>>

\* The loop of setConfiguration adds one type, in the order of the string.
AllowType(t) ==
  /\ loader = "fill" /\ t \in toFill
  /\ allow' = allow \cup {t}
  /\ toFill' = toFill \ {t}
  /\ UNCHANGED <<method, flips, config, loader, reloads, up, pc, post, during>>

\* setConfiguration returns and unlocks.
Configured == /\ loader = "fill" /\ toFill = {}
              /\ loader' = "idle"
              /\ UNCHANGED <<method, flips, config, allow, toFill, reloads, up,
                             pc, post, during>>

\* A post (or the next one) reaches the hook, which lets the plugin's own bot pass.
Receive(p, a, t) ==
  /\ up /\ pc[p] \notin Running
  /\ post' = [post EXCEPT ![p] = <<a, t>>]
  /\ during' = [during EXCEPT ![p] = Watch]
  /\ Goto(p, IF a = "e2ee bot" THEN "accept" ELSE "method")
  /\ UNCHANGED <<method, flips, configVars, up>>

\* p.ChanEncrMethods.get: a failing store reads as ChanEncryptionMethodNone.
CheckMethod(p) ==
  /\ pc[p] = "method"
  /\ \/ Goto(p, IF method = "none" THEN "accept" ELSE "config") /\ UNCHANGED during
     \/ Goto(p, "accept") /\ during' = [during EXCEPT ![p].kvError = TRUE]
  /\ UNCHANGED <<method, flips, configVars, up, post>>

\* getConfiguration().BotCanAlwaysPost, under the lock the loader holds.
CheckConfig(p) ==
  /\ pc[p] = "config" /\ loader = "idle"
  /\ Goto(p, IF config.bots THEN "user" ELSE "type")
  /\ UNCHANGED <<method, flips, configVars, up, post, during>>

\* Fault: an author who cannot be looked up passes.
CheckBotFailsOpen(p) ==
  /\ pc[p] = "user"
  /\ \/ Goto(p, IF post[p][1] = "bot" THEN "accept" ELSE "type") /\ UNCHANGED during
     \/ Goto(p, "accept") /\ during' = [during EXCEPT ![p].userError = TRUE]
  /\ UNCHANGED <<method, flips, configVars, up, post>>

\* GetUser: a bot passes, and a failure rejects the post.
CheckBot(p) ==
  /\ pc[p] = "user"
  /\ \/ Goto(p, IF post[p][1] = "bot" THEN "accept" ELSE "type") /\ UNCHANGED during
     \/ Goto(p, "reject") /\ during' = [during EXCEPT ![p].userError = TRUE]
  /\ UNCHANGED <<method, flips, configVars, up, post>>

\* Fault: only the listed types pass.
CheckListedType(p) ==
  /\ pc[p] = "type"
  /\ Goto(p, IF post[p][2] \in allow THEN "accept" ELSE "reject")
  /\ UNCHANGED <<method, flips, configVars, up, post, during>>

\* The lookup in AlwaysAllowMsgTypes, without the lock, and the last check.
CheckType(p) ==
  /\ pc[p] = "type"
  /\ Goto(p, IF post[p][2] \in allow \cup {Encrypted} THEN "accept" ELSE "reject")
  /\ UNCHANGED <<method, flips, configVars, up, post, during>>

\* The runtime detects the concurrent read and write of the map and stops the
\* process: every hook call is lost, and so is the memory of the plugin.
Crash(p) ==
  /\ pc[p] = "type" /\ loader = "fill" /\ toFill # {}
  /\ up' = FALSE
  /\ pc' = [q \in Post |-> IF pc[q] \in Running THEN "lost" ELSE pc[q]]
  /\ config' = ZeroConfig /\ allow' = {} /\ toFill' = {} /\ loader' = "idle"
  /\ UNCHANGED <<method, flips, reloads, post, during>>

\* The server starts the plugin again; the configuration is loaded afterwards.
Restart == /\ ~up
           /\ up' = TRUE
           /\ UNCHANGED <<method, flips, configVars, pc, post, during>>

Next == \/ Flip \/ NewSet \/ Configured \/ Restart
        \/ \E g \in Config : SetConfiguration(g)
        \/ \E t \in Type : AllowType(t)
        \/ \E p \in Post : \/ \E a \in Author, t \in Type : Receive(p, a, t)
                           \/ CheckMethod(p) \/ CheckConfig(p) \/ CheckBot(p)
                           \/ CheckType(p) \/ Crash(p)

Spec == Init /\ [][Next]_vars

------------------------------------------------------------------------------

\* Every variable has its type.
TypeOK == /\ method \in {"none", "p2p"} /\ flips \in 0..MaxFlips
          /\ config \in Config \cup {ZeroConfig}
          /\ allow \subseteq Type /\ toFill \subseteq Type
          /\ loader \in {"idle", "swap", "fill"} /\ reloads \in 0..MaxReloads
          /\ up \in BOOLEAN
          /\ pc \in [Post -> Label]
          /\ post \in [Post -> Author \X Type]
          /\ during \in [Post -> Seen]

\* A clear post passes only for a reason the code names: the plugin's own bot, a
\* channel that was not encrypted at some time during the call, a store that
\* failed, a bot under a configuration that lets bots post, or a type that some
\* configuration active during the call lists; a half-filled set, a reload or
\* a restart in the middle of the call gives no other.
ClearPostHasReason ==
  \A p \in Post :
    pc[p] = "accept" /\ post[p][2] # Encrypted =>
      \/ post[p][1] = "e2ee bot"
      \/ during[p].off \/ during[p].kvError
      \/ post[p][1] = "bot" /\ during[p].bots
      \/ post[p][2] \in during[p].ever

\* A post is turned away only on a channel that was encrypted at some time during the
\* call, and only because its author could not be looked up under a configuration
\* that lets bots post, or because it is clear and of a type that is not listed; a
\* listed type is turned away only while the set is being filled again.
RejectedPostHasReason ==
  \A p \in Post :
    pc[p] = "reject" =>
      /\ during[p].on
      /\ \/ during[p].userError /\ during[p].bots
         \/ post[p][2] # Encrypted /\ (during[p].reload \/ post[p][2] \notin during[p].ever)
==============================================================================
