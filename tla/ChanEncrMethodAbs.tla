-------------------------- MODULE ChanEncrMethodAbs --------------------------
(***************************************************************************)
(* What ChanEncrMethodDB promises its callers: one register per channel,   *)
(* read and compared-and-set atomically.  The comment of setIfDifferent    *)
(* (server/channel_encr_meth.go) says that its mutex stands in for the     *)
(* server's KVCompareAndUpdate; this module is that atomic operation.      *)
(* Every call is decided in one step between its invocation and its        *)
(* return; a call may also fail, and a set that fails may have taken       *)
(* effect all the same.                                                    *)
(***************************************************************************)

CONSTANTS Request,   \* calls of the handlers, one identifier each
          Chan       \* channels

VARIABLES mode,      \* [Chan -> Method]: the register of each channel
          asked,     \* [Request -> Call \cup {NoCall}]: what was invoked
          result     \* [Request -> Result]: what was decided

absVars == <<mode, asked, result>>

\* The two methods of ChanEncryptionMethodString.
Method == {"none", "p2p"}

\* The method is an argument of "set" only.
Call == {c \in [op : {"set", "get"}, chan : Chan, arg : Method] :
           c.op = "get" => c.arg = "none"}
NoCall == [op |-> "idle"]

\* A set returns (true, nil), (false, nil) or (_, error); a get, a method.
Result == {"pending", "changed", "same", "error"} \cup Method

AInit == /\ mode = [c \in Chan |-> "none"]
         /\ asked = [r \in Request |-> NoCall]
         /\ result = [r \in Request |-> "pending"]

Invoke(r, call) == /\ asked[r] = NoCall
                   /\ asked' = [asked EXCEPT ![r] = call]
                   /\ UNCHANGED <<mode, result>>

Undecided(r, op) == /\ asked[r].op = op
                    /\ result[r] = "pending"

Decide(r, res) == /\ result' = [result EXCEPT ![r] = res]
                  /\ UNCHANGED asked

\* A set that finds the other method in the register flips it.
Change(r) == /\ Undecided(r, "set")
             /\ mode[asked[r].chan] # asked[r].arg
             /\ mode' = [mode EXCEPT ![asked[r].chan] = asked[r].arg]
             /\ Decide(r, "changed")

\* A set that finds the method it asks for.
Keep(r) == /\ Undecided(r, "set")
           /\ mode[asked[r].chan] = asked[r].arg
           /\ Decide(r, "same")
           /\ UNCHANGED mode

\* A set whose storage call failed, before or after it took effect.
Fail(r) == /\ Undecided(r, "set")
           /\ Decide(r, "error")
           /\ mode' \in {mode, [mode EXCEPT ![asked[r].chan] = asked[r].arg]}

\* A get returns the register, or "none" when the storage call failed.
Read(r) == /\ Undecided(r, "get")
           /\ \E m \in {mode[asked[r].chan], "none"} : Decide(r, m)
           /\ UNCHANGED mode

ANext == \E r \in Request :
           \/ \E call \in Call : Invoke(r, call)
           \/ Change(r)
           \/ Keep(r)
           \/ Fail(r)
           \/ Read(r)

ASpec == AInit /\ [][ANext]_absVars
==============================================================================
