------------------------------ MODULE P2PMessage ------------------------------
(***************************************************************************)
(* Encrypted messages: EncryptedP2PMessage of webapp/src/e2ee.ts, and      *)
(* decryptPost of e2ee_post.ts.  Cryptography is symbolic: a key pair has a *)
(* name, ECDH gives the pair of the two names, what is wrapped or encrypted *)
(* opens only with the key it was made with, AES-KW notices another key and *)
(* AES-CTR does not.  Users replace their keys, and a stored message may   *)
(* have lost fields or hold fields of another one when it is read.         *)
(***************************************************************************)
EXTENDS Integers, FiniteSets, SequencesExt

CONSTANTS User,
          Msg,          \* messages, each encrypted at most once; a name is also the text
          MaxRotations, \* bound on the keys that replace a user's first key
          MaxDamage,    \* bound on the fields that are lost or exchanged
          NotSent,      \* in place of a message that was not sent yet
          Missing       \* in place of a field that was lost

ASSUME P2PMessageAssumption == /\ MaxRotations \in Nat /\ MaxDamage \in Nat
                               /\ IsFiniteSet(User)

VARIABLES
  gen,      \* [User -> 0..MaxRotations]: the generation of the user's key pairs
  stored,   \* [Msg -> message]: the JSON objects in the posts
  damage,   \* how many fields were damaged so far
  origin,   \* history: [Msg -> what was encrypted, by which key and for which]
  intact,   \* history: [Msg -> SUBSET Field], the fields without damage
  last      \* history: the outcome of the last read

msgVars == <<gen, stored, damage, origin, intact, last>>

\* A user's key pairs of ECDH and ECDSA have one name, which is also the ID that
\* PublicKeyMaterial computes from them; m names the secrets made for a message.
KeyPair == User \X (0..MaxRotations)
Current(u) == <<u, gen[u]>>
Field == {"iv", "pubECDHE", "encryptedKey", "encryptedData", "signature"}

\* deriveSharedKey: ECDH between a message's ephemeral key and a user's key.
SharedKey(ephemeral, k) == <<ephemeral, k>>

\* setUint32(0, n, true): little endian.
Uint32(n) == [i \in 1..4 |-> (n \div 256^(i - 1)) % 256]

\* signData: the wrapped keys are not part of it, only the ids of their owners.
SignData(m) ==
  <<m.iv, m.pubECDHE>> \o Uint32(Len(m.encryptedKey))
    \o [i \in DOMAIN m.encryptedKey |-> m.encryptedKey[i].id]
    \o Uint32(m.encryptedData.length) \o <<m.encryptedData>>

\* Fault: the message is not signed.
EncryptUnsigned(name, by, to) ==
  [iv |-> name, pubECDHE |-> name,
   encryptedKey |-> [i \in DOMAIN to |->
     [id |-> to[i], msgKey |-> name, wrappedBy |-> SharedKey(name, to[i])]],
   encryptedData |-> [text |-> name, key |-> name, iv |-> name, length |-> 1]]

\* encrypt, for the keys of the sequence to.
Encrypt(name, by, to) ==
  LET m == [iv |-> name, pubECDHE |-> name,
            encryptedKey |-> [i \in DOMAIN to |->
              [id |-> to[i], msgKey |-> name, wrappedBy |-> SharedKey(name, to[i])]],
            encryptedData |-> [text |-> name, key |-> name, iv |-> name, length |-> 1],
            signature |-> Missing]
  IN  [m EXCEPT !.signature = [by |-> by, over |-> SignData(m)]]

\* A lost field is no value of a field that was sent.
ASSUME MissingAssumption ==
  \A m \in Msg, by \in KeyPair, to \in SUBSET KeyPair :
    Missing \notin Range(Encrypt(m, by, SetToSeq(to)))

MsgInit == /\ gen = [u \in User |-> 0]
           /\ stored = [m \in Msg |-> NotSent]
           /\ damage = 0
           /\ origin = [m \in Msg |-> NotSent]
           /\ intact = [m \in Msg |-> {}]
           /\ last = [outcome |-> [result |-> "none"]]

Sent == {m \in Msg : origin[m] # NotSent}

\* A user generates new key pairs (/e2ee init --force).
Rotate(u) ==
  /\ gen[u] < MaxRotations
  /\ gen' = [gen EXCEPT ![u] = @ + 1]
  /\ UNCHANGED <<stored, damage, origin, intact, last>>

\* encryptPost for some of the current keys.
Send(m, u, to) ==
  /\ m \notin Sent
  /\ LET keys == SetToSeq({Current(v) : v \in to})
     IN  stored' = [stored EXCEPT ![m] = Encrypt(m, Current(u), keys)]
  /\ origin' = [origin EXCEPT ![m] = [by |-> Current(u), to |-> {Current(v) : v \in to}]]
  /\ intact' = [intact EXCEPT ![m] = Field]
  /\ UNCHANGED <<gen, damage, last>>

\* A field of the stored message is lost, or replaced by another message's.
Damage(m, f) ==
  /\ m \in Sent /\ damage < MaxDamage
  /\ damage' = damage + 1
  /\ \E v \in {Missing} \cup {stored[n][f] : n \in Sent \ {m}} :
       v # stored[m][f] /\ stored' = [stored EXCEPT ![m][f] = v]
  /\ intact' = [intact EXCEPT ![m] = @ \ {f}]
  /\ UNCHANGED <<gen, origin, last>>

\* Only the wrapped key of one recipient is replaced, by another recipient's.
SwapWraps(m) ==
  /\ m \in Sent /\ damage < MaxDamage
  /\ stored[m].encryptedKey # Missing /\ Len(stored[m].encryptedKey) > 1
  /\ damage' = damage + 1
  /\ LET keys == stored[m].encryptedKey
         swapped == [keys EXCEPT ![1] = [keys[2] EXCEPT !.id = keys[1].id]]
     IN  stored' = [stored EXCEPT ![m].encryptedKey = swapped]
  /\ intact' = [intact EXCEPT ![m] = @ \ {"encryptedKey"}]
  /\ UNCHANGED <<gen, origin, last>>

------------------------------------------------------------------------------
\* decryptPost.

\* isEncryptedP2PMessageJSON.  The version, a number that is not compared, is left out,
\* and so is a pubECDHE that is no point of the curve, which is refused like a lost one.
IsMessage(m) == \A f \in Field : m[f] # Missing

\* Fault: the author is compared, and not what was signed.
VerifyAuthor(m, sender) == m.signature.by = sender

Verify(m, sender) == m.signature = [by |-> sender, over |-> SignData(m)]

\* Fault: the first entry is taken for everybody's.
FirstEntry(m, k) == {i \in DOMAIN m.encryptedKey : i = 1}

\* The entries for the key; find takes the first one.
EntriesFor(m, k) == {i \in DOMAIN m.encryptedKey : m.encryptedKey[i].id = k}
EntryFor(m, k) == m.encryptedKey[Min(EntriesFor(m, k))]

Unwraps(m, k) == EntryFor(m, k).wrappedBy = SharedKey(m.pubECDHE, k)

\* AES-CTR with another key or counter gives some other text.
Decrypt(m, k) ==
  IF m.encryptedData.key = EntryFor(m, k).msgKey /\ m.encryptedData.iv = m.iv
  THEN [result |-> "text", text |-> m.encryptedData.text]
  ELSE [result |-> "garbage"]

VerifyAndDecrypt(m, sender, k) ==
  IF ~IsMessage(m) THEN [result |-> "invalid json"]
  ELSE IF ~Verify(m, sender) THEN [result |-> "validation error"]
  ELSE IF EntriesFor(m, k) = {} THEN [result |-> "unknown recipient"]
  ELSE IF ~Unwraps(m, k) THEN [result |-> "validation error"]
  ELSE Decrypt(m, k)

\* A user reads a post with the current public key of its author.
Read(m, reader) ==
  /\ m \in Sent
  /\ LET sender == Current(origin[m].by[1])
     IN  last' = [outcome |-> VerifyAndDecrypt(stored[m], sender, Current(reader)),
                  msg |-> m, reader |-> Current(reader), sender |-> sender,
                  intact |-> intact[m]]
  /\ UNCHANGED <<gen, stored, damage, origin, intact>>

MsgNext == \/ \E u \in User : Rotate(u)
           \/ \E m \in Msg, u \in User, to \in SUBSET User : Send(m, u, to)
           \/ \E m \in Msg : SwapWraps(m) \/ \E f \in Field : Damage(m, f)
           \/ \E m \in Msg, reader \in User : Read(m, reader)

MsgSpec == MsgInit /\ [][MsgNext]_msgVars

------------------------------------------------------------------------------

\* Every variable has its type; a message has its fields.
MsgTypeOK == /\ gen \in [User -> 0..MaxRotations]
             /\ damage \in 0..MaxDamage
             /\ intact \in [Msg -> SUBSET Field]
             /\ \A m \in Sent : /\ DOMAIN stored[m] = Field
                                /\ origin[m].by \in KeyPair /\ origin[m].to \subseteq KeyPair

WasRead == last.outcome.result # "none"

\* A text that is displayed was encrypted by the author of the post, with the key that
\* readers have for the author now, for the key of this reader: whatever fields were
\* lost or exchanged, nobody reads garbage.  It is the text of another message only
\* when no field of the own one is left.
OnlyAuthenticTexts ==
  last.outcome.result \in {"text", "garbage"} =>
    /\ last.outcome.result = "text"
    /\ last.sender = origin[last.outcome.text].by
    /\ last.reader \in origin[last.outcome.text].to
    /\ last.intact # {} => last.outcome.text = last.msg

\* A message as it was sent can be read by every key it was encrypted for as long as
\* its author keeps the key, and by no other key.
RecipientsCanRead ==
  WasRead /\ last.intact = Field =>
    (last.outcome.result = "text") = (/\ last.reader \in origin[last.msg].to
                                      /\ last.sender = origin[last.msg].by)
==============================================================================
