------------------------------ MODULE Keyring -------------------------------
(***************************************************************************)
(* A keyring (keyring/store.go): the row that the nodes share, the copy of *)
(* it that each node signs and verifies with, the loop that refreshes the  *)
(* copy and rotates the keys, and the sessions that are signed again when  *)
(* their key grows old (auth/handler.go).                                  *)
(*                                                                         *)
(* A key of the row is the number of the rotation after which it signs, so *)
(* that the signing key of rotation n is n and the next key n + 1; the two *)
(* keys of a node that found the row inserted by another are negative.     *)
(* Time passes in units that are long for a refresh, which has a minute.   *)
(***************************************************************************)
EXTENDS Integers, FiniteSets, Functions

CONSTANTS
    Nodes,
    Secrets,       \* the encryption keys of private keys
    Lists,         \* the lists of them that nodes are configured with
    Keyspace,      \* 256, the number of key indexes
    MaxOldKeys,    \* Config.MaxOldKeys
    Rotation,      \* Config.RotationDays, in units of time
    Tick,          \* the period of the loop's ticker, in units of time
    None,          \* no row, no key, no signature
    MaxRotations,  \* bound on rotations
    MaxTroubles,   \* bound on forced rotations, failed refreshes, misread
                   \*   private keys and calls of ReEncryptAll together
    MaxStarts      \* bound on starts of nodes

ASSUME KeyringAssumption ==
    /\ {Keyspace, MaxOldKeys, Rotation, Tick} \subseteq Nat \ {0}
    /\ MaxOldKeys + 2 <= Keyspace       \* validated by NewDB
    /\ 2 * Tick <= Rotation             \* twelve hours, and a number of days
    /\ {MaxRotations, MaxTroubles, MaxStarts} \subseteq Nat

(* A configured list has a first secret, with which a node encrypts. *)
ASSUME SecretsAssumption ==
    Lists # {} /\ \A l \in Lists : 1 \in DOMAIN l /\ Range(l) \subseteq Secrets

(* A row: the verification keys by index, the number of rotations, the     *)
(* time to the next one, and the two private keys.                         *)
Indexes  == 0..(Keyspace - 1)
KeyMaps  == UNION {[S -> Int] : S \in SUBSET Indexes}
Private  == [enc : Secrets, ok : BOOLEAN]
Rows     == [keys : KeyMaps, count : Nat, rotateIn : 0..Rotation, sign : Private, next : Private]

ASSUME NoneAssumption == None \notin Int \cup Rows

VARIABLES
    ring,        \* the row: verification keys, count, private keys, next_rotation
    keys,        \* node -> verificationKeys: index -> key
    signingKey,  \* node -> signingKey
    count,       \* node -> rotationCount
    mode,        \* node -> "down", "starting", "up" or "closed"
    secrets,     \* node -> Config.Keys
    timer,       \* node -> time since the ticker fired
    job,         \* node -> the refresh that runs: "none", "new", "tick" or "force"
    phase,       \* node -> how far it is
    fetched,     \* node -> the row it will make its copy
    sig,         \* a signature: its key, its index and its age
    forced, failures, reEncrypts, misreads, starts

copyVars  == <<keys, signingKey, count>>
jobVars   == <<job, phase, fetched>>
countVars == <<forced, failures, reEncrypts, misreads, starts>>
nodeVars  == <<mode, secrets, timer>>
vars == <<ring, copyVars, nodeVars, jobVars, sig, countVars>>

MaxAge   == MaxOldKeys * Rotation
Troubled == forced + failures + reEncrypts + misreads >= MaxTroubles

Init ==
    /\ ring = None /\ sig = None
    /\ keys = [p \in Nodes |-> [b \in {} |-> 0]]
    /\ signingKey = [p \in Nodes |-> None] /\ count = [p \in Nodes |-> 0]
    /\ mode = [p \in Nodes |-> "down"] /\ secrets = [p \in Nodes |-> CHOOSE l \in Lists : TRUE]
    /\ timer = [p \in Nodes |-> 0]
    /\ job = [p \in Nodes |-> "none"] /\ phase = [p \in Nodes |-> "idle"]
    /\ fetched = [p \in Nodes |-> None]
    /\ forced = 0 /\ failures = 0 /\ reEncrypts = 0 /\ misreads = 0 /\ starts = 0

----------------------------------------------------------------------------
(* Indexes and keys                                                        *)

(* byte(n) and n % 256; a negative n wraps around too. *)
Byte(n) == n % Keyspace

RotateVerificationKeys(m, n, newKey) ==
    LET kept == {Byte(i) : i \in (n - MaxOldKeys)..n} \cap DOMAIN m
    IN [b \in kept \cup {Byte(n + 1)} |-> IF b = Byte(n + 1) THEN newKey ELSE m[b]]

(* A private key in the row: the secret it was encrypted with, and whether *)
(* what was encrypted is a key.                                            *)
Encrypt(p) == [enc |-> secrets[p][1], ok |-> TRUE]

\* Variant of Decrypts that tries the first secret of the list alone.
DecryptsFirst(p, data) == data.enc = secrets[p][1]

Decrypts(p, data) == data.enc \in Range(secrets[p])

(* A wrong secret may pass for the right one, and the result is noise: the *)
(* format of the encryption (PEM) does not tell.                           *)
CanMisread(p, data) == ~Troubled /\ secrets[p][1] # data.enc

(* loadKey: what it may yield; noise is not parsed. *)
LoadKey(p, data, key) ==
    (IF Decrypts(p, data) /\ data.ok THEN {key} ELSE {None})
        \cup (IF CanMisread(p, data) THEN {None} ELSE {})

----------------------------------------------------------------------------
(* The copy of a node                                                      *)

\* Variant of Apply that keeps the old copy when the signing key cannot be loaded.
ApplySignable(p, row) ==
    \E k \in LoadKey(p, row.sign, row.count) :
        /\ misreads' = misreads
        /\ IF k = None THEN UNCHANGED copyVars
           ELSE /\ keys' = [keys EXCEPT ![p] = row.keys]
                /\ signingKey' = [signingKey EXCEPT ![p] = k]
                /\ count' = [count EXCEPT ![p] = row.count]

(* Without its signing key the node still moves on with the others. *)
Apply(p, row) ==
    /\ keys' = [keys EXCEPT ![p] = row.keys]
    /\ count' = [count EXCEPT ![p] = row.count]
    /\ \E k \in LoadKey(p, row.sign, row.count) :
          /\ signingKey' = [signingKey EXCEPT ![p] = k]
          /\ misreads' = IF k = None /\ Decrypts(p, row.sign) /\ row.sign.ok
                         THEN misreads + 1 ELSE misreads

(* The refresh ends: NewDB starts the loop, or gives up. *)
Finish(p, ok) ==
    /\ job' = [job EXCEPT ![p] = "none"]
    /\ phase' = [phase EXCEPT ![p] = "idle"]
    /\ fetched' = [fetched EXCEPT ![p] = None]
    /\ mode' = [mode EXCEPT ![p] = IF job[p] = "new" THEN (IF ok THEN "up" ELSE "down") ELSE @]
    /\ timer' = [timer EXCEPT ![p] = IF job[p] = "new" THEN 0 ELSE @]

----------------------------------------------------------------------------
(* refreshAndRotateKeys                                                    *)

Refreshing(p) == job[p] # "none" /\ phase[p] = "idle"
ToRotate(p)   == job[p] = "force" \/ ring.rotateIn = 0

(* fetchKeys finds no row, and locks nothing. *)
FindNone(p) ==
    /\ Refreshing(p) /\ ring = None
    /\ phase' = [phase EXCEPT ![p] = "create"]
    /\ UNCHANGED <<ring, copyVars, nodeVars, job, fetched, sig, countVars>>

(* The row is locked until the copy is made. *)
Keep(p) ==
    /\ Refreshing(p) /\ ring # None /\ ~ToRotate(p)
    /\ Apply(p, ring)
    /\ Finish(p, TRUE)
    /\ UNCHANGED <<ring, secrets, sig, forced, failures, reEncrypts, starts>>

(* The next key becomes the signing key, and a new one the next. *)
RotatedRow(p) ==
    LET n == ring.count + 1
    IN [keys |-> RotateVerificationKeys(ring.keys, n, n + 1), count |-> n,
        rotateIn |-> Rotation, sign |-> ring.next, next |-> Encrypt(p)]

(* Committed, and the lock released, before the copy is made. *)
Rotate(p) ==
    /\ Refreshing(p) /\ ring # None /\ ToRotate(p)
    /\ ring.count < MaxRotations
    /\ ring' = RotatedRow(p)
    /\ fetched' = [fetched EXCEPT ![p] = RotatedRow(p)]
    /\ phase' = [phase EXCEPT ![p] = "apply"]
    /\ UNCHANGED <<copyVars, nodeVars, job, sig, countVars>>

NewRow(p, k) ==
    [keys |-> [b \in {0, 1} |-> k[b + 1]], count |-> 0, rotateIn |-> Rotation,
     sign |-> Encrypt(p), next |-> Encrypt(p)]

\* Variant of AfterInsert that keeps the keys that were not inserted.
AfterInsertOwn(p) ==
    /\ ring' = IF ring = None THEN NewRow(p, <<0, 1>>) ELSE ring
    /\ fetched' = [fetched EXCEPT ![p] = NewRow(p, IF ring = None THEN <<0, 1>> ELSE <<-1, -2>>)]
    /\ phase' = [phase EXCEPT ![p] = "apply"]

(* insertKeys: on conflict do nothing. *)
AfterInsert(p) ==
    \/ /\ ring = None
       /\ ring' = NewRow(p, <<0, 1>>)
       /\ fetched' = [fetched EXCEPT ![p] = NewRow(p, <<0, 1>>)]
       /\ phase' = [phase EXCEPT ![p] = "apply"]
    \/ /\ ring # None
       /\ phase' = [phase EXCEPT ![p] = "reread"]
       /\ UNCHANGED <<ring, fetched>>

(* commitNewKeyring *)
CommitNewKeyring(p) ==
    /\ phase[p] = "create"
    /\ AfterInsert(p)
    /\ UNCHANGED <<copyVars, nodeVars, job, sig, countVars>>

Reread(p) ==
    /\ phase[p] = "reread"
    /\ fetched' = [fetched EXCEPT ![p] = ring]
    /\ phase' = [phase EXCEPT ![p] = "apply"]
    /\ UNCHANGED <<ring, copyVars, nodeVars, job, sig, countVars>>

MakeCopy(p) ==
    /\ phase[p] = "apply"
    /\ Apply(p, fetched[p])
    /\ Finish(p, TRUE)
    /\ UNCHANGED <<ring, secrets, sig, forced, failures, reEncrypts, starts>>

(* An error of the database, or the minute is over.  The commit of a       *)
(* rotation may have taken place all the same.                             *)
RefreshFails(p) ==
    /\ job[p] # "none" /\ ~Troubled
    /\ failures' = failures + 1
    /\ Finish(p, FALSE)
    /\ UNCHANGED <<ring, copyVars, secrets, sig, forced, reEncrypts, misreads, starts>>

----------------------------------------------------------------------------
(* NewDB, loop, RotateKeys, Shutdown                                       *)

NewDB(p) ==
    /\ mode[p] = "down" /\ starts < MaxStarts
    /\ starts' = starts + 1
    /\ mode' = [mode EXCEPT ![p] = "starting"]
    /\ \E l \in Lists : secrets' = [secrets EXCEPT ![p] = l]
    /\ job' = [job EXCEPT ![p] = "new"]
    /\ UNCHANGED <<ring, copyVars, timer, phase, fetched, sig,
                   forced, failures, reEncrypts, misreads>>

LoopFree(p) == mode[p] = "up" /\ job[p] = "none"

LoopTick(p) ==
    /\ LoopFree(p) /\ timer[p] = Tick
    /\ job' = [job EXCEPT ![p] = "tick"]
    /\ timer' = [timer EXCEPT ![p] = 0]
    /\ UNCHANGED <<ring, copyVars, mode, secrets, phase, fetched, sig, countVars>>

(* The loop takes a call of RotateKeys, which has been waiting for it. *)
RotateKeys(p) ==
    /\ LoopFree(p) /\ ~Troubled
    /\ forced' = forced + 1
    /\ job' = [job EXCEPT ![p] = "force"]
    /\ UNCHANGED <<ring, copyVars, nodeVars, phase, fetched, sig, failures, reEncrypts, misreads, starts>>

(* The loop takes the call of Shutdown and ends. *)
Shutdown(p) ==
    /\ LoopFree(p)
    /\ mode' = [mode EXCEPT ![p] = "closed"]
    /\ UNCHANGED <<ring, copyVars, secrets, timer, jobVars, sig, countVars>>

(* The process exits or crashes, at any time. *)
Exit(p) ==
    /\ mode[p] # "down" /\ starts < MaxStarts
    /\ mode' = [mode EXCEPT ![p] = "down"]
    /\ job' = [job EXCEPT ![p] = "none"]
    /\ phase' = [phase EXCEPT ![p] = "idle"]
    /\ fetched' = [fetched EXCEPT ![p] = None]
    /\ keys' = [keys EXCEPT ![p] = [b \in {} |-> 0]]
    /\ signingKey' = [signingKey EXCEPT ![p] = None]
    /\ count' = [count EXCEPT ![p] = 0]
    /\ timer' = [timer EXCEPT ![p] = 0]
    /\ UNCHANGED <<ring, secrets, sig, countVars>>

----------------------------------------------------------------------------
(* ReEncryptAll, with the list of the node that serves the request         *)

(* What Decrypt may return for a private key, encrypted again. *)
ReEncrypted(p, data) ==
    (IF Decrypts(p, data) THEN {[Encrypt(p) EXCEPT !.ok = data.ok]} ELSE {})
        \cup (IF CanMisread(p, data) THEN {[Encrypt(p) EXCEPT !.ok = FALSE]} ELSE {})

Misread(data, again) == IF data.ok /\ ~again.ok THEN 1 ELSE 0

ReEncryptAll(p) ==
    /\ mode[p] = "up" /\ ring # None /\ ~Troubled
    /\ reEncrypts' = reEncrypts + 1
    /\ \E s \in ReEncrypted(p, ring.sign), n \in ReEncrypted(p, ring.next) :
          /\ ring' = [ring EXCEPT !.sign = s, !.next = n]
          /\ misreads' = misreads + Misread(ring.sign, s) + Misread(ring.next, n)
    /\ UNCHANGED <<copyVars, nodeVars, jobVars, sig, forced, failures, starts>>

----------------------------------------------------------------------------
(* Sign, Verify, and the renewal of sessions                               *)

Verifies(p, s) == s.index \in DOMAIN keys[p] /\ keys[p][s.index] = s.key

\* Variant of OldKey to which the next key is old as well.
OldKeyNext(p, s) == s.index # Byte(count[p])

OldKey(p, s) == s.index \notin {Byte(count[p]), Byte(count[p] + 1)}

Signed(p) == [key |-> signingKey[p], index |-> Byte(count[p]), age |-> 0]

Sign(p) ==
    /\ mode[p] = "up" /\ signingKey[p] # None
    /\ sig' = Signed(p)
    /\ UNCHANGED <<ring, copyVars, nodeVars, jobVars, countVars>>

(* authUserWithCredential: the cookie is signed again by the node that     *)
(* finds its key old.                                                      *)
Renew(p) ==
    /\ mode[p] = "up" /\ sig # None
    /\ Verifies(p, sig) /\ OldKey(p, sig)
    /\ signingKey[p] # None
    /\ sig' = Signed(p)
    /\ UNCHANGED <<ring, copyVars, nodeVars, jobVars, countVars>>

----------------------------------------------------------------------------
(* A unit of time passes: no refresh is under way, and every ticker that   *)
(* is due has fired.                                                       *)
Upto(n, bound) == IF n < bound THEN n ELSE bound

Pass ==
    /\ \A p \in Nodes : job[p] = "none" /\ (mode[p] = "up" => timer[p] < Tick)
    /\ timer' = [p \in Nodes |-> IF mode[p] = "up" THEN timer[p] + 1 ELSE timer[p]]
    /\ ring' = IF ring = None THEN None
               ELSE [ring EXCEPT !.rotateIn = IF @ = 0 THEN 0 ELSE @ - 1]
    /\ sig' = IF sig = None THEN None ELSE [sig EXCEPT !.age = Upto(@ + 1, MaxAge)]
    /\ UNCHANGED <<copyVars, mode, secrets, jobVars, countVars>>

Next ==
    \/ Pass
    \/ \E p \in Nodes :
          \/ FindNone(p) \/ Keep(p) \/ Rotate(p) \/ CommitNewKeyring(p)
          \/ Reread(p) \/ MakeCopy(p) \/ RefreshFails(p)
          \/ NewDB(p) \/ LoopTick(p) \/ RotateKeys(p) \/ Shutdown(p) \/ Exit(p)
          \/ ReEncryptAll(p) \/ Sign(p) \/ Renew(p)

Spec == Init /\ [][Next]_vars

----------------------------------------------------------------------------
(* Properties                                                              *)

(* Type correctness: in particular an index fits into the byte of the      *)
(* header, however many rotations there were.                              *)
KeyringTypeOK ==
    /\ ring = None \/ (DOMAIN ring.keys \subseteq 0..(Keyspace - 1) /\ ring.rotateIn \in 0..Rotation)
    /\ \A p \in Nodes : /\ DOMAIN keys[p] \subseteq 0..(Keyspace - 1)
                        /\ signingKey[p] \in Int \cup {None} /\ count[p] \in Nat
                        /\ timer[p] \in 0..Tick
                        /\ phase[p] = "apply" <=> fetched[p] # None
    /\ mode \in [Nodes -> {"down", "starting", "up", "closed"}]
    /\ job \in [Nodes -> {"none", "new", "tick", "force"}]
    /\ phase \in [Nodes -> {"idle", "create", "reread", "apply"}]
    /\ sig = None \/ sig \in [key : Int, index : 0..(Keyspace - 1), age : 0..MaxAge]

(***************************************************************************)
(* A node accepts exactly the signatures of the keys from MaxOldKeys       *)
(* rotations ago to the next one, counted from the rotation it knows, and  *)
(* calls those before its own old: whoever made the row first, however     *)
(* late the node refreshed, and also when the indexes have wrapped around. *)
(***************************************************************************)
VerifiesExactly ==
    KeyringTypeOK /\ \A p \in Nodes : (mode[p] = "up" /\ sig # None) =>
        /\ Verifies(p, sig) <=> sig.key \in (count[p] - MaxOldKeys)..(count[p] + 1)
        /\ Verifies(p, sig) => (OldKey(p, sig) <=> sig.key < count[p])

(***************************************************************************)
(* Without forced rotations and failed refreshes a signature is accepted   *)
(* by every node for MaxOldKeys times the time between rotations, less the *)
(* period of the ticker: a node that has not seen the last rotation signs  *)
(* with a key that is already old.                                         *)
(***************************************************************************)
ValidLongEnough ==
    (sig # None /\ forced = 0 /\ failures = 0 /\ sig.age + Tick < MaxAge) =>
        \A p \in Nodes : mode[p] = "up" => Verifies(p, sig)

(***************************************************************************)
(* A node that has all the secrets can sign, whichever nodes rotated the   *)
(* keys and with which of them the private keys are encrypted, as long as  *)
(* no secret was mistaken for another.                                     *)
(***************************************************************************)
CanSign ==
    misreads = 0 => \A p \in Nodes :
        (mode[p] = "up" /\ Range(secrets[p]) = Secrets) => signingKey[p] # None

(***************************************************************************)
(* A session is never signed again with an older key, although it meets    *)
(* nodes that know different rotations: it would go back and forth.        *)
(***************************************************************************)
RenewsForward ==
    [][(\E p \in Nodes : Renew(p)) => sig'.key > sig.key]_vars
=============================================================================
