---------------------------- MODULE KeyringProofs ----------------------------
(***************************************************************************)
(* Proofs about Keyring for any nodes, secrets and lists of them, any      *)
(* number of indexes, old keys and rotations, and any rotation time.       *)
(***************************************************************************)
EXTENDS Keyring, TLAPS

----------------------------------------------------------------------------
(* The inductive invariant                                                 *)

(* The keys that a row of rotation n accepts, and the map that has exactly *)
(* these, each at the byte of its number.                                  *)
Window(n) == {i \in Nat : n - MaxOldKeys <= i /\ i <= n + 1}
Exact(m, n) ==
    /\ DOMAIN m = {Byte(i) : i \in Window(n)}
    /\ \A i \in Window(n) : m[Byte(i)] = i

Types ==
    /\ keys \in [Nodes -> KeyMaps]
    /\ signingKey \in [Nodes -> Int \cup {None}] /\ count \in [Nodes -> Nat]
    /\ timer \in [Nodes -> 0..Tick]
    /\ mode \in [Nodes -> {"down", "starting", "up", "closed"}]
    /\ secrets \in [Nodes -> Lists]
    /\ job \in [Nodes -> {"none", "new", "tick", "force"}]
    /\ phase \in [Nodes -> {"idle", "create", "reread", "apply"}]
    /\ fetched \in [Nodes -> Rows \cup {None}]
    /\ ring \in Rows \cup {None}
    /\ sig = None \/ sig \in [key : Nat, index : Indexes, age : 0..MaxAge]
    /\ {forced, failures, reEncrypts, misreads, starts} \subseteq Nat

(* How a refresh, the mode of the node and the row go together. *)
JobInv ==
    \A p \in Nodes :
        /\ job[p] = "new" <=> mode[p] = "starting"
        /\ job[p] \in {"tick", "force"} => mode[p] = "up"
        /\ job[p] = "force" => forced > 0
        /\ phase[p] # "idle" => job[p] # "none"
        /\ phase[p] \in {"reread", "apply"} => ring # None
        /\ phase[p] = "apply" <=> fetched[p] # None

(* Every copy of the row is the one of some rotation up to the present. *)
CopyInv ==
    /\ ring # None => Exact(ring.keys, ring.count)
    /\ \A p \in Nodes :
          /\ phase[p] = "apply" => Exact(fetched[p].keys, fetched[p].count)
          /\ mode[p] = "up" => Exact(keys[p], count[p])
          /\ mode[p] = "up" /\ signingKey[p] # None => signingKey[p] = count[p]

SigInv == sig # None => sig.index = Byte(sig.key)

(* Unless a private key was misread the row holds keys, and a node with    *)
(* all the secrets has loaded its own.                                     *)
SecretInv ==
    misreads = 0 =>
        /\ ring # None => ring.sign.ok /\ ring.next.ok
        /\ \A p \in Nodes :
              /\ phase[p] = "apply" => fetched[p].sign.ok
              /\ mode[p] = "up" /\ Range(secrets[p]) = Secrets => signingKey[p] # None

(* The time since the last rotation. *)
Elapsed == Rotation - ring.rotateIn

(* Without forced rotations and failed refreshes a node is at most one     *)
(* rotation behind, and that for no longer than its ticker; a signature is *)
(* as old as the rotations since the one after its key say, less the tick. *)
TimeInv ==
    forced = 0 /\ failures = 0 =>
        /\ \A p \in Nodes :
              /\ phase[p] # "idle" /\ ring # None => ring.rotateIn = Rotation
              /\ phase[p] = "apply" => fetched[p].count = ring.count
              /\ mode[p] = "up" =>
                    /\ ring # None
                    /\ \/ count[p] = ring.count
                       \/ /\ count[p] + 1 = ring.count
                          /\ Elapsed <= (IF job[p] = "none" THEN timer[p] ELSE Tick)
        /\ sig # None =>
              /\ ring # None
              /\ sig.key <= ring.count
              /\ sig.key < ring.count /\ sig.age < MaxAge =>
                    (ring.count - sig.key - 1) * Rotation + Elapsed <= sig.age + Tick

IInv == Types /\ JobInv /\ CopyInv /\ SigInv /\ SecretInv /\ TimeInv

----------------------------------------------------------------------------
(* Indexes                                                                 *)

LEMMA ByteType == \A a \in Int : Byte(a) \in Indexes
BY KeyringAssumption DEF Byte, Indexes

(* Two numbers less than Keyspace apart have the same byte only if they    *)
(* are equal: this is what MaxOldKeys + 2 <= Keyspace is for.              *)
LEMMA ByteInjective ==
    ASSUME NEW a \in Int, NEW b \in Int, Byte(a) = Byte(b), a - b < Keyspace, b - a < Keyspace
    PROVE  a = b
<1> DEFINE q == (a \div Keyspace) - (b \div Keyspace)
<1>1. Keyspace \in Nat \ {0}
  BY KeyringAssumption
<1>2. \A x \in Int : x = Keyspace * (x \div Keyspace) + (x % Keyspace)
  BY <1>1
<1>3. /\ a \div Keyspace \in Int /\ b \div Keyspace \in Int
      /\ a % Keyspace \in Int /\ b % Keyspace \in Int
  BY <1>1
<1>4. q \in Int /\ a - b = Keyspace * q
  <2>1. a = Keyspace * (a \div Keyspace) + (a % Keyspace)
    BY <1>2
  <2>2. b = Keyspace * (b \div Keyspace) + (a % Keyspace)
    BY <1>2 DEF Byte
  <2>3. \A x, y, u, v, r \in Int :
            x = Keyspace * u + r /\ y = Keyspace * v + r => x - y = Keyspace * (u - v)
    BY <1>1
  <2>4. a - b = Keyspace * ((a \div Keyspace) - (b \div Keyspace))
    BY <1>3, <2>1, <2>2, <2>3
  <2> QED BY <1>3, <2>4
<1> HIDE DEF q
<1>5. \A x \in Int : /\ x >= 1 => Keyspace * x >= Keyspace
                     /\ x <= -1 => Keyspace * x <= -Keyspace
  BY <1>1
<1>6. q = 0
  BY <1>1, <1>4, <1>5
<1> QED BY <1>1, <1>4, <1>6

(* The bytes of the numbers a rotation deals with are distinct. *)
LEMMA WindowInjective ==
    ASSUME NEW n \in Nat, NEW i \in Int, NEW j \in Int,
           n - MaxOldKeys <= i, i <= n + 1, n - MaxOldKeys <= j, j <= n + 1, Byte(i) = Byte(j)
    PROVE  i = j
BY ByteInjective, KeyringAssumption

(* RotateVerificationKeys: the oldest key goes, the next key is added, and *)
(* the index of a number below zero removes nothing.                       *)
LEMMA RotateExact ==
    ASSUME NEW n \in Nat, NEW m \in KeyMaps, Exact(m, n)
    PROVE  /\ RotateVerificationKeys(m, n + 1, n + 2) \in KeyMaps
           /\ Exact(RotateVerificationKeys(m, n + 1, n + 2), n + 1)
<1> DEFINE kept == {Byte(i) : i \in ((n + 1) - MaxOldKeys)..(n + 1)} \cap DOMAIN m
           dom  == kept \cup {Byte(n + 2)}
           r    == [b \in dom |-> IF b = Byte(n + 2) THEN n + 2 ELSE m[b]]
<1>1. RotateVerificationKeys(m, n + 1, n + 2) = r
  BY DEF RotateVerificationKeys
<1>2. /\ MaxOldKeys \in Nat \ {0} /\ Keyspace \in Nat \ {0} /\ MaxOldKeys + 2 <= Keyspace
  BY KeyringAssumption
<1>3. ASSUME NEW i \in ((n + 1) - MaxOldKeys)..(n + 1), NEW j \in Window(n), Byte(i) = Byte(j)
      PROVE  i = j
  BY <1>2, <1>3, WindowInjective DEF Window
<1>4. kept = {Byte(i) : i \in Window(n) \cap (((n + 1) - MaxOldKeys)..(n + 1))}
  BY <1>3 DEF Exact
<1>5. Window(n + 1) = (Window(n) \cap (((n + 1) - MaxOldKeys)..(n + 1))) \cup {n + 2}
  BY <1>2 DEF Window
<1>6. dom = {Byte(i) : i \in Window(n + 1)}
  BY <1>4, <1>5
<1>7. ASSUME NEW i \in Window(n + 1) PROVE r[Byte(i)] = i
  <2>1. CASE i = n + 2
    BY <1>6, <2>1
  <2>2. CASE i # n + 2
    <3>1. i \in Window(n) /\ i \in Int
      BY <1>5, <2>2 DEF Window
    <3>2. Byte(i) # Byte(n + 2)
      BY <1>2, <1>7, <2>2, <3>1, ByteInjective DEF Window
    <3> QED BY <1>6, <3>1, <3>2 DEF Exact
  <2> QED BY <2>1, <2>2
<1>8. dom \subseteq Indexes
  BY <1>6, ByteType DEF Window
<1>9. r \in [dom -> Int]
  <2>1. ASSUME NEW b \in dom PROVE r[b] \in Int
    <3>1. PICK i \in Window(n + 1) : b = Byte(i)
      BY <1>6
    <3>2. r[Byte(i)] = i
      BY <1>7
    <3>3. i \in Int
      BY DEF Window
    <3> QED BY <3>1, <3>2, <3>3
  <2> QED BY <2>1
<1> QED
  <2>1. r \in KeyMaps
    BY <1>8, <1>9 DEF KeyMaps
  <2>2. Exact(r, n + 1)
    BY <1>6, <1>7 DEF Exact
  <2> QED BY <1>1, <2>1, <2>2

----------------------------------------------------------------------------
(* Rows and copies                                                         *)

LEMMA EncryptType == ASSUME Types, NEW p \in Nodes PROVE Encrypt(p) \in Private /\ Encrypt(p).ok
<1>1. secrets[p] \in Lists
  BY DEF Types
<1>2. secrets[p][1] \in Secrets
  BY <1>1, SecretsAssumption DEF Range
<1> QED BY <1>2 DEF Encrypt, Private

LEMMA RotatedRowFacts ==
    ASSUME Types, NEW p \in Nodes, ring # None, Exact(ring.keys, ring.count)
    PROVE  /\ RotatedRow(p) \in Rows /\ RotatedRow(p) # None
           /\ Exact(RotatedRow(p).keys, RotatedRow(p).count)
           /\ RotatedRow(p).count = ring.count + 1 /\ RotatedRow(p).rotateIn = Rotation
           /\ RotatedRow(p).sign = ring.next /\ RotatedRow(p).next.ok
<1>1. ring \in Rows /\ ring.count \in Nat /\ ring.keys \in KeyMaps /\ ring.next \in Private
  BY DEF Types, Rows
<1>2. (ring.count + 1) + 1 = ring.count + 2
  BY <1>1
<1>3. LET m == RotateVerificationKeys(ring.keys, ring.count + 1, ring.count + 2)
      IN m \in KeyMaps /\ Exact(m, ring.count + 1)
  BY <1>1, RotateExact
<1>4. Rotation \in 0..Rotation
  BY KeyringAssumption
<1>5. RotatedRow(p) \in Rows
  BY <1>1, <1>2, <1>3, <1>4, EncryptType DEF RotatedRow, Rows
<1> QED BY <1>2, <1>3, <1>5, EncryptType, NoneAssumption DEF RotatedRow

LEMMA NewRowFacts ==
    ASSUME Types, NEW p \in Nodes
    PROVE  LET row == NewRow(p, <<0, 1>>)
           IN /\ row \in Rows /\ row # None /\ Exact(row.keys, row.count)
              /\ row.count = 0 /\ row.rotateIn = Rotation /\ row.sign.ok /\ row.next.ok
<1> DEFINE m == [b \in {0, 1} |-> <<0, 1>>[b + 1]]
<1>1. m[0] = 0 /\ m[1] = 1 /\ m \in [{0, 1} -> Int]
  OBVIOUS
<1>2. Window(0) = {0, 1}
  BY KeyringAssumption DEF Window
<1>3. Byte(0) = 0 /\ Byte(1) = 1 /\ {0, 1} \subseteq Indexes
  BY KeyringAssumption DEF Byte, Indexes
<1>4. m \in KeyMaps
  BY <1>1, <1>3 DEF KeyMaps
<1>5. Exact(m, 0)
  BY <1>1, <1>2, <1>3 DEF Exact
<1>6. Rotation \in 0..Rotation
  BY KeyringAssumption
<1> HIDE DEF m
<1>7. NewRow(p, <<0, 1>>) = [keys |-> m, count |-> 0, rotateIn |-> Rotation,
                             sign |-> Encrypt(p), next |-> Encrypt(p)]
  BY DEF NewRow, m
<1>8. NewRow(p, <<0, 1>>) \in Rows
  BY <1>4, <1>6, <1>7, EncryptType DEF Rows
<1> QED BY <1>5, <1>7, <1>8, EncryptType, NoneAssumption

(* A node that has all the secrets loads the key, or has misread it. *)
LEMMA ApplyFacts ==
    ASSUME Types, NEW p \in Nodes, NEW row \in Rows, Apply(p, row)
    PROVE  /\ keys' \in [Nodes -> KeyMaps] /\ count' \in [Nodes -> Nat]
           /\ signingKey' \in [Nodes -> Int \cup {None}] /\ misreads' \in Nat
           /\ keys'[p] = row.keys /\ count'[p] = row.count
           /\ signingKey'[p] \in {None, row.count}
           /\ \A q \in Nodes \ {p} : /\ keys'[q] = keys[q] /\ count'[q] = count[q]
                                     /\ signingKey'[q] = signingKey[q]
           /\ misreads' = 0 =>
                 /\ misreads = 0
                 /\ row.sign.ok /\ Range(secrets[p]) = Secrets => signingKey'[p] # None
<1>1. row.keys \in KeyMaps /\ row.count \in Nat /\ row.count # None /\ row.sign.enc \in Secrets
  BY NoneAssumption DEF Rows, Private
<1>2. PICK k \in LoadKey(p, row.sign, row.count) :
          /\ signingKey' = [signingKey EXCEPT ![p] = k]
          /\ misreads' = IF k = None /\ Decrypts(p, row.sign) /\ row.sign.ok
                         THEN misreads + 1 ELSE misreads
  BY DEF Apply
<1>3. k \in {None, row.count}
  BY DEF LoadKey
<1>4. misreads' \in Nat /\ (misreads' = 0 => misreads = 0)
  BY <1>2 DEF Types
<1>5. misreads' = 0 /\ row.sign.ok /\ Range(secrets[p]) = Secrets => k # None
  BY <1>1, <1>2 DEF Decrypts, Types
<1>6. signingKey' \in [Nodes -> Int \cup {None}] /\ signingKey'[p] = k
  BY <1>1, <1>2, <1>3 DEF Types
<1>7. keys' \in [Nodes -> KeyMaps] /\ count' \in [Nodes -> Nat]
  BY <1>1 DEF Apply, Types
<1>8. keys'[p] = row.keys /\ count'[p] = row.count
  BY DEF Apply, Types
<1>9. \A q \in Nodes \ {p} : /\ keys'[q] = keys[q] /\ count'[q] = count[q]
                            /\ signingKey'[q] = signingKey[q]
  BY <1>2 DEF Apply, Types
<1> QED BY <1>3, <1>4, <1>5, <1>6, <1>7, <1>8, <1>9

LEMMA SignedFacts ==
    ASSUME IInv, NEW p \in Nodes, mode[p] = "up", signingKey[p] # None
    PROVE  /\ Signed(p) \in [key : Nat, index : Indexes, age : 0..MaxAge]
           /\ Signed(p).key = count[p] /\ Signed(p).index = Byte(count[p]) /\ Signed(p).age = 0
<1>1. signingKey[p] = count[p] /\ count[p] \in Nat
  BY DEF IInv, CopyInv, Types
<1>2. 0 \in 0..MaxAge
  BY KeyringAssumption DEF MaxAge
<1>3. Byte(count[p]) \in Indexes
  BY <1>1, ByteType
<1> QED BY <1>1, <1>2, <1>3 DEF Signed

(* Encrypting the private keys again leaves the rest of the row alone. *)
LEMMA ReEncryptFacts ==
    ASSUME Types, NEW p \in Nodes, ReEncryptAll(p)
    PROVE  /\ ring' \in Rows /\ ring' # None /\ ring # None /\ misreads' \in Nat
           /\ ring'.keys = ring.keys /\ ring'.count = ring.count /\ ring'.rotateIn = ring.rotateIn
           /\ misreads' = 0 => /\ misreads = 0
                               /\ ring.sign.ok /\ ring.next.ok => ring'.sign.ok /\ ring'.next.ok
<1>1. ring \in Rows /\ ring # None /\ misreads \in Nat
  BY DEF ReEncryptAll, Types
<1>2. PICK s \in ReEncrypted(p, ring.sign), n \in ReEncrypted(p, ring.next) :
          /\ ring' = [ring EXCEPT !.sign = s, !.next = n]
          /\ misreads' = misreads + Misread(ring.sign, s) + Misread(ring.next, n)
  BY DEF ReEncryptAll
<1>3. ring.sign \in Private /\ ring.next \in Private
  BY <1>1 DEF Rows
<1>4. s \in Private /\ n \in Private
  BY <1>3, EncryptType DEF ReEncrypted, Private
<1>5. ring' \in Rows /\ ring'.keys = ring.keys /\ ring'.count = ring.count
      /\ ring'.rotateIn = ring.rotateIn /\ ring'.sign = s /\ ring'.next = n
  BY <1>1, <1>2, <1>4 DEF Rows
<1>6. Misread(ring.sign, s) \in {0, 1} /\ Misread(ring.next, n) \in {0, 1}
  BY DEF Misread
<1>7. misreads' \in Nat /\ (misreads' = 0 =>
          misreads = 0 /\ Misread(ring.sign, s) = 0 /\ Misread(ring.next, n) = 0)
  BY <1>1, <1>2, <1>6
<1>8. /\ Misread(ring.sign, s) = 0 /\ ring.sign.ok => s.ok
      /\ Misread(ring.next, n) = 0 /\ ring.next.ok => n.ok
  BY DEF Misread
<1> QED BY <1>1, <1>5, <1>7, <1>8, NoneAssumption

LEMMA Times == \A x \in Int : x * Rotation \in Int /\ (x + 1) * Rotation = x * Rotation + Rotation
BY KeyringAssumption

LEMMA RowTimer ==
    ASSUME NEW r \in Rows, NEW t \in 0..Rotation
    PROVE  LET row == [r EXCEPT !.rotateIn = t]
           IN row \in Rows /\ row # None /\ row.count = r.count /\ row.keys = r.keys
              /\ row.sign = r.sign /\ row.next = r.next /\ row.rotateIn = t
<1>1. [r EXCEPT !.rotateIn = t] \in Rows
  BY DEF Rows
<1> QED BY <1>1, NoneAssumption DEF Rows

(* A unit of time changes the row's timer only. *)
LEMMA PassRow ==
    ASSUME Types, Pass, ring # None
    PROVE  /\ ring' \in Rows /\ ring' # None /\ ring'.count = ring.count /\ ring'.keys = ring.keys
           /\ ring'.sign = ring.sign /\ ring'.next = ring.next
           /\ ring'.rotateIn = IF ring.rotateIn = 0 THEN 0 ELSE ring.rotateIn - 1
<1> DEFINE t == IF ring.rotateIn = 0 THEN 0 ELSE ring.rotateIn - 1
<1>1. ring \in Rows /\ ring.rotateIn \in 0..Rotation
  BY DEF Types, Rows
<1>2. t \in 0..Rotation
  BY <1>1, KeyringAssumption
<1>3. ring' = [ring EXCEPT !.rotateIn = t]
  BY DEF Pass
<1> HIDE DEF t
<1>4. /\ ring' \in Rows /\ ring' # None /\ ring'.count = ring.count /\ ring'.keys = ring.keys
      /\ ring'.sign = ring.sign /\ ring'.next = ring.next /\ ring'.rotateIn = t
  BY <1>1, <1>2, <1>3, RowTimer
<1> QED BY <1>4 DEF t

----------------------------------------------------------------------------
(* The steps preserve the invariant                                        *)

(* A node makes its copy of a row, under the lock or later. *)
Copies(p, row) ==
    /\ Apply(p, row) /\ Finish(p, TRUE)
    /\ UNCHANGED <<ring, secrets, sig, forced, failures, reEncrypts, starts>>

LEMMA CopiesIInv ==
  ASSUME IInv, NEW p \in Nodes, NEW row \in Rows, Exact(row.keys, row.count),
         ring # None, job[p] # "none", misreads = 0 => row.sign.ok,
         forced = 0 /\ failures = 0 => row.count = ring.count, Copies(p, row)
  PROVE  IInv'
<1>1. Types'
  <2>1. /\ keys' \in [Nodes -> KeyMaps] /\ count' \in [Nodes -> Nat]
        /\ signingKey' \in [Nodes -> Int \cup {None}] /\ misreads' \in Nat
    BY ApplyFacts DEF IInv, Copies
  <2>2. job' \in [Nodes -> {"none", "new", "tick", "force"}]
    BY DEF IInv, Types, Copies, Finish
  <2>3. phase' \in [Nodes -> {"idle", "create", "reread", "apply"}]
    BY DEF IInv, Types, Copies, Finish
  <2>4. fetched' \in [Nodes -> Rows \cup {None}]
    BY DEF IInv, Types, Copies, Finish
  <2>5. mode' \in [Nodes -> {"down", "starting", "up", "closed"}]
    BY DEF IInv, Types, Copies, Finish
  <2>6. timer' \in [Nodes -> 0..Tick]
    BY KeyringAssumption DEF IInv, Types, Copies, Finish
  <2> QED BY <2>1, <2>2, <2>3, <2>4, <2>5, <2>6 DEF IInv, Types, Copies
<1>2. JobInv'
  BY DEF IInv, Copies, Types, JobInv, Finish
<1>3. CopyInv'
  BY <1>1, ApplyFacts, KeyringAssumption DEF IInv, Types, JobInv, CopyInv, Copies, Finish, Elapsed
<1>4. SigInv'
  BY DEF IInv, Copies, SigInv
<1>5. SecretInv'
  BY <1>1, ApplyFacts, KeyringAssumption DEF IInv, Types, JobInv, SecretInv, Copies, Finish, Elapsed
<1>6. TimeInv'
  BY <1>1, ApplyFacts, KeyringAssumption DEF IInv, Types, JobInv, TimeInv, Copies, Finish, Elapsed
<1> QED BY <1>1, <1>2, <1>3, <1>4, <1>5, <1>6 DEF IInv

LEMMA FindNoneIInv ==
  ASSUME IInv, NEW p \in Nodes, FindNone(p)
  PROVE  IInv'
<1>1. Types'
  BY DEF IInv, FindNone, Types, copyVars, countVars, nodeVars
<1>2. JobInv'
  BY DEF IInv, FindNone, JobInv, countVars, nodeVars, Refreshing
<1>3. CopyInv'
  BY DEF IInv, FindNone, CopyInv, copyVars, nodeVars
<1>4. SigInv'
  BY DEF IInv, FindNone, SigInv
<1>5. SecretInv'
  BY DEF IInv, FindNone, SecretInv, copyVars, countVars, nodeVars
<1>6. TimeInv'
  BY DEF IInv, FindNone, TimeInv, countVars, nodeVars
<1> QED BY <1>1, <1>2, <1>3, <1>4, <1>5, <1>6 DEF IInv

LEMMA RotateIInv ==
  ASSUME IInv, NEW p \in Nodes, Rotate(p)
  PROVE  IInv'
<1>1. Types'
  <2>1. ring' \in Rows /\ fetched' \in [Nodes -> Rows \cup {None}]
    BY RotatedRowFacts DEF IInv, Types, CopyInv, Rotate
  <2>2. phase' \in [Nodes -> {"idle", "create", "reread", "apply"}]
    BY DEF IInv, Types, Rotate
  <2> QED BY <2>1, <2>2 DEF IInv, Types, Rotate, copyVars, nodeVars, countVars
<1>2. JobInv'
  BY RotatedRowFacts DEF IInv, Types, CopyInv, JobInv, Rotate, Refreshing, copyVars, nodeVars,
     countVars
<1>3. CopyInv'
  BY RotatedRowFacts DEF IInv, Types, CopyInv, Rotate, Refreshing, copyVars, nodeVars, countVars
<1>4. SigInv'
  BY DEF IInv, Rotate, SigInv
<1>5. SecretInv'
  BY RotatedRowFacts DEF IInv, Types, CopyInv, SecretInv, Rotate, Refreshing, copyVars, nodeVars,
     countVars
<1>6. TimeInv'
  <2> SUFFICES ASSUME forced = 0, failures = 0 PROVE TimeInv'
    BY DEF TimeInv, Rotate, countVars
  <2>1. /\ ring \in Rows /\ ring # None /\ ring' = RotatedRow(p) /\ ring' # None
        /\ ring'.count = ring.count + 1 /\ ring'.rotateIn = Rotation
    BY RotatedRowFacts DEF IInv, Types, CopyInv, Rotate
  <2>2. ring.count \in Nat /\ ring.rotateIn = 0 /\ Elapsed = Rotation
    BY <2>1, KeyringAssumption DEF IInv, JobInv, Types, Rows, Rotate, ToRotate, Elapsed
  <2>3. Elapsed' = 0
    BY <2>1, KeyringAssumption DEF Elapsed
  <2>4. \A q \in Nodes : phase'[q] # "idle" => q = p
    BY <2>1, <2>2, KeyringAssumption DEF IInv, Types, TimeInv, Rotate
  <2>5. ASSUME NEW q \in Nodes, mode'[q] = "up" PROVE count'[q] + 1 = ring'.count
    <3>1. timer[q] \in 0..Tick /\ Tick < Rotation
      BY KeyringAssumption DEF IInv, Types
    <3>2. ~(Elapsed <= (IF job[q] = "none" THEN timer[q] ELSE Tick))
      BY <2>2, <3>1, KeyringAssumption
    <3>3. mode[q] = "up"
      BY <2>5 DEF Rotate, nodeVars
    <3>4. count[q] = ring.count
      BY <3>2, <3>3 DEF IInv, TimeInv
    <3> QED BY <2>1, <3>4 DEF Rotate, copyVars
  <2>6. ASSUME sig' # None, sig'.key < ring'.count, sig'.age < MaxAge
        PROVE  (ring'.count - sig'.key - 1) * Rotation + Elapsed' <= sig'.age + Tick
    <3>1. sig' = sig /\ sig.key \in Nat /\ sig.age \in Nat /\ sig.key <= ring.count
      BY <2>6 DEF IInv, Types, TimeInv, Rotate
    <3>2. CASE sig.key = ring.count
      BY <2>1, <2>2, <2>3, <3>1, <3>2, KeyringAssumption
    <3>3. CASE sig.key # ring.count
      <4>1. (ring.count - sig.key - 1) * Rotation + Rotation <= sig.age + Tick
        BY <2>2, <2>6, <3>1, <3>3 DEF IInv, TimeInv
      <4>2. ring'.count - sig'.key - 1 = (ring.count - sig.key - 1) + 1
        BY <2>1, <2>2, <3>1
      <4>3. (ring'.count - sig'.key - 1) * Rotation = (ring.count - sig.key - 1) * Rotation +
         Rotation
        BY <2>2, <3>1, <4>2, Times
      <4>4. (ring.count - sig.key - 1) * Rotation \in Int
        BY <2>2, <3>1, Times
      <4> QED BY <2>3, <3>1, <4>1, <4>3, <4>4, KeyringAssumption
    <3> QED BY <3>2, <3>3
  <2>7. sig' # None => sig'.key <= ring'.count
    BY <2>1, <2>2 DEF IInv, Types, TimeInv, Rotate
  <2>8. 0 <= Tick /\ \A q \in Nodes : timer'[q] \in 0..Tick
    BY <1>1, KeyringAssumption DEF Types
  <2>9. fetched'[p] = ring'
    BY DEF IInv, Types, Rotate
  <2> QED BY <2>1, <2>3, <2>4, <2>5, <2>6, <2>7, <2>8, <2>9 DEF TimeInv
<1> QED BY <1>1, <1>2, <1>3, <1>4, <1>5, <1>6 DEF IInv

LEMMA CommitNewKeyringIInv ==
  ASSUME IInv, NEW p \in Nodes, CommitNewKeyring(p)
  PROVE  IInv'
<1>1. Types'
  <2>1. ring' \in Rows \cup {None} /\ fetched' \in [Nodes -> Rows \cup {None}]
    BY NewRowFacts DEF IInv, Types, CommitNewKeyring, AfterInsert
  <2>2. phase' \in [Nodes -> {"idle", "create", "reread", "apply"}]
    BY DEF IInv, Types, CommitNewKeyring, AfterInsert
  <2> QED BY <2>1, <2>2 DEF IInv, Types, CommitNewKeyring, copyVars, nodeVars, countVars
<1>2. JobInv'
  <2>1. CASE ring = None
    BY <2>1, NewRowFacts, KeyringAssumption DEF IInv, Types, JobInv, CommitNewKeyring, AfterInsert,
       copyVars, nodeVars, countVars
  <2>2. CASE ring # None
    BY <2>2 DEF IInv, Types, JobInv, CommitNewKeyring, AfterInsert, copyVars, nodeVars, countVars
  <2> QED BY <2>1, <2>2
<1>3. CopyInv'
  <2>1. CASE ring = None
    BY <2>1, NewRowFacts, KeyringAssumption DEF IInv, Types, JobInv, CopyInv, CommitNewKeyring,
       AfterInsert, copyVars, nodeVars, countVars
  <2>2. CASE ring # None
    BY <2>2 DEF IInv, Types, CopyInv, CommitNewKeyring, AfterInsert, copyVars, nodeVars, countVars
  <2> QED BY <2>1, <2>2
<1>4. SigInv'
  BY DEF IInv, CommitNewKeyring, SigInv
<1>5. SecretInv'
  <2>1. CASE ring = None
    BY <2>1, NewRowFacts, KeyringAssumption DEF IInv, Types, JobInv, SecretInv, CommitNewKeyring,
       AfterInsert, copyVars, nodeVars, countVars
  <2>2. CASE ring # None
    BY <2>2 DEF IInv, Types, SecretInv, CommitNewKeyring, AfterInsert, copyVars, nodeVars, countVars
  <2> QED BY <2>1, <2>2
<1>6. TimeInv'
  <2>1. CASE ring = None
    BY <2>1, NewRowFacts, KeyringAssumption DEF IInv, Types, JobInv, TimeInv, CommitNewKeyring,
       AfterInsert, copyVars, nodeVars, countVars, Elapsed
  <2>2. CASE ring # None
    BY <2>2 DEF IInv, Types, TimeInv, CommitNewKeyring, AfterInsert, copyVars, nodeVars, countVars,
       Elapsed
  <2> QED BY <2>1, <2>2
<1> QED BY <1>1, <1>2, <1>3, <1>4, <1>5, <1>6 DEF IInv

LEMMA RereadIInv ==
  ASSUME IInv, NEW p \in Nodes, Reread(p)
  PROVE  IInv'
<1>1. Types'
  BY DEF IInv, Reread, Types, copyVars, countVars, nodeVars
<1>2. JobInv'
  BY DEF IInv, Reread, Types, JobInv, countVars, nodeVars
<1>3. CopyInv'
  BY DEF IInv, Reread, Types, JobInv, CopyInv, copyVars, nodeVars
<1>4. SigInv'
  BY DEF IInv, Reread, SigInv
<1>5. SecretInv'
  BY DEF IInv, Reread, Types, JobInv, SecretInv, copyVars, countVars, nodeVars
<1>6. TimeInv'
  BY DEF IInv, Reread, Types, TimeInv, copyVars, countVars, nodeVars, Elapsed
<1> QED BY <1>1, <1>2, <1>3, <1>4, <1>5, <1>6 DEF IInv

LEMMA RefreshFailsIInv ==
  ASSUME IInv, NEW p \in Nodes, RefreshFails(p)
  PROVE  IInv'
<1>1. Types'
  BY KeyringAssumption DEF IInv, RefreshFails, Types, copyVars, Finish
<1>2. JobInv'
  BY DEF IInv, RefreshFails, Types, JobInv, Finish
<1>3. CopyInv'
  BY DEF IInv, RefreshFails, Types, CopyInv, copyVars, Finish
<1>4. SigInv'
  BY DEF IInv, RefreshFails, SigInv
<1>5. SecretInv'
  BY DEF IInv, RefreshFails, Types, SecretInv, copyVars, Finish
<1>6. TimeInv'
  BY DEF IInv, RefreshFails, Types, TimeInv
<1> QED BY <1>1, <1>2, <1>3, <1>4, <1>5, <1>6 DEF IInv

LEMMA NewDBIInv ==
  ASSUME IInv, NEW p \in Nodes, NewDB(p)
  PROVE  IInv'
<1>1. Types'
  BY DEF IInv, NewDB, Types, copyVars
<1>2. JobInv'
  BY DEF IInv, NewDB, Types, JobInv
<1>3. CopyInv'
  BY DEF IInv, NewDB, CopyInv, copyVars
<1>4. SigInv'
  BY DEF IInv, NewDB, SigInv
<1>5. SecretInv'
  BY DEF IInv, NewDB, SecretInv, copyVars
<1>6. TimeInv'
  BY DEF IInv, NewDB, TimeInv, copyVars, Elapsed
<1> QED BY <1>1, <1>2, <1>3, <1>4, <1>5, <1>6 DEF IInv

LEMMA LoopTickIInv ==
  ASSUME IInv, NEW p \in Nodes, LoopTick(p)
  PROVE  IInv'
<1>1. Types'
  BY DEF IInv, LoopTick, Types, copyVars, countVars
<1>2. JobInv'
  BY DEF IInv, LoopTick, JobInv, countVars, LoopFree
<1>3. CopyInv'
  BY DEF IInv, LoopTick, CopyInv, copyVars
<1>4. SigInv'
  BY DEF IInv, LoopTick, SigInv
<1>5. SecretInv'
  BY DEF IInv, LoopTick, SecretInv, copyVars, countVars
<1>6. TimeInv'
  BY DEF IInv, LoopTick, Types, TimeInv, copyVars, countVars, Elapsed
<1> QED BY <1>1, <1>2, <1>3, <1>4, <1>5, <1>6 DEF IInv

LEMMA RotateKeysIInv ==
  ASSUME IInv, NEW p \in Nodes, RotateKeys(p)
  PROVE  IInv'
<1>1. Types'
  BY DEF IInv, RotateKeys, Types, copyVars, nodeVars
<1>2. JobInv'
  BY DEF IInv, RotateKeys, Types, JobInv, nodeVars, LoopFree
<1>3. CopyInv'
  BY DEF IInv, RotateKeys, CopyInv, copyVars, nodeVars
<1>4. SigInv'
  BY DEF IInv, RotateKeys, SigInv
<1>5. SecretInv'
  BY DEF IInv, RotateKeys, SecretInv, copyVars, nodeVars
<1>6. TimeInv'
  BY DEF IInv, RotateKeys, Types, TimeInv
<1> QED BY <1>1, <1>2, <1>3, <1>4, <1>5, <1>6 DEF IInv

LEMMA ShutdownIInv ==
  ASSUME IInv, NEW p \in Nodes, Shutdown(p)
  PROVE  IInv'
<1>1. Types'
  BY DEF IInv, Shutdown, Types, copyVars, jobVars, countVars
<1>2. JobInv'
  BY DEF IInv, Shutdown, JobInv, jobVars, countVars, LoopFree
<1>3. CopyInv'
  BY DEF IInv, Shutdown, CopyInv, copyVars, jobVars
<1>4. SigInv'
  BY DEF IInv, Shutdown, SigInv
<1>5. SecretInv'
  BY DEF IInv, Shutdown, SecretInv, copyVars, jobVars, countVars
<1>6. TimeInv'
  BY DEF IInv, Shutdown, TimeInv, copyVars, jobVars, countVars, Elapsed
<1> QED BY <1>1, <1>2, <1>3, <1>4, <1>5, <1>6 DEF IInv

LEMMA ExitIInv ==
  ASSUME IInv, NEW p \in Nodes, Exit(p)
  PROVE  IInv'
<1>1. Types'
  <2>1. keys' \in [Nodes -> KeyMaps]
    <3>1. [b \in {} |-> 0] \in [{} -> Int]
      BY DEF KeyMaps
    <3>2. [b \in {} |-> 0] \in KeyMaps
      BY <3>1 DEF KeyMaps
    <3> QED BY <3>2 DEF IInv, Types, Exit
  <2>2. /\ signingKey' \in [Nodes -> Int \cup {None}] /\ count' \in [Nodes -> Nat]
        /\ timer' \in [Nodes -> 0..Tick] /\ fetched' \in [Nodes -> Rows \cup {None}]
    BY KeyringAssumption DEF IInv, Types, Exit
  <2>3. /\ mode' \in [Nodes -> {"down", "starting", "up", "closed"}]
        /\ job' \in [Nodes -> {"none", "new", "tick", "force"}]
        /\ phase' \in [Nodes -> {"idle", "create", "reread", "apply"}]
    BY DEF IInv, Types, Exit
  <2> QED BY <2>1, <2>2, <2>3 DEF IInv, Types, Exit, countVars
<1>2. JobInv'
  BY DEF IInv, Exit, Types, JobInv, countVars
<1>3. CopyInv'
  BY DEF IInv, Exit, Types, CopyInv
<1>4. SigInv'
  BY DEF IInv, Exit, SigInv
<1>5. SecretInv'
  BY DEF IInv, Exit, Types, SecretInv, countVars
<1>6. TimeInv'
  BY DEF IInv, Exit, Types, TimeInv, countVars, Elapsed
<1> QED BY <1>1, <1>2, <1>3, <1>4, <1>5, <1>6 DEF IInv

LEMMA ReEncryptAllIInv ==
  ASSUME IInv, NEW p \in Nodes, ReEncryptAll(p)
  PROVE  IInv'
<1>1. Types'
  <2>1. ring' \in Rows /\ misreads' \in Nat
    BY ReEncryptFacts DEF IInv
  <2>2. reEncrypts' \in Nat
    BY DEF IInv, Types, ReEncryptAll
  <2> QED BY <2>1, <2>2 DEF IInv, Types, ReEncryptAll, copyVars, nodeVars, jobVars
<1>2. JobInv'
  BY ReEncryptFacts DEF IInv, JobInv, ReEncryptAll, copyVars, nodeVars, jobVars
<1>3. CopyInv'
  BY ReEncryptFacts DEF IInv, CopyInv, ReEncryptAll, copyVars, nodeVars, jobVars
<1>4. SigInv'
  BY DEF IInv, ReEncryptAll, SigInv
<1>5. SecretInv'
  BY ReEncryptFacts DEF IInv, SecretInv, ReEncryptAll, copyVars, nodeVars, jobVars
<1>6. TimeInv'
  BY ReEncryptFacts DEF IInv, TimeInv, ReEncryptAll, copyVars, nodeVars, jobVars, Elapsed
<1> QED BY <1>1, <1>2, <1>3, <1>4, <1>5, <1>6 DEF IInv

LEMMA SignIInv ==
  ASSUME IInv, NEW p \in Nodes, Sign(p)
  PROVE  IInv'
<1>1. Types'
  BY SignedFacts DEF IInv, Types, Sign, copyVars, nodeVars, jobVars, countVars
<1>2. JobInv'
  BY DEF IInv, Sign, JobInv, jobVars, countVars, nodeVars
<1>3. CopyInv'
  BY DEF IInv, Sign, CopyInv, copyVars, jobVars, nodeVars
<1>4. SigInv'
  BY SignedFacts DEF SigInv, Sign
<1>5. SecretInv'
  BY DEF IInv, Sign, SecretInv, copyVars, jobVars, countVars, nodeVars
<1>6. TimeInv'
  <2> SUFFICES ASSUME forced = 0, failures = 0 PROVE TimeInv'
    BY DEF TimeInv, Sign, countVars
  <2>1. sig'.key = count[p] /\ sig'.age = 0 /\ mode[p] = "up"
    BY SignedFacts DEF Sign
  <2>2. /\ ring # None /\ ring \in Rows /\ ring.count \in Nat /\ ring.rotateIn \in Nat
        /\ count[p] \in Nat /\ timer[p] \in 0..Tick
    BY <2>1 DEF IInv, Types, TimeInv, Rows
  <2>3. count[p] = ring.count \/ (count[p] + 1 = ring.count /\ Elapsed <= Tick)
    BY <2>1, <2>2, KeyringAssumption DEF IInv, TimeInv, Elapsed
  <2>4. sig'.key < ring.count => (ring.count - sig'.key - 1) * Rotation + Elapsed <= sig'.age + Tick
    BY <2>1, <2>2, <2>3, KeyringAssumption DEF Elapsed
  <2> QED BY <2>1, <2>2, <2>3, <2>4 DEF IInv, TimeInv, Sign, copyVars, nodeVars, jobVars,
     countVars, Elapsed
<1> QED BY <1>1, <1>2, <1>3, <1>4, <1>5, <1>6 DEF IInv

LEMMA RenewIInv ==
  ASSUME IInv, NEW p \in Nodes, Renew(p)
  PROVE  IInv'
<1>1. Types'
  BY SignedFacts DEF IInv, Types, Renew, copyVars, nodeVars, jobVars, countVars
<1>2. JobInv'
  BY DEF IInv, Renew, JobInv, jobVars, countVars, nodeVars
<1>3. CopyInv'
  BY DEF IInv, Renew, CopyInv, copyVars, jobVars, nodeVars
<1>4. SigInv'
  BY SignedFacts DEF SigInv, Renew
<1>5. SecretInv'
  BY DEF IInv, Renew, SecretInv, copyVars, jobVars, countVars, nodeVars
<1>6. TimeInv'
  <2> SUFFICES ASSUME forced = 0, failures = 0 PROVE TimeInv'
    BY DEF TimeInv, Renew, countVars
  <2>1. sig'.key = count[p] /\ sig'.age = 0 /\ mode[p] = "up"
    BY SignedFacts DEF Renew
  <2>2. /\ ring # None /\ ring \in Rows /\ ring.count \in Nat /\ ring.rotateIn \in Nat
        /\ count[p] \in Nat /\ timer[p] \in 0..Tick
    BY <2>1 DEF IInv, Types, TimeInv, Rows
  <2>3. count[p] = ring.count \/ (count[p] + 1 = ring.count /\ Elapsed <= Tick)
    BY <2>1, <2>2, KeyringAssumption DEF IInv, TimeInv, Elapsed
  <2>4. sig'.key < ring.count => (ring.count - sig'.key - 1) * Rotation + Elapsed <= sig'.age + Tick
    BY <2>1, <2>2, <2>3, KeyringAssumption DEF Elapsed
  <2> QED BY <2>1, <2>2, <2>3, <2>4 DEF IInv, TimeInv, Renew, copyVars, nodeVars, jobVars,
     countVars, Elapsed
<1> QED BY <1>1, <1>2, <1>3, <1>4, <1>5, <1>6 DEF IInv

LEMMA PassIInv ==
  ASSUME IInv, Pass
  PROVE  IInv'
<1>1. Types'
  <2>1. timer' \in [Nodes -> 0..Tick]
    BY KeyringAssumption DEF IInv, Types, Pass
  <2>2. ring' \in Rows \cup {None}
    <3>1. CASE ring = None
      BY <3>1 DEF Pass
    <3>2. CASE ring # None
      BY <3>2, PassRow DEF IInv
    <3> QED BY <3>1, <3>2
  <2>3. sig' = None \/ sig' \in [key : Nat, index : Indexes, age : 0..MaxAge]
    <3>1. MaxAge \in Nat
      BY KeyringAssumption DEF MaxAge
    <3> QED BY <3>1 DEF IInv, Types, Pass, Upto
  <2> QED BY <2>1, <2>2, <2>3 DEF IInv, Types, Pass, copyVars, jobVars, countVars
<1>2. JobInv'
  BY DEF IInv, Pass, JobInv, jobVars
<1>3. CopyInv'
  BY DEF IInv, Pass, CopyInv, copyVars, jobVars
<1>4. SigInv'
  BY DEF IInv, Pass, SigInv
<1>5. SecretInv'
  BY DEF IInv, Pass, SecretInv, copyVars, jobVars, countVars
<1>6. TimeInv'
  <2> SUFFICES ASSUME forced = 0, failures = 0, ring # None PROVE TimeInv'
    BY DEF IInv, JobInv, TimeInv, Pass, copyVars, jobVars, countVars
  <2>1. ring \in Rows /\ ring.count \in Nat /\ ring.rotateIn \in 0..Rotation
    BY DEF IInv, Types, Rows
  <2>2. /\ ring' \in Rows /\ ring' # None /\ ring'.count = ring.count
        /\ ring'.rotateIn = IF ring.rotateIn = 0 THEN 0 ELSE ring.rotateIn - 1
    BY PassRow DEF IInv
  <2>3. Elapsed \in Nat /\ Elapsed' \in Nat /\ Elapsed' <= Elapsed + 1
    BY <2>1, <2>2, KeyringAssumption DEF Elapsed
  <2>4. \A q \in Nodes : phase'[q] = "idle" /\ job'[q] = "none" /\ job[q] = "none"
    BY DEF IInv, JobInv, Pass, jobVars
  <2>5. ASSUME NEW q \in Nodes, mode'[q] = "up"
        PROVE  \/ count'[q] = ring'.count
               \/ count'[q] + 1 = ring'.count /\ Elapsed' <= timer'[q]
    <3>1. timer'[q] = timer[q] + 1 /\ count'[q] = count[q] /\ timer[q] \in Nat
      BY <2>5 DEF IInv, Types, Pass, copyVars
    <3>2. \/ count[q] = ring.count
          \/ count[q] + 1 = ring.count /\ Elapsed <= timer[q]
      BY <2>4, <2>5 DEF IInv, TimeInv, Pass
    <3> QED BY <2>2, <2>3, <3>1, <3>2
  <2>6. ASSUME sig' # None
        PROVE  /\ sig # None /\ sig \in [key : Nat, index : Indexes, age : 0..MaxAge]
               /\ sig'.key = sig.key /\ sig'.age = Upto(sig.age + 1, MaxAge)
    BY <2>6 DEF IInv, Types, Pass
  <2>7. ASSUME sig' # None, sig'.key < ring'.count, sig'.age < MaxAge
        PROVE  (ring'.count - sig'.key - 1) * Rotation + Elapsed' <= sig'.age + Tick
    <3>1. MaxAge \in Nat /\ Tick \in Nat
      BY KeyringAssumption DEF MaxAge
    <3>2. sig.age \in Nat /\ sig.key \in Nat /\ sig'.age = sig.age + 1 /\ sig.age < MaxAge
      BY <2>6, <2>7, <3>1 DEF Upto
    <3>3. (ring.count - sig.key - 1) * Rotation + Elapsed <= sig.age + Tick
      BY <2>2, <2>6, <2>7, <3>2 DEF IInv, TimeInv
    <3>4. (ring.count - sig.key - 1) * Rotation \in Int
      BY <2>1, <3>2, Times
    <3> QED BY <2>2, <2>3, <2>6, <2>7, <3>1, <3>2, <3>3, <3>4
  <2>8. sig' # None => sig'.key <= ring'.count
    BY <2>2, <2>6 DEF IInv, TimeInv
  <2> QED BY <2>2, <2>4, <2>5, <2>7, <2>8 DEF TimeInv
<1> QED BY <1>1, <1>2, <1>3, <1>4, <1>5, <1>6 DEF IInv

LEMMA KeepIInv == ASSUME IInv, NEW p \in Nodes, Keep(p) PROVE IInv'
<1>1. ring \in Rows /\ Copies(p, ring) /\ job[p] # "none" /\ ring # None
  BY DEF IInv, Types, Keep, Refreshing, Copies
<1>2. Exact(ring.keys, ring.count) /\ (misreads = 0 => ring.sign.ok)
  BY <1>1 DEF IInv, CopyInv, SecretInv
<1> QED BY <1>1, <1>2, CopiesIInv

LEMMA MakeCopyIInv == ASSUME IInv, NEW p \in Nodes, MakeCopy(p) PROVE IInv'
<1>1. /\ fetched[p] \in Rows /\ Copies(p, fetched[p])
      /\ job[p] # "none" /\ ring # None /\ phase[p] = "apply"
  BY DEF IInv, Types, JobInv, MakeCopy, Copies
<1>2. Exact(fetched[p].keys, fetched[p].count) /\ (misreads = 0 => fetched[p].sign.ok)
  BY <1>1 DEF IInv, CopyInv, SecretInv
<1>3. forced = 0 /\ failures = 0 => fetched[p].count = ring.count
  BY <1>1 DEF IInv, TimeInv
<1> QED BY <1>1, <1>2, <1>3, CopiesIInv

LEMMA InitIInv == Init => IInv
<1> SUFFICES ASSUME Init PROVE IInv
  OBVIOUS
<1>1. [b \in {} |-> 0] \in KeyMaps
  <2>1. [b \in {} |-> 0] \in [{} -> Int]
    OBVIOUS
  <2> QED BY <2>1 DEF KeyMaps
<1>2. (CHOOSE l \in Lists : TRUE) \in Lists
  BY SecretsAssumption
<1>3. Types
  BY <1>1, <1>2, KeyringAssumption DEF Init, Types
<1>4. JobInv /\ CopyInv /\ SigInv /\ SecretInv /\ TimeInv
  BY DEF Init, JobInv, CopyInv, SigInv, SecretInv, TimeInv
<1> QED BY <1>3, <1>4 DEF IInv

LEMMA NextIInv == IInv /\ [Next]_vars => IInv'
<1> SUFFICES ASSUME IInv, [Next]_vars PROVE IInv'
  OBVIOUS
<1>1. CASE UNCHANGED vars
  BY <1>1 DEF vars, copyVars, nodeVars, jobVars, countVars, IInv, Types, JobInv, CopyInv, SigInv,
     SecretInv, TimeInv, Elapsed
<1>2. CASE Pass
  BY <1>2, PassIInv
<1>3. ASSUME NEW p \in Nodes,
             \/ FindNone(p) \/ Keep(p) \/ Rotate(p) \/ CommitNewKeyring(p)
             \/ Reread(p) \/ MakeCopy(p) \/ RefreshFails(p)
      PROVE  IInv'
  BY <1>3, FindNoneIInv, KeepIInv, RotateIInv, CommitNewKeyringIInv, RereadIInv, MakeCopyIInv,
     RefreshFailsIInv
<1>4. ASSUME NEW p \in Nodes,
             \/ NewDB(p) \/ LoopTick(p) \/ RotateKeys(p) \/ Shutdown(p) \/ Exit(p)
             \/ ReEncryptAll(p) \/ Sign(p) \/ Renew(p)
      PROVE  IInv'
  BY <1>4, NewDBIInv, LoopTickIInv, RotateKeysIInv, ShutdownIInv, ExitIInv, ReEncryptAllIInv,
     SignIInv, RenewIInv
<1> QED BY <1>1, <1>2, <1>3, <1>4 DEF Next

(* What every reachable state satisfies: the row and the copies hold       *)
(* exactly the keys of the rotations around their own count (store.go).    *)
THEOREM Inductive == Spec => []IInv
BY InitIInv, NextIInv, PTL DEF Spec

----------------------------------------------------------------------------
(* The results                                                             *)

(* What a node with an exact copy says of a signature. *)
LEMMA VerifiesWindow ==
    ASSUME IInv, NEW p \in Nodes, mode[p] = "up", sig # None
    PROVE  /\ Verifies(p, sig) <=> sig.key \in (count[p] - MaxOldKeys)..(count[p] + 1)
           /\ Verifies(p, sig) => (OldKey(p, sig) <=> sig.key < count[p])
<1>1. count[p] \in Nat /\ sig.key \in Nat /\ MaxOldKeys \in Nat
  BY KeyringAssumption DEF IInv, Types
<1>2. Exact(keys[p], count[p]) /\ sig.index = Byte(sig.key)
  BY DEF IInv, CopyInv, SigInv
<1>3. Verifies(p, sig) <=> sig.key \in Window(count[p])
  <2>1. ASSUME Verifies(p, sig) PROVE sig.key \in Window(count[p])
    <3>1. PICK i \in Window(count[p]) : sig.index = Byte(i)
      BY <1>2, <2>1 DEF Verifies, Exact
    <3> QED BY <1>2, <2>1, <3>1 DEF Verifies, Exact
  <2>2. ASSUME sig.key \in Window(count[p]) PROVE Verifies(p, sig)
    BY <1>2, <2>2 DEF Verifies, Exact
  <2> QED BY <2>1, <2>2
<1>4. sig.key \in Window(count[p]) <=> sig.key \in (count[p] - MaxOldKeys)..(count[p] + 1)
  BY <1>1 DEF Window
<1>5. ASSUME sig.key \in Window(count[p])
      PROVE  /\ Byte(sig.key) = Byte(count[p]) <=> sig.key = count[p]
             /\ Byte(sig.key) = Byte(count[p] + 1) <=> sig.key = count[p] + 1
  BY <1>1, <1>5, WindowInjective DEF Window
<1>6. sig.key \in Window(count[p]) => (OldKey(p, sig) <=> sig.key < count[p])
  BY <1>1, <1>2, <1>5 DEF OldKey, Window
<1> QED BY <1>3, <1>4, <1>6

(* A node accepts exactly the signatures of the keys from MaxOldKeys       *)
(* rotations ago to the next one, and calls those before its own old: for  *)
(* any number of rotations, wrapped indexes included, and for any race     *)
(* between nodes that create, rotate, refresh and restart.                 *)
THEOREM AcceptsExactly == Spec => []VerifiesExactly
<1>1. IInv => VerifiesExactly
  <2> SUFFICES ASSUME IInv PROVE VerifiesExactly
    OBVIOUS
  <2>1. \A m \in KeyMaps : DOMAIN m \subseteq 0..(Keyspace - 1)
    BY DEF KeyMaps, Indexes
  <2>2. ring = None \/ (DOMAIN ring.keys \subseteq 0..(Keyspace - 1) /\ ring.rotateIn \in 0..Rotation)
    BY <2>1 DEF IInv, Types, Rows
  <2>3. KeyringTypeOK
    BY <2>1, <2>2 DEF IInv, Types, JobInv, KeyringTypeOK, Indexes
  <2> QED BY <2>3, VerifiesWindow DEF VerifiesExactly
<1> QED BY <1>1, Inductive, PTL

(* A node that has all the secrets can sign, whichever nodes rotated the   *)
(* keys or encrypted them again, unless a secret was mistaken for another. *)
THEOREM AlwaysCanSign == Spec => []CanSign
<1>1. IInv => CanSign
  BY DEF IInv, SecretInv, CanSign
<1> QED BY <1>1, Inductive, PTL

(* Without forced rotations and failed refreshes a signature is accepted   *)
(* by every node for MaxOldKeys rotation times less one tick of the loop.  *)
THEOREM AcceptedLongEnough == Spec => []ValidLongEnough
<1>1. IInv => ValidLongEnough
  <2> SUFFICES ASSUME IInv, sig # None, forced = 0, failures = 0, sig.age + Tick < MaxAge,
                      NEW p \in Nodes, mode[p] = "up"
               PROVE  Verifies(p, sig)
    BY DEF ValidLongEnough
  <2>1. /\ MaxOldKeys \in Nat /\ Tick \in Nat \ {0} /\ Rotation \in Nat \ {0}
        /\ MaxAge = MaxOldKeys * Rotation /\ MaxAge \in Nat
    BY KeyringAssumption DEF MaxAge
  <2>2. /\ ring \in Rows /\ ring # None /\ ring.count \in Nat /\ Elapsed \in Nat
        /\ count[p] \in Nat /\ sig.key \in Nat /\ sig.age \in Nat
    BY <2>1 DEF IInv, Types, TimeInv, Rows, Elapsed
  <2>3. count[p] \in {ring.count - 1, ring.count} /\ sig.key <= ring.count
    BY <2>2 DEF IInv, TimeInv
  <2>4. ring.count - sig.key <= MaxOldKeys
    <3> DEFINE d == ring.count - sig.key - 1
    <3>1. CASE sig.key = ring.count
      BY <2>1, <2>2, <3>1
    <3>2. CASE sig.key # ring.count
      <4>1. d * Rotation + Elapsed <= sig.age + Tick
        BY <2>1, <2>2, <2>3, <3>2 DEF IInv, TimeInv
      <4>2. d \in Nat
        BY <2>2, <2>3, <3>2
      <4> HIDE DEF d
      <4>3. d * Rotation < MaxOldKeys * Rotation
        BY <2>1, <2>2, <4>1, <4>2, Times
      <4>4. d < MaxOldKeys
        <5>1. \A x, y \in Nat : x >= y => x * Rotation >= y * Rotation
          BY <2>1
        <5> QED BY <2>1, <4>2, <4>3, <5>1
      <4> QED BY <2>1, <2>2, <4>4 DEF d
    <3> QED BY <3>1, <3>2
  <2>5. sig.key \in (count[p] - MaxOldKeys)..(count[p] + 1)
    BY <2>1, <2>2, <2>3, <2>4
  <2> QED BY <2>5, VerifiesWindow
<1> QED BY <1>1, Inductive, PTL

(* A session is never signed again with an older key, although the nodes   *)
(* it meets know different rotations.                                      *)
THEOREM NeverRenewsBack == Spec => RenewsForward
<1>1. IInv /\ [Next]_vars => [(\E p \in Nodes : Renew(p)) => sig'.key > sig.key]_vars
  <2> SUFFICES ASSUME IInv, NEW p \in Nodes, Renew(p) PROVE sig'.key > sig.key
    OBVIOUS
  <2>1. /\ mode[p] = "up" /\ sig # None /\ signingKey[p] # None
        /\ Verifies(p, sig) /\ OldKey(p, sig) /\ sig' = Signed(p)
    BY DEF Renew
  <2>2. sig'.key = count[p]
    BY <2>1, SignedFacts
  <2>3. sig.key < count[p]
    BY <2>1, VerifiesWindow
  <2>4. count[p] \in Nat /\ sig.key \in Nat
    BY <2>1 DEF IInv, Types
  <2> QED BY <2>2, <2>3, <2>4
<1> QED BY <1>1, Inductive, PTL DEF Spec, RenewsForward
=============================================================================
