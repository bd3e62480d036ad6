---------------------------- MODULE ThrottleProofs ----------------------------
(***************************************************************************)
(* What Throttle says of its limits, for any attempts, peers, limits and    *)
(* windows, and any number of outages.                                      *)
(***************************************************************************)
EXTENDS Throttle, FiniteSetTheorems, TLAPS

-----------------------------------------------------------------------------
\* The invariant, conjunct by conjunct.

Claiming == {"add", "incr", "set"}
Checked == {"authenticate", "failed", "forget", "refund"}
Buckets == {"address", "account", "biometric"}
Active ==
  [pc : Claiming \cup Checked, machine : {p.machine : p \in Peers}, key : Keys, address : Keys,
   own : Keys]
Over == [pc : {"unasked", "refused", "in"}]
Typed ==
  /\ cache \in [Keys -> [count : Int, left : Nat]]
  /\ window \in 0..MaxWindow /\ rest \in 1..Window
  /\ attempt \in [Attempts -> Active \cup Over]
  /\ held \in [Keys -> SUBSET Attempts] /\ raced \subseteq Keys
  /\ strays \in [Keys -> Nat] /\ outages \in Nat

\* An attempt under way: which buckets it claims, in which order, and where.
Shape(x, w) ==
  /\ \/ x.address = x.own /\ x.own.bucket = "biometric"
     \/ x.address.bucket = "address" /\ x.own.bucket = "account"
  /\ x.key \in {x.address, x.own}
  /\ x.pc \in Checked => x.key = x.own
  /\ x.pc = "refund" => x.address # x.own
  /\ \E p \in Peers : /\ p.machine = x.machine
                      /\ x.address.address = Address(p) /\ x.own.address = Address(p)
  /\ x.address.bucket = "address" => x.address.of <= w

\* An attempt whose record is x and whose claim is held for key k.
Claim(x, k) ==
  /\ x.pc # "unasked"
  /\ x.pc \in Claiming \cup Checked =>
       /\ k \in {x.address, x.own}
       /\ x.pc \in Claiming => k # x.key /\ k = x.address
  /\ x.pc = "in" => outages > 0
  /\ x.pc = "refund" /\ k = x.own => outages > 0

\* A claim on the address stands while its window does, and after that for as
\* long as the bucket that counted it runs, unless a late claim writes it over.
Stands(a, x) ==
  (/\ x.pc \in Claiming \cup Checked /\ x.address.bucket = "address" /\ x.key = x.own
   /\ x.address.of = window \/ (Running(x.address) /\ ~Late(x.address)))
  => a \in held[x.address]
Lasts(k) ==
  k.bucket = "address" /\ Running(k) => k.of <= window /\ (k.of = window => cache[k].left >= rest)
Empty(k) == ~Running(k) => cache[k].count = 0

\* The attempts held for a key that were let past its bucket, if it is the
\* bucket they claim, and those whose claim stands.
PastIn(att, h) == {a \in h : att[a].pc \notin {"refused", "in"}}
StandIn(att, h, n) == {a \in h : n > 0 \/ att[a].pc # "in"}
Bounded(k) ==
  LET past == Cardinality(PastIn(attempt, held[k])) IN
  /\ k \notin raced => /\ past <= cache[k].count + outages + strays[k]
                       /\ past <= LimitOf(k.bucket) + outages + strays[k]
  /\ Running(k) => cache[k].count <= Cardinality(StandIn(attempt, held[k], outages))

Shapes == \A a \in Attempts : attempt[a].pc \in Claiming \cup Checked => Shape(attempt[a], window)
ClaimsHeld == \A k \in Keys : \A a \in held[k] : Claim(attempt[a], k)
IInv ==
  /\ Typed /\ Shapes /\ ClaimsHeld
  /\ \A a \in Attempts : Stands(a, attempt[a])
  /\ \A k \in Keys : Lasts(k) /\ Empty(k) /\ Bounded(k)
  /\ RefundsOwn

-----------------------------------------------------------------------------
\* Keys and sets.

LEMMA KeysAre ==
  ASSUME NEW p \in Peers
  PROVE  /\ \A w \in 0..MaxWindow : AddressKey(p, w) \in Keys
         /\ \A n \in Names : AccountKey(p, n) \in Keys
         /\ \A t \in Tokens : BiometricKey(p, t) \in Keys
BY DEF AddressKey, AccountKey, BiometricKey, Keys

LEMMA KeyIs ==
  ASSUME NEW k \in Keys
  PROVE  /\ k = [bucket |-> k.bucket, address |-> k.address, of |-> k.of]
         /\ k.bucket = "address" => k.of \in 0..MaxWindow
BY DEF Keys

LEMMA TimeoutIs ==
  ASSUME NEW k \in Keys
  PROVE  /\ Timeout(k) \in Nat \ {0} /\ LimitOf(k.bucket) \in Nat \ {0}
         /\ k.bucket = "address" => Timeout(k) = Window
<1>1. /\ AddressLimit \in Nat \ {0} /\ AccountLimit \in Nat \ {0} /\ BiometricLimit \in Nat \ {0}
      /\ Window \in Nat \ {0} /\ BiometricWindow \in Nat \ {0}
  BY LimitsAssumption
<1>2. Timeout(k) \in Nat \ {0} /\ (k.bucket = "address" => Timeout(k) = Window)
  BY <1>1 DEF Timeout
<1>3. LimitOf(k.bucket) \in Nat \ {0}
  BY <1>1 DEF LimitOf
<1> QED
  BY <1>2, <1>3

LEMMA Sizes ==
  ASSUME NEW att, NEW h \in SUBSET Attempts, NEW n
  PROVE  /\ IsFiniteSet(PastIn(att, h)) /\ Cardinality(PastIn(att, h)) \in Nat
         /\ IsFiniteSet(StandIn(att, h, n)) /\ Cardinality(StandIn(att, h, n)) \in Nat
<1>1. IsFiniteSet(h)
  BY AttemptsAssumption, FS_Subset
<1>2. PastIn(att, h) \in SUBSET h /\ StandIn(att, h, n) \in SUBSET h
  BY DEF PastIn, StandIn
<1>3. IsFiniteSet(PastIn(att, h)) /\ IsFiniteSet(StandIn(att, h, n))
  BY <1>1, <1>2, FS_Subset
<1> QED
  BY <1>3, FS_CardinalityType

LEMMA Fewer ==
  ASSUME NEW S, IsFiniteSet(S), NEW T, T \subseteq S
  PROVE  IsFiniteSet(T) /\ Cardinality(T) \in Nat /\ Cardinality(T) <= Cardinality(S)
         /\ Cardinality(S) \in Nat
BY FS_Subset, FS_CardinalityType

LEMMA OneMore ==
  ASSUME NEW S, IsFiniteSet(S), NEW x
  PROVE  /\ IsFiniteSet(S \cup {x}) /\ Cardinality(S \cup {x}) <= Cardinality(S) + 1
         /\ x \notin S => Cardinality(S \cup {x}) = Cardinality(S) + 1
<1>1. Cardinality(S) \in Nat
  BY FS_CardinalityType
<1>2. /\ IsFiniteSet(S \cup {x})
      /\ Cardinality(S \cup {x}) = IF x \in S THEN Cardinality(S) ELSE Cardinality(S) + 1
  BY FS_AddElement
<1> QED
  BY <1>1, <1>2

\* A bucket whose attempts and count move the way its bounds allow.
LEMMA BoundKept ==
  ASSUME IInv, NEW k \in Keys, held'[k] \subseteq Attempts, held[k] \subseteq Attempts,
         PastIn(attempt', held'[k]) \subseteq PastIn(attempt, held[k]),
         StandIn(attempt, held[k], outages) \subseteq StandIn(attempt', held'[k], outages'),
         outages' \in Nat, outages <= outages', k \in raced => k \in raced',
         strays'[k] = strays[k],
         cache'[k].count \in Int, cache[k].count + outages <= cache'[k].count + outages',
         Running(k)' => cache'[k].count <= 0 \/ (Running(k) /\ cache'[k].count <= cache[k].count)
  PROVE  Bounded(k)'
<1> DEFINE P == PastIn(attempt, held[k])
           Q == PastIn(attempt', held'[k])
           S == StandIn(attempt, held[k], outages)
           T == StandIn(attempt', held'[k], outages')
<1>1. /\ Cardinality(P) \in Nat /\ Cardinality(Q) \in Nat /\ Cardinality(Q) <= Cardinality(P)
      /\ Cardinality(S) \in Nat /\ Cardinality(T) \in Nat /\ Cardinality(S) <= Cardinality(T)
  BY Sizes, Fewer
<1>2. outages \in Nat /\ cache[k].count \in Int /\ LimitOf(k.bucket) \in Nat
      /\ strays[k] \in Nat
  BY TimeoutIs DEF IInv, Typed
<1>3. /\ k \notin raced => Cardinality(P) <= cache[k].count + outages + strays[k]
                           /\ Cardinality(P) <= LimitOf(k.bucket) + outages + strays[k]
      /\ Running(k) => cache[k].count <= Cardinality(S)
  BY DEF IInv, Bounded
<1> HIDE DEF P, Q, S, T
<1>4. k \notin raced' => /\ Cardinality(Q) <= cache'[k].count + outages' + strays'[k]
                         /\ Cardinality(Q) <= LimitOf(k.bucket) + outages' + strays'[k]
  BY <1>1, <1>2, <1>3
<1>5. Running(k)' => cache'[k].count <= Cardinality(T)
  BY <1>1, <1>2, <1>3
<1> QED
  BY <1>4, <1>5 DEF Bounded, Q, T

-----------------------------------------------------------------------------
\* Every action keeps the invariant.

LEMMA StartHolds ==
  ASSUME ThrottleInit
  PROVE  IInv
<1>1. /\ \A k \in Keys : cache[k] = Missing /\ held[k] = {} /\ cache[k].count = 0 /\ ~Running(k)
      /\ \A a \in Attempts : attempt[a] = Unasked /\ attempt[a].pc = "unasked"
      /\ window = 0 /\ rest = Window /\ raced = {} /\ outages = 0
      /\ \A k \in Keys : strays[k] = 0
  BY DEF ThrottleInit, Missing, Unasked, Running
<1>2. Typed
  <2>1. Missing \in [count : Int, left : Nat] /\ Unasked \in Active \cup Over
    BY DEF Missing, Unasked, Over
  <2>2. 0 \in 0..MaxWindow /\ Window \in 1..Window
    BY BoundsAssumption, LimitsAssumption
  <2> QED
    BY <1>1, <2>1, <2>2 DEF ThrottleInit, Typed
<1>3. Shapes /\ ClaimsHeld
  BY <1>1 DEF Shapes, ClaimsHeld, Claiming, Checked
<1>4. ASSUME NEW a \in Attempts
      PROVE  Stands(a, attempt[a])
  BY <1>1 DEF Stands, Claiming, Checked
<1>5. ASSUME NEW k \in Keys
      PROVE  Lasts(k) /\ Empty(k) /\ Bounded(k)
  <2>1. PastIn(attempt, {}) = {} /\ Cardinality({}) = 0
    BY FS_EmptySet DEF PastIn
  <2>2. LimitOf(k.bucket) \in Nat
    BY TimeoutIs
  <2>3. Cardinality(PastIn(attempt, held[k])) = 0 /\ strays[k] = 0 /\ outages = 0
        /\ cache[k].count = 0 /\ ~Running(k)
    BY <1>1, <2>1
  <2>4. Bounded(k)
    BY <2>2, <2>3 DEF Bounded
  <2> QED
    BY <2>3, <2>4 DEF Lasts, Empty
<1> QED
  BY <1>1, <1>2, <1>3, <1>4, <1>5 DEF IInv, RefundsOwn

\* Attempt a goes on to record y, and the others rest.
Steps(a, y) == attempt' = [attempt EXCEPT ![a] = y]
LEMMA Stepped ==
  ASSUME Typed, NEW a \in Attempts, NEW y \in Active \cup Over, Steps(a, y)
  PROVE  /\ attempt' \in [Attempts -> Active \cup Over] /\ attempt'[a] = y
         /\ \A b \in Attempts \ {a} : attempt'[b] = attempt[b]
BY DEF Typed, Steps

\* What an attempt holds, by its phase.
LEMMA Phases ==
  ASSUME Typed, NEW a \in Attempts
  PROVE  /\ attempt[a] \in Active \cup Over
         /\ attempt[a].pc \in Claiming \cup Checked =>
              /\ attempt[a] \in Active
              /\ {attempt[a].key, attempt[a].address, attempt[a].own} \subseteq Keys
         /\ \A pc \in Claiming \cup Checked : attempt[a] \in Active =>
              LET y == [attempt[a] EXCEPT !.pc = pc] IN
              /\ y \in Active /\ y.pc = pc /\ y.machine = attempt[a].machine
              /\ y.key = attempt[a].key /\ y.address = attempt[a].address /\ y.own = attempt[a].own
<1>1. attempt[a] \in Active \cup Over
  BY DEF Typed
<1>2. attempt[a].pc \in Claiming \cup Checked => attempt[a] \in Active
  BY <1>1 DEF Over, Claiming, Checked
<1>3. attempt[a] \in Active => {attempt[a].key, attempt[a].address, attempt[a].own} \subseteq Keys
  BY DEF Active
<1>4. ASSUME NEW pc \in Claiming \cup Checked, attempt[a] \in Active
      PROVE  LET y == [attempt[a] EXCEPT !.pc = pc] IN
             /\ y \in Active /\ y.pc = pc /\ y.machine = attempt[a].machine
             /\ y.key = attempt[a].key /\ y.address = attempt[a].address /\ y.own = attempt[a].own
  BY <1>4 DEF Active
<1> QED
  BY <1>1, <1>2, <1>3, <1>4

\* A step of one attempt that touches no bucket: it may not leave a claim of
\* its own behind, nor come in with one.
LEMMA BucketsRest ==
  ASSUME IInv, NEW a \in Attempts, NEW y \in Active \cup Over, Steps(a, y),
         UNCHANGED <<cache, window, rest, held, raced, strays, outages>>,
         y.pc \in Claiming \cup Checked => Shape(y, window),
         \A k \in Keys : a \in held[k] => Claim(y, k),
         Stands(a, y), y.pc # "in", y.pc = "refused" \/ attempt[a].pc # "refused",
         attempt[a].pc # "in"
  PROVE  IInv'
<1>1. /\ attempt' \in [Attempts -> Active \cup Over] /\ attempt'[a] = y
      /\ \A b \in Attempts \ {a} : attempt'[b] = attempt[b]
  BY Stepped DEF IInv
<1>2. Typed'
  BY <1>1 DEF IInv, Typed
<1>3. Shapes'
  BY <1>1 DEF IInv, Shapes, Shape
<1>4. ClaimsHeld'
  BY <1>1 DEF IInv, Typed, ClaimsHeld, Claim
<1>5. ASSUME NEW b \in Attempts
      PROVE  Stands(b, attempt[b])'
  BY <1>1 DEF IInv, Stands, Running, Late
<1>6. ASSUME NEW k \in Keys
      PROVE  (Lasts(k) /\ Empty(k) /\ Bounded(k))'
  <2>1. (Lasts(k) /\ Empty(k))'
    BY DEF IInv, Lasts, Empty, Running
  <2>2. held[k] \subseteq Attempts
    BY DEF IInv, Typed
  <2>3. PastIn(attempt', held'[k]) \subseteq PastIn(attempt, held[k])
    BY <1>1, <2>2 DEF PastIn
  <2>4. StandIn(attempt, held[k], outages) \subseteq StandIn(attempt', held'[k], outages')
    BY <1>1, <2>2 DEF StandIn
  <2>5. Bounded(k)'
    BY <2>2, <2>3, <2>4, BoundKept DEF IInv, Typed, Running
  <2> QED
    BY <2>1, <2>5
<1>7. RefundsOwn'
  BY DEF IInv, RefundsOwn, Late, Running
<1> QED
  BY <1>2, <1>3, <1>4, <1>5, <1>6, <1>7 DEF IInv

LEMMA AskPasswordKeeps ==
  ASSUME IInv, NEW a \in Attempts, AskPassword(a)
  PROVE  IInv'
<1>1. PICK p \in Peers, n \in Names :
        Steps(a, [pc |-> "add", machine |-> p.machine, key |-> AddressKey(p, window),
                  address |-> AddressKey(p, window), own |-> AccountKey(p, n)])
  BY DEF AskPassword, Steps
<1> DEFINE y == [pc |-> "add", machine |-> p.machine, key |-> AddressKey(p, window),
                 address |-> AddressKey(p, window), own |-> AccountKey(p, n)]
<1>2. window \in 0..MaxWindow /\ attempt[a].pc = "unasked"
  BY DEF IInv, Typed, AskPassword
<1>3. y \in Active
  BY <1>2, KeysAre DEF Active, Claiming
<1>4. Shape(y, window)
  BY <1>2 DEF Shape, AddressKey, AccountKey, Claiming, Checked
<1>5. Stands(a, y)
  BY DEF Stands, AddressKey, AccountKey
<1>6. \A k \in Keys : a \notin held[k]
  BY <1>2 DEF IInv, ClaimsHeld, Claim
<1>7. Steps(a, y) /\ UNCHANGED <<cache, window, rest, held, raced, strays, outages>> /\ y.pc = "add"
  BY <1>1 DEF AskPassword
<1> HIDE DEF y
<1> QED
  BY <1>2, <1>3, <1>4, <1>5, <1>6, <1>7, BucketsRest

LEMMA AskBiometricKeeps ==
  ASSUME IInv, NEW a \in Attempts, AskBiometric(a)
  PROVE  IInv'
<1>1. PICK p \in Peers, t \in Tokens :
        Steps(a, [pc |-> "add", machine |-> p.machine, key |-> BiometricKey(p, t),
                  address |-> BiometricKey(p, t), own |-> BiometricKey(p, t)])
  BY DEF AskBiometric, Steps
<1> DEFINE y == [pc |-> "add", machine |-> p.machine, key |-> BiometricKey(p, t),
                 address |-> BiometricKey(p, t), own |-> BiometricKey(p, t)]
<1>2. attempt[a].pc = "unasked"
  BY DEF AskBiometric
<1>3. y \in Active
  BY KeysAre DEF Active, Claiming
<1>4. Shape(y, window)
  BY DEF Shape, BiometricKey, Claiming, Checked
<1>5. Stands(a, y)
  BY DEF Stands, BiometricKey
<1>6. \A k \in Keys : a \notin held[k]
  BY <1>2 DEF IInv, ClaimsHeld, Claim
<1>7. Steps(a, y) /\ UNCHANGED <<cache, window, rest, held, raced, strays, outages>> /\ y.pc = "add"
  BY <1>1 DEF AskBiometric
<1> HIDE DEF y
<1> QED
  BY <1>2, <1>3, <1>4, <1>5, <1>6, <1>7, BucketsRest

\* An attempt goes on, or is over.
LEMMA GoesOn ==
  ASSUME Typed, NEW a \in Attempts, NEW pc, Goes(a, pc)
  PROVE  Steps(a, IF pc \in {"refused", "in"} THEN [pc |-> pc] ELSE [attempt[a] EXCEPT !.pc = pc])
BY DEF Goes, Steps, Typed

LEMMA IncrMissedKeeps ==
  ASSUME IInv, NEW a \in Attempts, IncrMissed(a)
  PROVE  IInv'
<1> DEFINE x == attempt[a]
           y == [attempt[a] EXCEPT !.pc = "set"]
<1>1. x.pc = "incr" /\ Steps(a, y)
      /\ UNCHANGED <<cache, window, rest, held, raced, strays, outages>>
  BY GoesOn DEF IncrMissed, IInv
<1>2. {"incr", "set"} \subseteq Claiming
  BY DEF Claiming
<1>3. /\ y \in Active /\ y.pc = "set" /\ y.machine = x.machine
      /\ y.key = x.key /\ y.address = x.address /\ y.own = x.own
  BY <1>1, <1>2, Phases DEF IInv
<1> HIDE DEF y
<1>4. Shape(y, window)
  BY <1>1, <1>3 DEF IInv, Shapes, Shape, Claiming, Checked
<1>5. \A k \in Keys : a \in held[k] => Claim(y, k)
  BY <1>1, <1>3 DEF IInv, ClaimsHeld, Claim, Claiming, Checked
<1>6. Stands(a, y)
  BY <1>1, <1>3 DEF IInv, Stands, Claiming, Checked
<1> QED
  BY <1>1, <1>3, <1>4, <1>5, <1>6, BucketsRest

LEMMA AuthenticateKeeps ==
  ASSUME IInv, NEW a \in Attempts, Authenticate(a)
  PROVE  IInv'
<1>1. PICK pc \in {"failed", "forget"} : Goes(a, pc)
  BY DEF Authenticate
<1> DEFINE x == attempt[a]
           y == [attempt[a] EXCEPT !.pc = pc]
<1>2. x.pc = "authenticate" /\ Steps(a, y)
      /\ UNCHANGED <<cache, window, rest, held, raced, strays, outages>>
  BY <1>1, GoesOn DEF Authenticate, IInv
<1>3. {"authenticate", "failed", "forget"} \subseteq Checked
  BY DEF Checked
<1>4. /\ y \in Active /\ y.pc = pc /\ y.machine = x.machine
      /\ y.key = x.key /\ y.address = x.address /\ y.own = x.own
  BY <1>2, <1>3, Phases DEF IInv
<1> HIDE DEF y
<1>5. Shape(y, window)
  BY <1>2, <1>4 DEF IInv, Shapes, Shape, Claiming, Checked
<1>6. \A k \in Keys : a \in held[k] => Claim(y, k)
  BY <1>2, <1>4 DEF IInv, ClaimsHeld, Claim, Claiming, Checked
<1>7. Stands(a, y)
  BY <1>2, <1>4 DEF IInv, Stands, Claiming, Checked
<1> QED
  BY <1>2, <1>4, <1>5, <1>6, <1>7, BucketsRest

\* A bucket is opened, unless it runs.
LEMMA OpenedIs ==
  ASSUME Typed, NEW k \in Keys
  PROVE  /\ Opened(k) \in [Keys -> [count : Int, left : Nat]]
         /\ \A j \in Keys \ {k} : Opened(k)[j] = cache[j]
         /\ Running(k) => Opened(k)[k] = cache[k]
         /\ ~Running(k) => Opened(k)[k].count = 0 /\ Opened(k)[k].left = Timeout(k)
BY TimeoutIs DEF Opened, Typed

\* What opens or writes over a bucket after its window makes it a late one.
LEMMA LateStays ==
  ASSUME Typed, NEW j \in Keys, UNCHANGED <<window, rest>>,
         \/ cache'[j].left = cache[j].left
         \/ cache'[j].left = Timeout(j) /\ (j.bucket = "address" => j.of <= window)
  PROVE  /\ Late(j) => Late(j)'
         /\ j.bucket = "address" /\ (j.of = window \/ (Running(j)' /\ ~Late(j)'))
              => j.of = window \/ (Running(j) /\ ~Late(j))
<1>1. /\ window \in Nat /\ rest \in 1..Window /\ cache[j].left \in Nat
      /\ Timeout(j) \in Nat \ {0} /\ (j.bucket = "address" => j.of \in Nat /\ Timeout(j) = Window)
      /\ Window \in Nat
  BY TimeoutIs, KeyIs, LimitsAssumption, BoundsAssumption DEF Typed
<1>2. CASE cache'[j].left = cache[j].left
  BY <1>1, <1>2 DEF Late, Running
<1>3. CASE cache'[j].left = Timeout(j) /\ (j.bucket = "address" => j.of <= window)
  BY <1>1, <1>3 DEF Late, Running
<1> QED
  BY <1>2, <1>3

LEMMA AddKeeps ==
  ASSUME IInv, NEW a \in Attempts, Add(a)
  PROVE  IInv'
<1> DEFINE x == attempt[a]
           k == x.key
           y == [attempt[a] EXCEPT !.pc = "incr"]
<1>1. x.pc = "add" /\ Steps(a, y) /\ UNCHANGED <<window, rest, held, raced, strays, outages>>
      /\ cache' = Opened(k)
  BY GoesOn DEF Add, IInv
<1>2. {"add", "incr"} \subseteq Claiming
  BY DEF Claiming
<1>3. /\ y \in Active /\ y.pc = "incr" /\ y.machine = x.machine
      /\ y.key = k /\ y.address = x.address /\ y.own = x.own /\ k \in Keys
  BY <1>1, <1>2, Phases DEF IInv
<1> HIDE DEF y
<1>4. /\ attempt' \in [Attempts -> Active \cup Over] /\ attempt'[a] = y
      /\ \A b \in Attempts \ {a} : attempt'[b] = attempt[b]
  BY <1>1, <1>3, Stepped DEF IInv
<1>5. /\ cache' \in [Keys -> [count : Int, left : Nat]]
      /\ \A j \in Keys \ {k} : cache'[j] = cache[j]
      /\ Running(k) => cache'[k] = cache[k]
      /\ ~Running(k) => cache'[k].count = 0 /\ cache'[k].left = Timeout(k)
  BY <1>1, <1>3, OpenedIs DEF IInv
<1>6. Typed'
  BY <1>1, <1>4, <1>5 DEF IInv, Typed
<1>7. Shapes'
  BY <1>1, <1>3, <1>4 DEF IInv, Shapes, Shape, Claiming, Checked
<1>8. ClaimsHeld'
  BY <1>1, <1>3, <1>4 DEF IInv, Typed, ClaimsHeld, Claim, Claiming, Checked
<1>9. k.bucket = "address" => k.of <= window
  BY <1>1 DEF IInv, Shapes, Shape, Claiming, Checked
<1>10. ASSUME NEW j \in Keys
       PROVE  /\ Late(j) => Late(j)'
              /\ j.bucket = "address" /\ (j.of = window \/ (Running(j)' /\ ~Late(j)'))
                   => j.of = window \/ (Running(j) /\ ~Late(j))
  BY <1>1, <1>5, <1>9, LateStays DEF IInv
<1>11. RefundsOwn'
  BY <1>1, <1>10 DEF IInv, RefundsOwn
<1>12. ASSUME NEW b \in Attempts
       PROVE  Stands(b, attempt[b])'
  <2>1. ASSUME NEW j \in Keys, j.bucket = "address",
               j.of = window \/ (Running(j)' /\ ~Late(j)')
        PROVE  j.of = window \/ (Running(j) /\ ~Late(j))
    BY <1>10, <2>1
  <2>2. attempt[b].pc \in Claiming \cup Checked => attempt[b].address \in Keys
    BY Phases DEF IInv
  <2>3. Stands(b, attempt[b])
    BY DEF IInv
  <2>4. attempt'[b].address = attempt[b].address
        /\ (attempt'[b].pc \in Claiming \cup Checked => attempt[b].pc \in Claiming \cup Checked)
        /\ attempt'[b].key = attempt[b].key /\ attempt'[b].own = attempt[b].own
    BY <1>1, <1>2, <1>3, <1>4
  <2> QED
    BY <1>1, <2>1, <2>2, <2>3, <2>4 DEF Stands
<1>13. ASSUME NEW j \in Keys
       PROVE  (Lasts(j) /\ Empty(j) /\ Bounded(j))'
  <2>1. Lasts(j)'
    BY <1>1, <1>5, <1>9, TimeoutIs DEF IInv, Typed, Lasts, Running
  <2>2. Empty(j)'
    BY <1>1, <1>5, TimeoutIs DEF IInv, Empty, Running
  <2>3. held[j] \subseteq Attempts
    BY DEF IInv, Typed
  <2>4. PastIn(attempt', held'[j]) \subseteq PastIn(attempt, held[j])
    BY <1>1, <1>4, <2>3 DEF PastIn
  <2>5. StandIn(attempt, held[j], outages) \subseteq StandIn(attempt', held'[j], outages')
    BY <1>1, <1>3, <1>4, <2>3 DEF StandIn
  <2>6. cache'[j].count = cache[j].count /\ cache[j].count \in Int
    BY <1>3, <1>5 DEF IInv, Empty, Typed
  <2>7. Running(j)' => cache'[j].count <= 0 \/ (Running(j) /\ cache'[j].count <= cache[j].count)
    BY <1>3, <1>5, <2>6 DEF IInv, Empty, Running
  <2>8. Bounded(j)'
    BY <1>1, <2>3, <2>4, <2>5, <2>6, <2>7, BoundKept DEF IInv, Typed
  <2> QED
    BY <2>1, <2>2, <2>8
<1> QED
  BY <1>6, <1>7, <1>8, <1>11, <1>12, <1>13 DEF IInv

\* The verdict on a claim that counted `count'.
Verdict(x, y, count) ==
  LET over == count > LimitOf(x.key.bucket) IN
  \/ over /\ y = [pc |-> "refused"]
  \/ /\ ~over /\ y \in Active /\ y.machine = x.machine /\ y.address = x.address /\ y.own = x.own
     /\ y.key = x.own
     /\ y.pc = IF x.key = x.own THEN "authenticate" ELSE "add"
LEMMA Judged ==
  ASSUME Typed, NEW a \in Attempts, attempt[a].pc \in Claiming, NEW count, Judge(a, count)
  PROVE  \E y \in Active \cup Over : Steps(a, y) /\ Verdict(attempt[a], y, count)
<1> DEFINE x == attempt[a]
<1>1. x \in Active
  BY Phases
<1>2. {"authenticate", "add"} \subseteq Claiming \cup Checked
  BY DEF Claiming, Checked
<1>3. CASE count > LimitOf(x.key.bucket)
  <2>1. [pc |-> "refused"] \in Over
    BY DEF Over
  <2>2. Steps(a, [pc |-> "refused"])
    BY <1>3, GoesOn DEF Judge
  <2> QED
    BY <1>3, <2>1, <2>2 DEF Verdict
<1>4. CASE ~(count > LimitOf(x.key.bucket)) /\ x.key = x.own
  <2> DEFINE y == [attempt[a] EXCEPT !.pc = "authenticate"]
  <2>1. Steps(a, y)
    BY <1>4, GoesOn DEF Judge
  <2>2. /\ y \in Active /\ y.pc = "authenticate" /\ y.machine = x.machine
        /\ y.key = x.key /\ y.address = x.address /\ y.own = x.own
    BY <1>1, <1>2, Phases
  <2> HIDE DEF y
  <2> QED
    BY <1>4, <2>1, <2>2 DEF Verdict
<1>5. CASE ~(count > LimitOf(x.key.bucket)) /\ x.key # x.own
  <2> DEFINE y == [attempt[a] EXCEPT !.pc = "add", !.key = x.own]
  <2>1. Steps(a, y)
    BY <1>1, <1>5 DEF Judge, Steps, Typed, Active
  <2>2. /\ y \in Active /\ y.pc = "add" /\ y.machine = x.machine
        /\ y.key = x.own /\ y.address = x.address /\ y.own = x.own
    BY <1>1, <1>2 DEF Active
  <2> HIDE DEF y
  <2> QED
    BY <1>5, <2>1, <2>2 DEF Verdict
<1> QED
  BY <1>3, <1>4, <1>5

\* An attempt claims: its bucket counts it, or an outage does.
LEMMA ClaimKeeps ==
  ASSUME IInv, NEW a \in Attempts, attempt[a].pc \in Claiming,
         NEW count \in Int, Judge(a, count), Claims(a), UNCHANGED <<window, rest, strays>>,
         NEW k \in Keys, k = attempt[a].key,
         raced' \subseteq Keys, raced \subseteq raced', raced' \subseteq raced \cup {k},
         outages' \in {outages, outages + 1},
         cache' \in [Keys -> [count : Int, left : Nat]],
         \A j \in Keys \ {k} : cache'[j] = cache[j],
         cache'[k].left = cache[k].left \/ cache'[k].left = Timeout(k), Empty(k)',
         k \notin raced' => cache[k].count + outages + 1 <= cache'[k].count + outages',
         k \notin raced' => \/ count > LimitOf(k.bucket)
                            \/ cache[k].count + 1 <= LimitOf(k.bucket)
                            \/ outages' = outages + 1,
         Running(k)' => \/ cache'[k].count <= 1
                        \/ Running(k) /\ cache'[k].count <= cache[k].count + 1
  PROVE  IInv'
<1> DEFINE x == attempt[a]
<1>1. PICK y \in Active \cup Over : Steps(a, y) /\ Verdict(x, y, count)
  BY Judged DEF IInv
<1>2. /\ attempt' \in [Attempts -> Active \cup Over] /\ attempt'[a] = y
      /\ \A b \in Attempts \ {a} : attempt'[b] = attempt[b]
  BY <1>1, Stepped DEF IInv
<1>3. /\ held' \in [Keys -> SUBSET Attempts] /\ held'[k] = held[k] \cup {a}
      /\ \A j \in Keys \ {k} : held'[j] = held[j]
  BY DEF Claims, IInv, Typed
<1>4. /\ outages \in Nat /\ outages' \in Nat /\ outages <= outages' /\ outages' <= outages + 1
      /\ window' = window /\ rest' = rest
  BY DEF IInv, Typed
<1>5. Typed'
  BY <1>2, <1>3, <1>4 DEF IInv, Typed
<1>6. Shape(x, window) /\ x.address \in Keys /\ x.own \in Keys
  BY Phases DEF IInv, Shapes
<1>7. \/ y.pc = "refused" /\ count > LimitOf(k.bucket)
      \/ /\ ~(count > LimitOf(k.bucket)) /\ y.key = x.own
         /\ y.machine = x.machine /\ y.address = x.address /\ y.own = x.own
         /\ y.pc = IF x.key = x.own THEN "authenticate" ELSE "add"
  BY <1>1 DEF Verdict
<1>8. y.pc \notin {"unasked", "in", "refund"}
  BY <1>7
<1>9. Shapes'
  <2>1. y.pc \in Claiming \cup Checked => Shape(y, window)
    BY <1>6, <1>7 DEF Shape, Claiming, Checked
  <2> QED
    BY <1>2, <1>4, <2>1 DEF IInv, Shapes
<1>10. a \notin held[k]
  BY DEF IInv, ClaimsHeld, Claim
<1>11. ClaimsHeld'
  <2>1. ASSUME NEW j \in Keys, a \in held'[j]
        PROVE  Claim(attempt[a], j)'
    <3>1. CASE j = k
      BY <1>2, <1>6, <1>7, <3>1 DEF Claim, Shape, Claiming, Checked
    <3>2. CASE j # k
      <4>1. Claim(x, j)
        BY <1>3, <2>1, <3>2 DEF IInv, ClaimsHeld
      <4>2. j = x.address /\ j # x.key /\ x.key = x.own
        BY <1>6, <4>1 DEF Claim, Shape
      <4> QED
        BY <1>2, <1>7, <4>2 DEF Claim, Claiming, Checked
    <3> QED
      BY <3>1, <3>2
  <2>2. ASSUME NEW j \in Keys, NEW b \in held'[j], b # a
        PROVE  Claim(attempt[b], j)'
    <3>1. b \in held[j] /\ b \in Attempts
      BY <1>3, <2>2 DEF IInv, Typed
    <3>2. Claim(attempt[b], j)
      BY <3>1 DEF IInv, ClaimsHeld
    <3> QED
      BY <1>2, <1>4, <2>2, <3>1, <3>2 DEF Claim
  <2> QED
    BY <2>1, <2>2 DEF ClaimsHeld
<1>12. k.bucket = "address" => k = x.address /\ k.of <= window
  BY <1>6 DEF Shape
<1>13. ASSUME NEW j \in Keys
       PROVE  /\ Late(j) => Late(j)'
              /\ j.bucket = "address" /\ (j.of = window \/ (Running(j)' /\ ~Late(j)'))
                   => j.of = window \/ (Running(j) /\ ~Late(j))
  BY <1>12, LateStays DEF IInv
<1>14. RefundsOwn'
  BY <1>13 DEF IInv, RefundsOwn
<1>15. \A j \in Keys : j.bucket = "address" /\ (j.of = window \/ (Running(j)' /\ ~Late(j)'))
                         => j.of = window \/ (Running(j) /\ ~Late(j))
  BY <1>13
<1>16. ASSUME NEW b \in Attempts
       PROVE  Stands(b, attempt[b])'
  <2>1. CASE b # a
    <3>1. attempt[b].pc \in Claiming \cup Checked => attempt[b].address \in Keys
      BY Phases DEF IInv
    <3>2. Stands(b, attempt[b])
      BY DEF IInv
    <3> QED
      BY <1>2, <1>3, <1>4, <1>15, <2>1, <3>1, <3>2 DEF Stands
  <2>2. CASE b = a /\ k = x.address
    BY <1>2, <1>3, <1>7, <2>2 DEF Stands, Claiming, Checked
  <2>3. CASE b = a /\ k # x.address
    <3>1. Stands(a, x) /\ x.key = x.own
      BY <1>6, <2>3 DEF IInv, Shape
    <3> QED
      BY <1>2, <1>3, <1>4, <1>6, <1>7, <1>15, <2>3, <3>1 DEF Stands, Claiming, Checked
  <2> QED
    BY <2>1, <2>2, <2>3
<1>17. ASSUME NEW j \in Keys
       PROVE  Lasts(j)'
  BY <1>4, <1>12, TimeoutIs DEF IInv, Typed, Lasts, Running
<1>18. ASSUME NEW j \in Keys
       PROVE  Empty(j)'
  BY DEF IInv, Empty, Running
<1>19. ASSUME NEW j \in Keys \ {k}
       PROVE  Bounded(j)'
  <2>1. held[j] \subseteq Attempts
    BY DEF IInv, Typed
  <2>2. PastIn(attempt', held'[j]) \subseteq PastIn(attempt, held[j])
    BY <1>2, <1>3, <2>1 DEF PastIn, Claiming
  <2>3. StandIn(attempt, held[j], outages) \subseteq StandIn(attempt', held'[j], outages')
    BY <1>2, <1>3, <1>4, <1>8, <2>1 DEF StandIn
  <2>4. cache'[j] = cache[j] /\ cache[j].count \in Int /\ (Running(j)' => Running(j))
        /\ cache[j].count + outages <= cache[j].count + outages'
        /\ (j \in raced => j \in raced')
    BY <1>4 DEF IInv, Typed, Running
  <2> QED
    BY <1>3, <1>4, <2>1, <2>2, <2>3, <2>4, BoundKept
<1>20. Bounded(k)'
  <2> DEFINE P == PastIn(attempt, held[k])
             Q == PastIn(attempt', held'[k])
             S == StandIn(attempt, held[k], outages)
             T == StandIn(attempt', held'[k], outages')
  <2>1. held[k] \subseteq Attempts /\ held'[k] \subseteq Attempts
    BY <1>3 DEF IInv, Typed
  <2>2. Q \subseteq P \cup {a} /\ (y.pc = "refused" => Q \subseteq P)
    BY <1>2, <1>3, <2>1 DEF PastIn
  <2>3. S \cup {a} \subseteq T /\ a \notin S
    BY <1>2, <1>3, <1>4, <1>8, <1>10, <2>1 DEF StandIn
  <2>4. /\ IsFiniteSet(P) /\ IsFiniteSet(Q) /\ IsFiniteSet(S) /\ IsFiniteSet(T)
        /\ Cardinality(P) \in Nat /\ Cardinality(S) \in Nat
        /\ Cardinality(Q) \in Nat /\ Cardinality(T) \in Nat
    BY <2>1, Sizes
  <2>5. /\ k \notin raced => Cardinality(P) <= cache[k].count + outages + strays[k]
                             /\ Cardinality(P) <= LimitOf(k.bucket) + outages + strays[k]
        /\ Running(k) => cache[k].count <= Cardinality(S)
    BY DEF IInv, Bounded
  <2> HIDE DEF P, Q, S, T
  <2>6. Cardinality(Q) <= Cardinality(P) + 1
    <3>1. IsFiniteSet(P \cup {a}) /\ Cardinality(P \cup {a}) <= Cardinality(P) + 1
      BY <2>4, OneMore
    <3>2. Cardinality(Q) <= Cardinality(P \cup {a}) /\ Cardinality(P \cup {a}) \in Nat
      BY <2>2, <3>1, Fewer
    <3> QED
      BY <2>4, <3>1, <3>2
  <2>7. y.pc = "refused" => Cardinality(Q) <= Cardinality(P)
    BY <2>2, <2>4, Fewer
  <2>8. Cardinality(S) + 1 <= Cardinality(T)
    <3>1. IsFiniteSet(S \cup {a}) /\ Cardinality(S \cup {a}) = Cardinality(S) + 1
      BY <2>3, <2>4, OneMore
    <3>2. Cardinality(S \cup {a}) <= Cardinality(T)
      BY <2>3, <2>4, Fewer
    <3> QED
      BY <2>4, <3>1, <3>2
  <2>9. LimitOf(k.bucket) \in Nat /\ cache[k].count \in Int /\ cache'[k].count \in Int
        /\ strays[k] \in Nat /\ strays'[k] = strays[k]
    BY TimeoutIs DEF IInv, Typed
  <2>10. k \notin raced' => Cardinality(Q) <= cache'[k].count + outages' + strays'[k]
    BY <1>4, <2>4, <2>5, <2>6, <2>9
  <2>11. k \notin raced' => Cardinality(Q) <= LimitOf(k.bucket) + outages' + strays'[k]
    BY <1>4, <1>7, <2>4, <2>5, <2>6, <2>7, <2>9
  <2>12. Running(k)' => cache'[k].count <= Cardinality(T)
    BY <2>4, <2>5, <2>8, <2>9
  <2> QED
    BY <2>10, <2>11, <2>12 DEF Bounded, Q, T
<1> QED
  BY <1>5, <1>9, <1>11, <1>14, <1>16, <1>17, <1>18, <1>19, <1>20 DEF IInv

\* The bucket of k after it counts an attempt or is written over.
LEMMA CountedIs ==
  ASSUME Typed, NEW k \in Keys
  PROVE  /\ Counted(k) \in [Keys -> [count : Int, left : Nat]]
         /\ \A j \in Keys \ {k} : Counted(k)[j] = cache[j]
         /\ Counted(k)[k].count = cache[k].count + 1 /\ Counted(k)[k].left = cache[k].left
BY DEF Counted, Typed
LEMMA OverwrittenIs ==
  ASSUME Typed, NEW k \in Keys
  PROVE  /\ Overwritten(k) \in [Keys -> [count : Int, left : Nat]]
         /\ \A j \in Keys \ {k} : Overwritten(k)[j] = cache[j]
         /\ Overwritten(k)[k].count = 1 /\ Overwritten(k)[k].left = Timeout(k)
BY TimeoutIs DEF Overwritten, Typed

LEMMA IncrKeeps ==
  ASSUME IInv, NEW a \in Attempts, Incr(a)
  PROVE  IInv'
<1>0. attempt[a].pc \in Claiming
  BY DEF Incr, Claiming
<1>2. PICK k \in Keys : k = attempt[a].key
  BY <1>0, Phases DEF IInv
<1>1. /\ Running(k) /\ cache' = Counted(k) /\ Claims(a) /\ attempt[a].pc \in Claiming
      /\ Judge(a, cache[k].count + 1) /\ UNCHANGED <<window, rest, raced, strays, outages>>
  BY <1>0, <1>2 DEF Incr
<1>3. cache[k].count \in Int /\ cache[k].left \in Nat /\ outages \in Nat /\ raced \subseteq Keys
      /\ LimitOf(k.bucket) \in Nat
  BY <1>2, TimeoutIs DEF IInv, Typed
<1>4. /\ cache' \in [Keys -> [count : Int, left : Nat]]
      /\ \A j \in Keys \ {k} : cache'[j] = cache[j]
      /\ cache'[k].count = cache[k].count + 1 /\ cache'[k].left = cache[k].left
  BY <1>1, <1>2, CountedIs DEF IInv
<1>5. Empty(k)'
  BY <1>1, <1>4 DEF Empty, Running
<1>6. cache[k].count + 1 \in Int
  BY <1>3
<1>7. /\ cache[k].count + outages + 1 <= cache'[k].count + outages'
      /\ cache[k].count + 1 > LimitOf(k.bucket) \/ cache[k].count + 1 <= LimitOf(k.bucket)
      /\ cache'[k].count <= cache[k].count + 1
  BY <1>1, <1>3, <1>4
<1> QED
  BY <1>1, <1>2, <1>3, <1>4, <1>5, <1>6, <1>7, ClaimKeeps

LEMMA SetKeeps ==
  ASSUME IInv, NEW a \in Attempts, Set(a)
  PROVE  IInv'
<1>0. attempt[a].pc \in Claiming
  BY DEF Set, Claiming
<1>2. PICK k \in Keys : k = attempt[a].key
  BY <1>0, Phases DEF IInv
<1>1. /\ cache' = Overwritten(k) /\ Races(k) /\ Claims(a) /\ attempt[a].pc \in Claiming
      /\ Judge(a, 1) /\ UNCHANGED <<window, rest, strays, outages>>
  BY <1>0, <1>2 DEF Set
<1>3. cache[k].count \in Int /\ outages \in Nat /\ raced \subseteq Keys
      /\ LimitOf(k.bucket) \in Nat \ {0} /\ Timeout(k) \in Nat \ {0}
  BY <1>2, TimeoutIs DEF IInv, Typed
<1>4. /\ cache' \in [Keys -> [count : Int, left : Nat]]
      /\ \A j \in Keys \ {k} : cache'[j] = cache[j]
      /\ cache'[k].count = 1 /\ cache'[k].left = Timeout(k)
  BY <1>1, <1>2, OverwrittenIs DEF IInv
<1>5. Empty(k)'
  BY <1>3, <1>4 DEF Empty, Running
<1>6. /\ raced \subseteq raced' /\ raced' \subseteq raced \cup {k}
      /\ k \notin raced' => cache[k].count = 0
  BY <1>1, <1>2 DEF Races, IInv, Empty
<1>7. k \notin raced' => /\ cache[k].count + outages + 1 <= cache'[k].count + outages'
                         /\ cache[k].count + 1 <= LimitOf(k.bucket)
  BY <1>1, <1>3, <1>4, <1>6
<1>8. raced' \subseteq Keys /\ cache'[k].count <= 1
  BY <1>2, <1>3, <1>4, <1>6
<1> QED
  BY <1>1, <1>2, <1>3, <1>4, <1>5, <1>6, <1>7, <1>8, ClaimKeeps

\* A claim that the cache failed: it counts 0, whatever the cache did.
LEMMA ClaimFails ==
  ASSUME IInv, NEW a \in Attempts, CacheFails(a), attempt[a].pc \in Claiming
  PROVE  IInv'
<1>2. PICK k \in Keys : k = attempt[a].key
  BY Phases DEF IInv
<1>1. /\ outages' = outages + 1 /\ UNCHANGED <<window, rest, strays>> /\ Judge(a, 0) /\ Claims(a)
      /\ \/ cache' = cache /\ raced' = raced
         \/ cache' = Opened(k) /\ raced' = raced
         \/ Running(k) /\ cache' = Counted(k) /\ raced' = raced
         \/ cache' = Overwritten(k) /\ Races(k)
  BY <1>2 DEF CacheFails, Claiming
<1>3. cache[k].count \in Int /\ cache[k].left \in Nat /\ outages \in Nat /\ raced \subseteq Keys
      /\ LimitOf(k.bucket) \in Nat \ {0} /\ Timeout(k) \in Nat \ {0}
      /\ cache \in [Keys -> [count : Int, left : Nat]]
      /\ (~Running(k) => cache[k].count = 0)
  BY <1>2, TimeoutIs DEF IInv, Typed, Empty
<1>4. /\ cache' \in [Keys -> [count : Int, left : Nat]]
      /\ \A j \in Keys \ {k} : cache'[j] = cache[j]
      /\ \/ cache'[k] = cache[k] /\ raced' = raced
         \/ ~Running(k) /\ cache'[k].count = 0 /\ cache'[k].left = Timeout(k) /\ raced' = raced
         \/ /\ Running(k) /\ cache'[k].count = cache[k].count + 1
            /\ cache'[k].left = cache[k].left /\ raced' = raced
         \/ cache'[k].count = 1 /\ cache'[k].left = Timeout(k) /\ Races(k)
  BY <1>1, <1>2, <1>3, OpenedIs, CountedIs, OverwrittenIs DEF IInv
<1>5. /\ raced \subseteq raced' /\ raced' \subseteq raced \cup {k} /\ raced' \subseteq Keys
      /\ Races(k) /\ k \notin raced' => ~Running(k)
  BY <1>2, <1>3, <1>4 DEF Races
<1>6. Empty(k)'
  BY <1>3, <1>4 DEF Empty, Running
<1>7. k \notin raced' => cache[k].count <= cache'[k].count
  BY <1>3, <1>4, <1>5
<1>8. cache[k].count + outages + 1 <= cache[k].count + outages'
  BY <1>1, <1>3
<1>9. k \notin raced' => cache[k].count + outages + 1 <= cache'[k].count + outages'
  BY <1>1, <1>3, <1>4, <1>7
<1>10. Running(k)' => \/ cache'[k].count <= 1
                      \/ Running(k) /\ cache'[k].count <= cache[k].count + 1
  BY <1>3, <1>4 DEF Running
<1>11. cache'[k].left = cache[k].left \/ cache'[k].left = Timeout(k)
  BY <1>4
<1> QED
  BY <1>1, <1>2, <1>3, <1>4, <1>5, <1>6, <1>9, <1>10, <1>11, ClaimKeeps

\* A bucket that is over, with nobody held for it, is within its bounds.
LEMMA EmptiedKept ==
  ASSUME NEW k \in Keys, cache'[k].count = 0, cache'[k].left = 0, held'[k] = {}, outages' \in Nat,
         strays'[k] \in Nat
  PROVE  Bounded(k)'
<1>1. PastIn(attempt', held'[k]) = {}
  BY DEF PastIn
<1>2. Cardinality(PastIn(attempt', held'[k])) = 0
  BY <1>1, FS_EmptySet
<1>3. ~Running(k)'
  BY DEF Running
<1>4. LimitOf(k.bucket) \in Nat
  BY TimeoutIs
<1>5. /\ Cardinality(PastIn(attempt', held'[k])) <= cache'[k].count + outages' + strays'[k]
      /\ Cardinality(PastIn(attempt', held'[k])) <= LimitOf(k.bucket) + outages' + strays'[k]
  BY <1>2, <1>4
<1> QED
  BY <1>3, <1>5 DEF Bounded

\* A release settles an attempt: it drops the bucket of its own, or an outage
\* leaves that.
LEMMA DroppedIs ==
  ASSUME Typed, NEW k \in Keys
  PROVE  /\ Dropped(k) \in [Keys -> [count : Int, left : Nat]]
         /\ \A j \in Keys \ {k} : Dropped(k)[j] = cache[j]
         /\ Dropped(k)[k].count = 0 /\ Dropped(k)[k].left = 0
BY DEF Dropped, Missing, Typed
LEMMA RefundedIs ==
  ASSUME Typed, NEW k \in Keys
  PROVE  /\ Refunded(k) \in [Keys -> [count : Int, left : Nat]]
         /\ \A j \in Keys \ {k} : Refunded(k)[j] = cache[j]
         /\ Refunded(k)[k].left = cache[k].left
         /\ Running(k) => Refunded(k)[k].count = cache[k].count - 1
         /\ ~Running(k) => Refunded(k)[k].count = cache[k].count
BY DEF Refunded, Typed

LEMMA SettlesKeeps ==
  ASSUME IInv, NEW a \in Attempts, attempt[a].pc = "forget", Goes(a, Settled(a)),
         UNCHANGED <<window, rest, strays>>, outages' \in {outages, outages + 1},
         NEW k \in Keys, k = attempt[a].own, raced' \in {raced, raced \ {k}},
         \/ UNCHANGED <<cache, held, raced>> /\ outages' = outages + 1
         \/ cache' = Dropped(k) /\ held' = [held EXCEPT ![k] = {}]
  PROVE  IInv'
<1> DEFINE x == attempt[a]
           y == IF Settled(a) = "in" THEN [pc |-> "in"] ELSE [attempt[a] EXCEPT !.pc = "refund"]
<1>1. {"forget", "refund"} \subseteq Checked
  BY DEF Checked
<1>2. x \in Active /\ x.address \in Keys /\ Shape(x, window)
  BY <1>1, Phases DEF IInv, Shapes
<1>3. x.own.bucket # "address" /\ x.key = x.own
  BY <1>1, <1>2 DEF Shape
<1>4. Steps(a, y)
  BY GoesOn DEF IInv, Settled
<1>5. \/ x.address = x.own /\ y \in Over /\ y.pc = "in"
      \/ /\ x.address # x.own /\ y \in Active /\ y.pc = "refund" /\ y.machine = x.machine
         /\ y.key = x.key /\ y.address = x.address /\ y.own = x.own
  <2>1. CASE x.address = x.own
    BY <2>1 DEF Settled, Over
  <2>2. CASE x.address # x.own
    BY <1>1, <1>2, <2>2, Phases DEF Settled, IInv
  <2> QED
    BY <2>1, <2>2
<1> HIDE DEF y
<1>6. /\ attempt' \in [Attempts -> Active \cup Over] /\ attempt'[a] = y
      /\ \A b \in Attempts \ {a} : attempt'[b] = attempt[b]
  BY <1>4, <1>5, Stepped DEF IInv
<1>7. /\ cache' \in [Keys -> [count : Int, left : Nat]]
      /\ \A j \in Keys \ {k} : cache'[j] = cache[j]
      /\ \/ cache'[k] = cache[k] /\ held' = held /\ raced' = raced /\ outages' = outages + 1
         \/ cache'[k].count = 0 /\ cache'[k].left = 0 /\ held'[k] = {}
  BY DroppedIs DEF IInv, Typed
<1>8. /\ held' \in [Keys -> SUBSET Attempts]
      /\ \A j \in Keys \ {k} : held'[j] = held[j]
  BY DEF IInv, Typed
<1>9. /\ outages \in Nat /\ outages' \in Nat /\ outages <= outages'
      /\ window' = window /\ rest' = rest /\ strays' = strays /\ strays \in [Keys -> Nat]
  BY DEF IInv, Typed
<1>10. Typed'
  BY <1>6, <1>7, <1>8, <1>9 DEF IInv, Typed
<1>11. Shapes'
  <2>1. y.pc \in Claiming \cup Checked => Shape(y, window)
    BY <1>2, <1>3, <1>5 DEF Shape, Claiming, Checked
  <2> QED
    BY <1>6, <1>9, <2>1 DEF IInv, Shapes
<1>12. \A j \in Keys : a \in held[j] => j \in {x.address, k}
  BY <1>1 DEF IInv, ClaimsHeld, Claim
<1>13. ClaimsHeld'
  <2>1. ASSUME NEW j \in Keys, a \in held'[j]
        PROVE  Claim(attempt[a], j)'
    <3>1. CASE j = k
      <4>1. outages' > 0
        BY <1>7, <1>9, <2>1, <3>1
      <4> QED
        BY <1>5, <1>6, <3>1, <4>1 DEF Claim, Claiming, Checked
    <3>2. CASE j # k
      <4>1. j = x.address /\ x.address # x.own
        BY <1>8, <1>12, <2>1, <3>2
      <4> QED
        BY <1>5, <1>6, <4>1 DEF Claim, Claiming, Checked
    <3> QED
      BY <3>1, <3>2
  <2>2. ASSUME NEW j \in Keys, NEW b \in held'[j], b # a
        PROVE  Claim(attempt[b], j)'
    <3>1. b \in held[j] /\ b \in Attempts
      BY <1>7, <1>8 DEF IInv, Typed
    <3>2. Claim(attempt[b], j)
      BY <3>1 DEF IInv, ClaimsHeld
    <3> QED
      BY <1>6, <1>9, <2>2, <3>1, <3>2 DEF Claim
  <2> QED
    BY <2>1, <2>2 DEF ClaimsHeld
<1>14. ASSUME NEW b \in Attempts
       PROVE  Stands(b, attempt[b])'
  <2>1. Stands(b, attempt[b])
    BY DEF IInv
  <2>2. attempt[b].pc \in Claiming \cup Checked => attempt[b].address \in Keys
    BY Phases DEF IInv
  <2>3. ASSUME NEW j \in Keys, j.bucket = "address"
        PROVE  held'[j] = held[j] /\ (Running(j)' <=> Running(j)) /\ (Late(j)' <=> Late(j))
    BY <1>3, <1>7, <1>8, <1>9, <2>3 DEF Running, Late
  <2>4. CASE b # a
    BY <1>6, <1>9, <2>1, <2>2, <2>3, <2>4 DEF Stands
  <2>5. CASE b = a
    BY <1>1, <1>3, <1>5, <1>6, <1>9, <2>1, <2>2, <2>3, <2>5 DEF Stands, Claiming, Checked
  <2> QED
    BY <2>4, <2>5
<1>15. ASSUME NEW j \in Keys
       PROVE  Lasts(j)' /\ Empty(j)'
  <2>1. Lasts(j) /\ Empty(j)
    BY DEF IInv
  <2> QED
    BY <1>3, <1>7, <1>9, <2>1 DEF Lasts, Empty, Running
<1>16. ASSUME NEW j \in Keys
       PROVE  Bounded(j)'
  <2>1. CASE j = k /\ cache'[k].count = 0 /\ cache'[k].left = 0 /\ held'[k] = {}
    BY <1>9, <2>1, EmptiedKept
  <2>2. CASE j # k \/ (cache'[k] = cache[k] /\ held' = held /\ raced' = raced
                       /\ outages' = outages + 1)
    <3>1. held'[j] = held[j] /\ held[j] \subseteq Attempts /\ cache'[j] = cache[j]
          /\ cache[j].count \in Int /\ (j \in raced => j \in raced')
      BY <1>7, <1>8, <2>2 DEF IInv, Typed
    <3>2. PastIn(attempt', held'[j]) \subseteq PastIn(attempt, held[j])
      BY <1>6, <3>1 DEF PastIn
    <3>3. a \in held[j] => y.pc # "in" \/ outages' > 0
      BY <1>5, <1>9, <1>12, <2>2
    <3>4. StandIn(attempt, held[j], outages) \subseteq StandIn(attempt', held'[j], outages')
      BY <1>6, <1>9, <3>1, <3>3 DEF StandIn
    <3>5. cache[j].count + outages <= cache'[j].count + outages'
      BY <1>9, <3>1
    <3>6. Running(j)' => cache'[j].count <= 0 \/ (Running(j) /\ cache'[j].count <= cache[j].count)
      BY <3>1 DEF Running
    <3> QED
      BY <1>9, <3>1, <3>2, <3>4, <3>5, <3>6, BoundKept
  <2> QED
    BY <1>7, <2>1, <2>2
<1>17. RefundsOwn'
  BY <1>3, <1>7, <1>9 DEF IInv, RefundsOwn, Late, Running
<1> QED
  BY <1>10, <1>11, <1>13, <1>14, <1>15, <1>16, <1>17 DEF IInv

LEMMA RefundsKeeps ==
  ASSUME IInv, NEW a \in Attempts, attempt[a].pc = "refund", Goes(a, "in"),
         UNCHANGED <<window, rest, raced>>, outages' \in {outages, outages + 1},
         NEW k \in Keys, k = attempt[a].address, cache' \in {cache, Refunded(k)},
         \/ held' = held /\ strays' = strays /\ outages' = outages + 1
         \/ /\ cache' = Refunded(k) /\ held' = [held EXCEPT ![k] = @ \ {a}]
            /\ strays' = IF Running(k) /\ a \notin held[k]
                         THEN [strays EXCEPT ![k] = @ + 1] ELSE strays
  PROVE  IInv'
<1> DEFINE x == attempt[a]
           y == [pc |-> "in"]
<1>1. "refund" \in Checked
  BY DEF Checked
<1>2. x \in Active /\ Shape(x, window) /\ x.key = x.own /\ k # x.own /\ k.bucket = "address"
  BY <1>1, Phases DEF IInv, Shapes, Shape
<1>3. Steps(a, y) /\ y \in Over /\ y.pc = "in"
  BY GoesOn DEF IInv, Over
<1> HIDE DEF y
<1>4. /\ attempt' \in [Attempts -> Active \cup Over] /\ attempt'[a] = y
      /\ \A b \in Attempts \ {a} : attempt'[b] = attempt[b]
  BY <1>3, Stepped DEF IInv
<1>5. /\ cache' \in [Keys -> [count : Int, left : Nat]]
      /\ \A j \in Keys \ {k} : cache'[j] = cache[j]
      /\ cache'[k].left = cache[k].left
      /\ cache'[k].count = cache[k].count \/ (Running(k) /\ cache'[k].count = cache[k].count - 1)
  BY RefundedIs DEF IInv, Typed
<1>6. /\ held' \in [Keys -> SUBSET Attempts]
      /\ \A j \in Keys \ {k} : held'[j] = held[j]
      /\ \/ held'[k] = held[k] /\ outages' = outages + 1
         \/ held'[k] = held[k] \ {a}
  BY DEF IInv, Typed
<1>7. /\ outages \in Nat /\ outages' \in Nat /\ outages <= outages'
      /\ window' = window /\ rest' = rest /\ raced' = raced
      /\ cache[k].count \in Int /\ cache'[k].count \in Int
  BY <1>5 DEF IInv, Typed
<1>8. /\ strays' \in [Keys -> Nat] /\ strays \in [Keys -> Nat]
       /\ \A j \in Keys \ {k} : strays'[j] = strays[j]
       /\ \/ strays'[k] = strays[k]
          \/ Running(k) /\ a \notin held[k] /\ strays'[k] = strays[k] + 1
  BY DEF IInv, Typed
<1>9. Typed'
  BY <1>3, <1>4, <1>5, <1>6, <1>7, <1>8 DEF IInv, Typed
<1>10. Shapes'
  BY <1>3, <1>4, <1>7 DEF IInv, Shapes, Claiming, Checked
<1>11. \A j \in Keys : a \in held[j] => j = k \/ outages > 0
  BY <1>1 DEF IInv, ClaimsHeld, Claim
<1>12. ClaimsHeld'
  <2>1. ASSUME NEW j \in Keys, a \in held'[j]
        PROVE  Claim(attempt[a], j)'
    <3>1. outages' > 0
      BY <1>6, <1>7, <1>11, <2>1
    <3> QED
      BY <1>3, <1>4, <3>1 DEF Claim, Claiming, Checked
  <2>2. ASSUME NEW j \in Keys, NEW b \in held'[j], b # a
        PROVE  Claim(attempt[b], j)'
    <3>1. b \in held[j] /\ b \in Attempts
      BY <1>6 DEF IInv, Typed
    <3>2. Claim(attempt[b], j)
      BY <3>1 DEF IInv, ClaimsHeld
    <3> QED
      BY <1>4, <1>7, <2>2, <3>1, <3>2 DEF Claim
  <2> QED
    BY <2>1, <2>2 DEF ClaimsHeld
<1>13. \A j \in Keys : (Running(j)' <=> Running(j)) /\ (Late(j)' <=> Late(j))
  BY <1>5, <1>7 DEF Running, Late
<1>14. Running(k) /\ a \notin held[k] => Late(k)
  BY <1>1, <1>2 DEF IInv, Stands
<1>15. RefundsOwn'
  BY <1>8, <1>13, <1>14 DEF IInv, RefundsOwn
<1>16. ASSUME NEW b \in Attempts
       PROVE  Stands(b, attempt[b])'
  <2>1. CASE b # a
    <3>1. Stands(b, attempt[b])
      BY DEF IInv
    <3>2. attempt[b].pc \in Claiming \cup Checked => attempt[b].address \in Keys
      BY Phases DEF IInv
    <3>3. \A j \in Keys : b \in held[j] => b \in held'[j]
      BY <1>6, <2>1
    <3> QED
      BY <1>4, <1>7, <1>13, <2>1, <3>1, <3>2, <3>3 DEF Stands
  <2>2. CASE b = a
    BY <1>3, <1>4, <2>2 DEF Stands, Claiming, Checked
  <2> QED
    BY <2>1, <2>2
<1>17. ASSUME NEW j \in Keys
       PROVE  Lasts(j)' /\ Empty(j)'
  <2>1. Lasts(j) /\ Empty(j)
    BY DEF IInv
  <2>2. cache'[j].left = cache[j].left /\ (Running(j) \/ cache'[j].count = cache[j].count)
    BY <1>5
  <2> QED
    BY <1>7, <1>13, <2>1, <2>2 DEF Lasts, Empty
<1>18. ASSUME NEW j \in Keys, cache[j].count + outages <= cache'[j].count + outages',
              held'[j] = held[j], strays'[j] = strays[j], a \in held[j] => outages' > 0
       PROVE  Bounded(j)'
  <2>1. held[j] \subseteq Attempts /\ cache'[j].count \in Int
    BY <1>5 DEF IInv, Typed
  <2>2. PastIn(attempt', held'[j]) \subseteq PastIn(attempt, held[j])
    BY <1>4, <1>18, <2>1 DEF PastIn
  <2>3. StandIn(attempt, held[j], outages) \subseteq StandIn(attempt', held'[j], outages')
    BY <1>4, <1>7, <1>18, <2>1 DEF StandIn
  <2>4. cache'[j].count <= cache[j].count
    <3>1. cache[j].count \in Int
      BY DEF IInv, Typed
    <3> QED
      BY <1>5, <1>7, <3>1
  <2> QED
    BY <1>7, <1>13, <1>18, <2>1, <2>2, <2>3, <2>4, BoundKept
<1>19. ASSUME held'[k] = held[k] \ {a}, cache' = Refunded(k),
              Running(k) /\ a \notin held[k] => strays'[k] = strays[k] + 1
       PROVE  Bounded(k)'
  <2> DEFINE P == PastIn(attempt, held[k])
             Q == PastIn(attempt', held'[k])
             S == StandIn(attempt, held[k], outages)
             T == StandIn(attempt', held'[k], outages')
  <2>1. held[k] \subseteq Attempts /\ held'[k] \subseteq Attempts
    BY <1>6 DEF IInv, Typed
  <2>2. Q \subseteq P /\ a \notin Q /\ S \subseteq T \cup {a}
    BY <1>4, <1>7, <1>19, <2>1 DEF PastIn, StandIn
  <2>3. Running(k) => a \in P \/ strays'[k] = strays[k] + 1
    BY <1>19, <2>1 DEF PastIn
  <2>4. /\ IsFiniteSet(P) /\ IsFiniteSet(Q) /\ IsFiniteSet(S) /\ IsFiniteSet(T)
        /\ Cardinality(P) \in Nat /\ Cardinality(S) \in Nat
        /\ Cardinality(Q) \in Nat /\ Cardinality(T) \in Nat
    BY <2>1, Sizes
  <2>5. /\ k \notin raced => Cardinality(P) <= cache[k].count + outages + strays[k]
                             /\ Cardinality(P) <= LimitOf(k.bucket) + outages + strays[k]
        /\ Running(k) => cache[k].count <= Cardinality(S)
    BY DEF IInv, Bounded
  <2>6. Running(k) => cache'[k].count = cache[k].count - 1
    BY <1>19, RefundedIs DEF IInv
  <2>7. ~Running(k) => cache'[k].count = cache[k].count
    BY <1>19, RefundedIs DEF IInv
  <2> HIDE DEF P, Q, S, T
  <2>8. Cardinality(Q) <= Cardinality(P)
    BY <2>2, <2>4, Fewer
  <2>9. Running(k) => Cardinality(Q) + 1 <= Cardinality(P) \/ strays'[k] = strays[k] + 1
    <3>1. IsFiniteSet(Q \cup {a}) /\ Cardinality(Q \cup {a}) = Cardinality(Q) + 1
      BY <2>2, <2>4, OneMore
    <3>2. a \in P => Cardinality(Q \cup {a}) <= Cardinality(P)
      <4>1. a \in P => Q \cup {a} \subseteq P
        BY <2>2
      <4> QED
        BY <2>4, <4>1, Fewer
    <3> QED
      BY <2>3, <3>1, <3>2
  <2>10. Cardinality(S) <= Cardinality(T) + 1
    <3>1. IsFiniteSet(T \cup {a}) /\ Cardinality(T \cup {a}) <= Cardinality(T) + 1
      BY <2>4, OneMore
    <3>2. Cardinality(S) <= Cardinality(T \cup {a}) /\ Cardinality(T \cup {a}) \in Nat
      BY <2>2, <3>1, Fewer
    <3> QED
      BY <2>4, <3>1, <3>2
  <2>11. /\ LimitOf(k.bucket) \in Nat /\ strays[k] \in Nat /\ strays'[k] \in Nat
         /\ strays[k] <= strays'[k]
    BY <1>8, TimeoutIs
  <2>12. k \notin raced' => Cardinality(Q) <= cache'[k].count + outages' + strays'[k]
    BY <1>7, <2>4, <2>5, <2>6, <2>7, <2>8, <2>9, <2>11
  <2>13. k \notin raced' => Cardinality(Q) <= LimitOf(k.bucket) + outages' + strays'[k]
    BY <1>7, <2>4, <2>5, <2>8, <2>11
  <2>14. Running(k)' => cache'[k].count <= Cardinality(T)
    BY <1>7, <1>13, <2>4, <2>5, <2>6, <2>10
  <2> QED
    BY <2>12, <2>13, <2>14 DEF Bounded, Q, T
<1>20. ASSUME NEW j \in Keys
       PROVE  Bounded(j)'
  <2>1. CASE /\ held'[k] = held[k] \ {a} /\ cache' = Refunded(k) /\ j = k
             /\ Running(k) /\ a \notin held[k] => strays'[k] = strays[k] + 1
    BY <1>19, <2>1
  <2>2. CASE j # k
    <3>1. /\ cache'[j] = cache[j] /\ cache[j].count \in Int /\ held'[j] = held[j]
          /\ strays'[j] = strays[j]
      BY <1>5, <1>6, <1>8, <2>2 DEF IInv, Typed
    <3>2. a \in held[j] => outages' > 0
      BY <1>7, <1>11, <2>2
    <3>3. cache[j].count + outages <= cache'[j].count + outages'
      BY <1>7, <3>1
    <3> QED
      BY <1>18, <3>1, <3>2, <3>3
  <2>3. CASE j = k /\ held' = held /\ strays' = strays /\ outages' = outages + 1
    <3>1. cache[k].count + outages <= cache'[k].count + outages' /\ outages' > 0
      BY <1>5, <1>7, <2>3
    <3> QED
      BY <1>18, <2>3, <3>1
  <2>4. \/ held' = held /\ strays' = strays /\ outages' = outages + 1
        \/ /\ held'[k] = held[k] \ {a} /\ cache' = Refunded(k)
           /\ Running(k) /\ a \notin held[k] => strays'[k] = strays[k] + 1
    BY DEF IInv, Typed
  <2> QED
    BY <2>1, <2>2, <2>3, <2>4
<1> QED
  BY <1>9, <1>10, <1>12, <1>15, <1>16, <1>17, <1>20 DEF IInv

LEMMA CacheFailsKeeps ==
  ASSUME IInv, NEW a \in Attempts, CacheFails(a)
  PROVE  IInv'
<1>1. CASE attempt[a].pc \in Claiming
  BY <1>1, ClaimFails
<1>2. CASE attempt[a].pc = "forget"
  <2>1. PICK k \in Keys : k = attempt[a].own
    BY <1>2, Phases DEF IInv, Checked
  <2>2. /\ Goes(a, Settled(a)) /\ UNCHANGED <<window, rest, raced, strays>>
        /\ outages' = outages + 1
        /\ \/ UNCHANGED <<cache, held>>
           \/ cache' = Dropped(k) /\ held' = [held EXCEPT ![k] = {}]
    BY <1>2, <2>1 DEF CacheFails
  <2> QED
    BY <1>2, <2>1, <2>2, SettlesKeeps
<1>3. CASE attempt[a].pc = "refund"
  <2>1. PICK k \in Keys : k = attempt[a].address
    BY <1>3, Phases DEF IInv, Checked
  <2>2. /\ Goes(a, "in") /\ UNCHANGED <<window, rest, held, raced, strays>>
        /\ outages' = outages + 1 /\ cache' \in {cache, Refunded(k)}
    BY <1>3, <2>1 DEF CacheFails, Spent
  <2> QED
    BY <1>3, <2>1, <2>2, RefundsKeeps
<1> QED
  BY <1>1, <1>2, <1>3 DEF CacheFails, Claiming

LEMMA ForgetKeeps ==
  ASSUME IInv, NEW a \in Attempts, Forget(a)
  PROVE  IInv'
<1>1. PICK k \in Keys : k = attempt[a].own
  BY Phases DEF Forget, IInv, Checked
<1>2. /\ attempt[a].pc = "forget" /\ Goes(a, Settled(a))
      /\ UNCHANGED <<window, rest, strays, outages>>
      /\ cache' = Dropped(k) /\ held' = [held EXCEPT ![k] = {}] /\ raced' = raced \ {k}
  BY <1>1 DEF Forget
<1> QED
  BY <1>1, <1>2, SettlesKeeps

LEMMA RefundKeeps ==
  ASSUME IInv, NEW a \in Attempts, Refund(a)
  PROVE  IInv'
<1>1. PICK k \in Keys : k = attempt[a].address
  BY Phases DEF Refund, IInv, Checked
<1>2. /\ attempt[a].pc = "refund" /\ Goes(a, "in") /\ UNCHANGED <<window, rest, raced, outages>>
      /\ cache' = Refunded(k) /\ held' = [held EXCEPT ![k] = @ \ {a}]
      /\ strays' = IF Running(k) /\ a \notin held[k]
                   THEN [strays EXCEPT ![k] = @ + 1] ELSE strays
  BY <1>1 DEF Refund, Spent
<1> QED
  BY <1>1, <1>2, RefundsKeeps

\* Time passes: an address bucket does not end before its window does.
LEMMA TickKeeps ==
  ASSUME IInv, Tick
  PROVE  IInv'
<1>1. /\ cache \in [Keys -> [count : Int, left : Nat]] /\ held \in [Keys -> SUBSET Attempts]
      /\ window \in 0..MaxWindow /\ rest \in 1..Window /\ outages \in Nat /\ Window \in Nat \ {0}
      /\ MaxWindow \in Nat /\ attempt' = attempt /\ outages' = outages
  BY LimitsAssumption, BoundsAssumption DEF IInv, Typed, Tick
<1>2. /\ window' \in 0..MaxWindow /\ rest' \in 1..Window /\ window <= window'
      /\ window' = window => rest' = rest - 1 /\ rest > 1
  BY <1>1 DEF Tick
<1>3. ASSUME NEW k \in Keys
      PROVE  /\ ~Running(k) \/ Ends(k) => cache'[k].count = 0 /\ cache'[k].left = 0
             /\ Running(k) /\ ~Ends(k) => /\ cache'[k].count = cache[k].count
                                          /\ cache'[k].left = cache[k].left - 1
             /\ Ends(k) => Running(k) /\ held'[k] = {}
             /\ ~Ends(k) => held'[k] = held[k] /\ (k \in raced => k \in raced')
             /\ Running(k)' => Running(k) /\ ~Ends(k)
             /\ strays[k] \in Nat /\ strays'[k] = IF Ends(k) THEN 0 ELSE strays[k]
  <2>1. cache[k].left \in Nat /\ strays[k] \in Nat
    BY <1>1 DEF IInv, Typed
  <2> QED
    BY <2>1 DEF Tick, Missing, Running, Ends
<1>4. Typed'
  <2>1. Missing \in [count : Int, left : Nat]
    BY DEF Missing
  <2>2. ASSUME NEW k \in Keys, Running(k), ~Ends(k)
        PROVE  [cache[k] EXCEPT !.left = @ - 1] \in [count : Int, left : Nat]
    BY <1>1, <2>2 DEF Running, Ends
  <2>3. cache' \in [Keys -> [count : Int, left : Nat]]
    BY <2>1, <2>2 DEF Tick
  <2>4. /\ held' \in [Keys -> SUBSET Attempts] /\ raced' \subseteq Keys
        /\ strays' \in [Keys -> Nat]
    BY <1>1 DEF Tick, IInv, Typed
  <2> QED
    BY <1>1, <1>2, <2>3, <2>4 DEF IInv, Typed
<1>5. Shapes'
  <2>1. ASSUME NEW a \in Attempts, attempt[a].pc \in Claiming \cup Checked
        PROVE  Shape(attempt[a], window')
    <3>1. Shape(attempt[a], window)
      BY <2>1 DEF IInv, Shapes
    <3>3. attempt[a].address \in Keys
      BY <2>1, Phases DEF IInv
    <3>4. attempt[a].address.bucket = "address" => attempt[a].address.of \in 0..MaxWindow
      BY <3>3, KeyIs
    <3>5. attempt[a].address.bucket = "address" => attempt[a].address.of <= window'
      BY <1>1, <1>2, <3>1, <3>4 DEF Shape
    <3> QED
      BY <3>1, <3>5 DEF Shape
  <2> QED
    BY <1>1, <2>1 DEF Shapes
<1>6. ClaimsHeld'
  <2>1. ASSUME NEW k \in Keys, NEW a \in held'[k]
        PROVE  Claim(attempt[a], k)'
    <3>1. a \in held[k]
      BY <1>3
    <3> QED
      BY <1>1, <3>1 DEF IInv, ClaimsHeld, Claim
  <2> QED
    BY <2>1 DEF ClaimsHeld
<1>7. ASSUME NEW k \in Keys, Running(k)'
       PROVE  Late(k) => Late(k)'
  BY <1>1, <1>2, <1>3, <1>7, KeyIs DEF Late, Running, Tick
<1>8. ASSUME NEW a \in Attempts
      PROVE  Stands(a, attempt[a])'
  <2>1. SUFFICES ASSUME attempt[a].pc \in Claiming \cup Checked,
                        attempt[a].address.bucket = "address", attempt[a].key = attempt[a].own,
                        \/ attempt[a].address.of = window'
                        \/ Running(attempt[a].address)' /\ ~Late(attempt[a].address)'
                 PROVE  a \in held'[attempt[a].address]
    BY <1>1 DEF Stands
  <2>2. PICK k \in Keys : k = attempt[a].address
    BY <2>1, Phases DEF IInv
  <2>3. k.bucket = "address" /\ k.of \in 0..MaxWindow /\ k.of <= window
    BY <2>1, <2>2, KeyIs DEF IInv, Shapes, Shape
  <2>4. /\ k.of = window \/ (Running(k) /\ ~Late(k)) => a \in held[k]
        /\ k.of = window' \/ (Running(k)' /\ ~Late(k)')
    BY <1>1, <2>1, <2>2 DEF IInv, Stands
  <2>5. k.of = window' => window' = window
    BY <1>1, <1>2, <2>3
  <2>6. k.of = window /\ rest > 1 => ~Ends(k)
    BY <1>1, <2>3 DEF IInv, Lasts, Running, Ends
  <2>7. ~Ends(k) /\ (k.of = window \/ (Running(k) /\ ~Late(k)))
    BY <1>2, <1>3, <1>7, <2>4, <2>5, <2>6
  <2> QED
    BY <1>3, <2>2, <2>4, <2>7
<1>9. ASSUME NEW k \in Keys
      PROVE  Lasts(k)' /\ Empty(k)'
  <2>1. k.bucket = "address" => k.of \in 0..MaxWindow
    BY KeyIs
  <2>2. Lasts(k)
    BY DEF IInv
  <2>3. cache[k].left \in Nat
    BY <1>1
  <2>4. Lasts(k)'
    BY <1>1, <1>2, <1>3, <2>1, <2>2, <2>3 DEF Lasts
  <2>5. Empty(k)'
    BY <1>3, <2>3 DEF Empty, Running, Ends
  <2> QED
    BY <2>4, <2>5
<1>10. ASSUME NEW k \in Keys
      PROVE  Bounded(k)'
  <2>1. CASE Ends(k)
    BY <1>1, <1>3, <2>1, EmptiedKept
  <2>2. CASE ~Ends(k)
    <3>1. /\ held'[k] = held[k] /\ held[k] \subseteq Attempts /\ (k \in raced => k \in raced')
          /\ strays'[k] = strays[k]
      BY <1>1, <1>3, <2>2
    <3>2. cache[k].count \in Int /\ (~Running(k) => cache[k].count = 0)
      BY <1>1 DEF IInv, Empty
    <3>3. cache'[k].count = cache[k].count
      BY <1>3, <2>2, <3>2
    <3>4. /\ PastIn(attempt', held'[k]) \subseteq PastIn(attempt, held[k])
          /\ StandIn(attempt, held[k], outages) \subseteq StandIn(attempt', held'[k], outages')
      BY <1>1, <3>1
    <3>5. outages' \in Nat /\ outages <= outages'
          /\ cache[k].count + outages <= cache'[k].count + outages'
      BY <1>1, <3>2, <3>3
    <3>6. Running(k)' => cache'[k].count <= 0 \/ (Running(k) /\ cache'[k].count <= cache[k].count)
      BY <1>3, <3>2, <3>3
    <3> QED
      BY <3>1, <3>2, <3>3, <3>4, <3>5, <3>6, BoundKept
  <2> QED
    BY <2>1, <2>2
<1>11. RefundsOwn'
  <2>1. ASSUME NEW k \in Keys, strays'[k] > 0
        PROVE  Late(k)'
    <3>1. ~Ends(k) /\ strays[k] > 0
      BY <1>3, <2>1
    <3>2. Late(k) /\ Running(k)
      BY <3>1 DEF IInv, RefundsOwn, Late
    <3>3. Running(k)'
      BY <1>1, <1>3, <3>1, <3>2 DEF Running, Ends
    <3> QED
      BY <1>7, <3>2, <3>3
  <2> QED
    BY <2>1 DEF RefundsOwn
<1> QED
  BY <1>4, <1>5, <1>6, <1>8, <1>9, <1>10, <1>11 DEF IInv

LEMMA NextKeeps ==
  ASSUME IInv, [ThrottleNext]_tvars
  PROVE  IInv'
<1>1. ASSUME NEW a \in Attempts, Try(a)
      PROVE  IInv'
  BY <1>1, AskPasswordKeeps, AskBiometricKeeps, AddKeeps, IncrKeeps, IncrMissedKeeps, SetKeeps,
     AuthenticateKeeps, ForgetKeeps, RefundKeeps, CacheFailsKeeps DEF Try
<1>2. ASSUME UNCHANGED tvars
      PROVE  IInv'
  <2>1. Typed' /\ Shapes' /\ ClaimsHeld'
    BY <1>2 DEF IInv, tvars, Typed, Shapes, ClaimsHeld, Claim
  <2>2. \A a \in Attempts : Stands(a, attempt[a])'
    BY <1>2 DEF IInv, tvars, Stands, Running, Late
  <2>3. \A k \in Keys : Lasts(k)' /\ Empty(k)' /\ Bounded(k)'
    BY <1>2 DEF IInv, tvars, Lasts, Empty, Bounded, Running
  <2>4. RefundsOwn'
    BY <1>2 DEF IInv, tvars, RefundsOwn, Late, Running
  <2> QED
    BY <2>1, <2>2, <2>3, <2>4 DEF IInv
<1> QED
  BY <1>1, <1>2, TickKeeps DEF ThrottleNext

-----------------------------------------------------------------------------
\* Whatever the sign-ins of Throttle do: every claim is accounted for, the
\* claim of an address stands while its window does, and a bucket counts no
\* fewer than were let past it and no more than stand (throttle.py).
THEOREM Invariance == ThrottleSpec => []IInv
<1>1. ThrottleInit => IInv
  BY StartHolds
<1>2. IInv /\ [ThrottleNext]_tvars => IInv'
  BY NextKeeps
<1> QED
  BY <1>1, <1>2, PTL DEF ThrottleSpec

\* A bucket that runs never counts more than the attempts whose claim stands:
\* no sign-in is refused for those that succeeded (release_password_attempts).
THEOREM OnlyFailuresCountAlways == ThrottleSpec => []OnlyFailuresCount
<1>1. IInv => OnlyFailuresCount
  <2>1. SUFFICES ASSUME IInv, NEW k \in Keys, Running(k)
                 PROVE  cache[k].count
                          <= Cardinality({a \in held[k] : outages > 0 \/ attempt[a].pc # "in"})
    BY DEF OnlyFailuresCount
  <2>2. cache[k].count <= Cardinality(StandIn(attempt, held[k], outages))
    BY <2>1 DEF IInv, Bounded
  <2>3. StandIn(attempt, held[k], outages)
          = {a \in held[k] : outages > 0 \/ attempt[a].pc # "in"}
    BY DEF StandIn
  <2> QED
    BY <2>2, <2>3
<1> QED
  BY <1>1, Invariance, PTL

\* One machine has one key for a bucket, whatever way it spells its address.
LEMMA OneKey ==
  ASSUME NEW p \in Peers, NEW q \in Peers, p.machine = q.machine
  PROVE  Address(p) = Address(q)
BY PeersAssumption DEF Address

\* A sign-in takes no claim back from a bucket that others opened after its
\* window, but from one that a late claim opened (refund_attempt, _address_key).
THEOREM RefundsOwnAlways == ThrottleSpec => []RefundsOwn
<1>1. IInv => RefundsOwn
  BY DEF IInv
<1> QED
  BY <1>1, Invariance, PTL

\* However the calls of parallel attempts interleave and however a machine
\* spells its address, a bucket lets no more of its attempts past than its
\* limit, the outages and the stray claims it was given back (register_attempt,
\* refund_attempt, _address_key).
THEOREM LimitHoldsAlways == ThrottleSpec => []LimitHolds
<1>1. IInv => LimitHolds
  <2>1. SUFFICES ASSUME IInv, NEW k \in Keys,
                        \A j \in raced : j.bucket # k.bucket \/ j.of # k.of, NEW p \in Peers
                 PROVE  Cardinality(Past(p.machine, k.bucket, k.of))
                          <= LimitOf(k.bucket) + outages + strays[AtMachine(k, p)]
    BY DEF LimitHolds
  <2>2. LimitOf(k.bucket) \in Nat /\ outages \in Nat /\ strays[AtMachine(k, p)] \in Nat
    <3>1. AtMachine(k, p) \in Keys
      BY DEF AtMachine, Keys
    <3> QED
      BY <2>1, <3>1, TimeoutIs DEF IInv, Typed
  <2>3. ASSUME NEW a \in Past(p.machine, k.bucket, k.of), NEW j \in Keys, j.bucket = k.bucket,
               j.of = k.of, a \in held[j], attempt[a].pc \notin {"refused", "in"}
        PROVE  j.address = Address(p)
    <3>1. a \in Attempts /\ attempt[a].machine = p.machine
      BY DEF Past
    <3>2. Claim(attempt[a], j) /\ attempt[a].pc \in {"unasked"} \cup Claiming \cup Checked
      BY <2>1, <2>3, <3>1 DEF IInv, Typed, ClaimsHeld, Active, Over
    <3>3. attempt[a].pc \in Claiming \cup Checked /\ j \in {attempt[a].address, attempt[a].own}
      BY <3>2 DEF Claim
    <3>4. Shape(attempt[a], window)
      BY <2>1, <3>1, <3>3 DEF IInv, Shapes
    <3>5. PICK q \in Peers : q.machine = attempt[a].machine /\ j.address = Address(q)
      BY <3>3, <3>4 DEF Shape
    <3> QED
      BY <3>1, <3>5, OneKey
  <2>4. CASE Past(p.machine, k.bucket, k.of) = {}
    BY <2>2, <2>4, FS_EmptySet
  <2>5. CASE Past(p.machine, k.bucket, k.of) # {}
    <3>1. PICK b \in Past(p.machine, k.bucket, k.of) : TRUE
      BY <2>5
    <3>2. PICK j \in Keys : j.bucket = k.bucket /\ j.of = k.of /\ b \in held[j]
                            /\ attempt[b].pc \notin {"refused", "in"}
      BY <3>1 DEF Past
    <3>3. Past(p.machine, k.bucket, k.of) \subseteq PastIn(attempt, held[j])
      <4>1. SUFFICES ASSUME NEW a \in Past(p.machine, k.bucket, k.of)
                     PROVE  a \in PastIn(attempt, held[j])
        OBVIOUS
      <4>2. PICK i \in Keys : i.bucket = k.bucket /\ i.of = k.of /\ a \in held[i]
                              /\ attempt[a].pc \notin {"refused", "in"}
        BY DEF Past
      <4>3. i.address = j.address
        BY <2>3, <3>1, <3>2, <4>2
      <4>4. i = j
        BY <3>2, <4>2, <4>3, KeyIs
      <4> QED
        BY <4>2, <4>4 DEF PastIn
    <3>4. j \notin raced
      BY <2>1, <3>2
    <3>5. Cardinality(PastIn(attempt, held[j])) <= LimitOf(j.bucket) + outages + strays[j]
      BY <2>1, <3>4 DEF IInv, Bounded
    <3>6. j = AtMachine(k, p)
      BY <2>3, <3>1, <3>2 DEF AtMachine, Keys
    <3>7. IsFiniteSet(PastIn(attempt, held[j]))
      BY <2>1, Sizes DEF IInv, Typed
    <3>8. /\ Cardinality(Past(p.machine, k.bucket, k.of)) <= Cardinality(PastIn(attempt, held[j]))
          /\ Cardinality(Past(p.machine, k.bucket, k.of)) \in Nat
          /\ Cardinality(PastIn(attempt, held[j])) \in Nat
      BY <3>3, <3>7, Fewer
    <3> QED
      BY <2>2, <3>2, <3>5, <3>6, <3>8
  <2> QED
    BY <2>4, <2>5
<1> QED
  BY <1>1, Invariance, PTL

\* No attempt puts off the end of a bucket that runs, but for the overwrite of
\* a late cache.set (register_attempt).
THEOREM WindowFixedAlways == ThrottleSpec => WindowFixed
<1> DEFINE Fixed == \A k \in Keys \ raced' : Running(k) => cache'[k].left <= cache[k].left
<1>1. IInv /\ [ThrottleNext]_tvars => Fixed
  <2>1. SUFFICES ASSUME IInv, [ThrottleNext]_tvars, NEW k \in Keys \ raced', Running(k)
                 PROVE  cache'[k].left <= cache[k].left
    OBVIOUS
  <2>2. cache[k].left \in Nat /\ Typed
    BY <2>1 DEF IInv, Typed
  <2>3. CASE UNCHANGED cache
    BY <2>2, <2>3
  <2>4. CASE Tick
    BY <2>1, <2>2, <2>4 DEF Tick, Missing, Running, Ends
  <2>5. ASSUME NEW j \in Keys, j = k \/ cache'[k] = cache[k],
               j = k => \/ cache' = Opened(j) \/ cache' = Counted(j) \/ cache' = Dropped(j)
                        \/ cache' = Refunded(j)
                        \/ cache' = Overwritten(j) /\ Races(j)
        PROVE  cache'[k].left <= cache[k].left
    <3>1. CASE j = k /\ cache' = Opened(j)
      BY <2>1, <2>2, <3>1 DEF Opened
    <3>2. CASE j = k /\ cache' = Counted(j)
      BY <2>2, <3>2, CountedIs
    <3>3. CASE j = k /\ cache' = Dropped(j)
      BY <2>2, <3>3, DroppedIs
    <3>4. CASE j = k /\ cache' = Refunded(j)
      BY <2>2, <3>4, RefundedIs
    <3>5. CASE j = k /\ cache' = Overwritten(j) /\ Races(j)
      BY <2>1, <3>5 DEF Races
    <3> QED
      BY <2>2, <2>5, <3>1, <3>2, <3>3, <3>4, <3>5
  <2>6. ASSUME NEW j \in Keys,
               \/ cache' = Opened(j) \/ cache' = Counted(j) \/ cache' = Dropped(j)
               \/ cache' = Refunded(j)
               \/ cache' = Overwritten(j) /\ Races(j)
        PROVE  cache'[k].left <= cache[k].left
    <3>1. j # k => cache'[k] = cache[k]
      BY <2>2, <2>6, OpenedIs, CountedIs, DroppedIs, RefundedIs, OverwrittenIs
    <3> QED
      BY <2>5, <2>6, <3>1
  <2>7. ASSUME NEW a \in Attempts, Try(a)
        PROVE  cache'[k].left <= cache[k].left
    <3>1. CASE attempt[a].pc \notin Claiming \cup Checked
      BY <2>2, <2>7, <3>1
         DEF Try, Claiming, Checked, AskPassword, AskBiometric, Add, Incr, IncrMissed, Set,
             Authenticate, Forget, Refund, CacheFails
    <3>2. CASE attempt[a].pc \in Claiming \cup Checked
      <4>1. {attempt[a].key, attempt[a].address, attempt[a].own} \subseteq Keys
        BY <2>2, <3>2, Phases
      <4>2. \/ cache' = cache
            \/ \E j \in {attempt[a].key, attempt[a].address, attempt[a].own} :
                 \/ cache' = Opened(j) \/ cache' = Counted(j) \/ cache' = Dropped(j)
                 \/ cache' = Refunded(j)
                 \/ cache' = Overwritten(j) /\ Races(j)
        BY <2>7 DEF Try, AskPassword, AskBiometric, Add, Incr, IncrMissed, Set, Authenticate,
                    Forget, Refund, Spent, CacheFails
      <4> QED
        BY <2>3, <2>6, <4>1, <4>2
    <3> QED
      BY <3>1, <3>2
  <2> QED
    BY <2>1, <2>3, <2>4, <2>7 DEF ThrottleNext, tvars
<1> QED
  BY <1>1, Invariance, PTL DEF ThrottleSpec, WindowFixed
=============================================================================
