------------------------------- MODULE Throttle -------------------------------
(***************************************************************************)
(* The attempt limits of the sign-in endpoints, todo/throttle.py, with the  *)
(* three callers that claim and release: login_view and biometric_login of  *)
(* todo/views.py and the form of the Admin.  A bucket is a cache entry: a   *)
(* count and the time it has left.  Every cache call of an attempt is a     *)
(* step of its own, so the calls of parallel attempts interleave, and any   *)
(* of them may raise instead of being answered, carried out or not.         *)
(*                                                                         *)
(* Time runs in ticks, Window of them to a window of the clock.            *)
(***************************************************************************)
EXTENDS Integers, FiniteSets

CONSTANTS
  Attempts,           \* the sign-in requests of a behaviour, each made once
  Peers,              \* the socket addresses they come from (see Address)
  Names, Tokens,      \* digests of the account names and tokens presented
  AddressLimit, AccountLimit, BiometricLimit,
  Window, BiometricWindow,
  MaxWindow,          \* bound: the last window of the clock
  MaxOutages          \* bound: cache calls that raise

ASSUME NamesAssumption == Names \cup Tokens \subseteq Nat
ASSUME LimitsAssumption ==
  {AddressLimit, AccountLimit, BiometricLimit, Window, BiometricWindow} \subseteq Nat \ {0}
ASSUME AttemptsAssumption == IsFiniteSet(Attempts)
ASSUME BoundsAssumption == MaxWindow \in Nat /\ MaxOutages \in Nat
\* The spellings of one machine: an IPv4 address and what wraps it, the IPv6
\* addresses of one network, or no address at all.
ASSUME PeersAssumption == \A p, q \in Peers : p.machine = q.machine =>
  \/ {p.form, q.form} \subseteq {"ipv4", "mapped"} /\ p.host = q.host
  \/ {p.form, q.form} = {"ipv6"} /\ p.network = q.network
  \/ {p.form, q.form} \cap {"ipv4", "mapped", "ipv6"} = {}

VARIABLES
  cache,     \* every bucket: its count and the ticks it has left
  window,    \* the current window of the clock
  rest,      \* ticks until that window ends
  attempt,   \* what each attempt is doing
  held,      \* history: for every bucket, the attempts its count should stand for
  raced,     \* history: the buckets a late cache.set overwrote while they ran
  strays,    \* history: for every bucket, the claims given back to it that were not its own
  outages    \* cache calls that have raised

tvars == <<cache, window, rest, attempt, held, raced, strays, outages>>

\* Mutant: a mapped address is taken for an IPv6 one and reduced to its /64.
AddressUnmapped(peer) ==
  CASE peer.form \in {"ipv6", "mapped"} -> peer.network
    [] peer.form = "ipv4" -> peer.host
    [] OTHER -> ""
\* One name per machine: an IPv6 peer is its /64, a mapped one the IPv4
\* address it wraps, and what is no address at all shares one name.
Address(peer) ==
  CASE peer.form = "ipv6" -> peer.network
    [] peer.form \in {"ipv4", "mapped"} -> peer.host
    [] OTHER -> ""

AddressKey(peer, w) == [bucket |-> "address", address |-> Address(peer), of |-> w]
AccountKey(peer, n) == [bucket |-> "account", address |-> Address(peer), of |-> n]
BiometricKey(peer, t) == [bucket |-> "biometric", address |-> Address(peer), of |-> t]

Keys ==
  [bucket : {"address"}, address : {Address(p) : p \in Peers}, of : 0..MaxWindow]
  \cup [bucket : {"account"}, address : {Address(p) : p \in Peers}, of : Names]
  \cup [bucket : {"biometric"}, address : {Address(p) : p \in Peers}, of : Tokens]
LimitOf(bucket) == CASE bucket = "address" -> AddressLimit
                     [] bucket = "account" -> AccountLimit
                     [] OTHER -> BiometricLimit
Timeout(k) == IF k.bucket = "biometric" THEN BiometricWindow ELSE Window

Missing == [count |-> 0, left |-> 0]
Running(k) == cache[k].left > 0
Unasked == [pc |-> "unasked"]

ThrottleInit ==
  /\ cache = [k \in Keys |-> Missing]
  /\ window = 0 /\ rest = Window
  /\ attempt = [a \in Attempts |-> Unasked]
  /\ held = [k \in Keys |-> {}] /\ raced = {} /\ strays = [k \in Keys |-> 0] /\ outages = 0

Goes(a, pc) ==
  attempt' = [attempt EXCEPT ![a] = IF pc \in {"refused", "in"} THEN [pc |-> pc]
                                    ELSE [@ EXCEPT !.pc = pc]]

\* A password attempt names its window once, when it claims; a biometric one
\* has the token's bucket only.
AskPassword(a) ==
  /\ attempt[a].pc = "unasked"
  /\ \E p \in Peers, n \in Names :
       LET address == AddressKey(p, window) IN
       attempt' = [attempt EXCEPT ![a] = [pc |-> "add", machine |-> p.machine, key |-> address,
                                          address |-> address, own |-> AccountKey(p, n)]]
  /\ UNCHANGED <<cache, window, rest, held, raced, strays, outages>>
AskBiometric(a) ==
  /\ attempt[a].pc = "unasked"
  /\ \E p \in Peers, t \in Tokens :
       LET key == BiometricKey(p, t) IN
       attempt' = [attempt EXCEPT ![a] = [pc |-> "add", machine |-> p.machine, key |-> key,
                                          address |-> key, own |-> key]]
  /\ UNCHANGED <<cache, window, rest, held, raced, strays, outages>>

\* register_attempt reports `count': over the limit the attempt is refused
\* unchecked, and a password attempt goes on to its account's bucket.
Judge(a, count) ==
  IF count > LimitOf(attempt[a].key.bucket) THEN Goes(a, "refused")
  ELSE IF attempt[a].key = attempt[a].own THEN Goes(a, "authenticate")
  ELSE attempt' = [attempt EXCEPT ![a].pc = "add", ![a].key = attempt[a].own]
Claims(a) == held' = [held EXCEPT ![attempt[a].key] = @ \cup {a}]

\* cache.add opens a window and never resets a running one.
Opened(k) == IF Running(k) THEN cache ELSE [cache EXCEPT ![k] = [count |-> 0, left |-> Timeout(k)]]
Add(a) ==
  /\ attempt[a].pc = "add"
  /\ cache' = Opened(attempt[a].key) /\ Goes(a, "incr")
  /\ UNCHANGED <<window, rest, held, raced, strays, outages>>

\* cache.incr counts inside the window, atomically.
Counted(k) == [cache EXCEPT ![k].count = @ + 1]
Incr(a) ==
  LET k == attempt[a].key IN
  /\ attempt[a].pc = "incr" /\ Running(k)
  /\ cache' = Counted(k) /\ Claims(a) /\ Judge(a, cache[k].count + 1)
  /\ UNCHANGED <<window, rest, raced, strays, outages>>
IncrMissed(a) ==
  /\ attempt[a].pc = "incr" /\ ~Running(attempt[a].key)
  /\ Goes(a, "set")
  /\ UNCHANGED <<cache, window, rest, held, raced, strays, outages>>
Overwritten(k) == [cache EXCEPT ![k] = [count |-> 1, left |-> Timeout(k)]]
Races(k) == raced' = IF Running(k) THEN raced \cup {k} ELSE raced
Set(a) ==
  LET k == attempt[a].key IN
  /\ attempt[a].pc = "set"
  /\ cache' = Overwritten(k) /\ Races(k) /\ Claims(a) /\ Judge(a, 1)
  /\ UNCHANGED <<window, rest, strays, outages>>

\* authenticate, or the lookup of the token: what it finds is not the
\* throttle's business.  A failure keeps its claims.
Authenticate(a) ==
  /\ attempt[a].pc = "authenticate"
  /\ Goes(a, "failed") \/ Goes(a, "forget")
  /\ UNCHANGED <<cache, window, rest, held, raced, strays, outages>>

\* Mutant: a sign-in that succeeds keeps its claim on the address, though none
\* of it is to stand.
SettledAtOnce(a) == "in"
\* release: the account's (or token's) bucket is dropped, then a password
\* attempt gives its own address claim back.
Settled(a) == IF attempt[a].address = attempt[a].own THEN "in" ELSE "refund"
Dropped(k) == [cache EXCEPT ![k] = Missing]
Forget(a) ==
  LET k == attempt[a].own IN
  /\ attempt[a].pc = "forget"
  /\ cache' = Dropped(k) /\ held' = [held EXCEPT ![k] = {}] /\ raced' = raced \ {k}
  /\ Goes(a, Settled(a))
  /\ UNCHANGED <<window, rest, strays, outages>>

\* Mutant: the window is read again when the claim is given back.
SpentNow(a) == [attempt[a].address EXCEPT !.of = window]
Spent(a) == attempt[a].address
Refunded(k) == IF Running(k) THEN [cache EXCEPT ![k].count = @ - 1] ELSE cache
Refund(a) ==
  /\ attempt[a].pc = "refund"
  /\ cache' = Refunded(Spent(a))
  /\ held' = [held EXCEPT ![attempt[a].address] = @ \ {a}]
  /\ strays' = IF Running(Spent(a)) /\ a \notin held[Spent(a)]
               THEN [strays EXCEPT ![Spent(a)] = @ + 1] ELSE strays
  /\ Goes(a, "in")
  /\ UNCHANGED <<window, rest, raced, outages>>

\* A cache call raises, carried out or not: a claim then counts 0, which is
\* below every limit, and a release goes on without it.
CacheFails(a) ==
  LET k == attempt[a].key
      own == attempt[a].own IN
  /\ outages < MaxOutages /\ outages' = outages + 1
  /\ \/ /\ attempt[a].pc = "add" /\ Judge(a, 0) /\ Claims(a) /\ UNCHANGED raced
        /\ cache' \in {cache, Opened(k)}
     \/ /\ attempt[a].pc = "incr" /\ Judge(a, 0) /\ Claims(a) /\ UNCHANGED raced
        /\ cache' \in {cache} \cup (IF Running(k) THEN {Counted(k)} ELSE {})
     \/ /\ attempt[a].pc = "set" /\ Judge(a, 0) /\ Claims(a)
        /\ \/ UNCHANGED <<cache, raced>>
           \/ cache' = Overwritten(k) /\ Races(k)
     \/ /\ attempt[a].pc = "forget" /\ Goes(a, Settled(a)) /\ UNCHANGED raced
        /\ \/ UNCHANGED <<cache, held>>
           \/ cache' = Dropped(own) /\ held' = [held EXCEPT ![own] = {}]
     \/ /\ attempt[a].pc = "refund" /\ Goes(a, "in") /\ UNCHANGED <<held, raced>>
        /\ cache' \in {cache, Refunded(Spent(a))}
  /\ UNCHANGED <<window, rest, strays>>

\* Time passes between any two calls: buckets end, and windows of the clock
\* follow one another.
Ends(k) == cache[k].left = 1
Tick ==
  /\ IF rest > 1 THEN rest' = rest - 1 /\ UNCHANGED window
     ELSE window < MaxWindow /\ window' = window + 1 /\ rest' = Window
  /\ cache' = [k \in Keys |-> IF ~Running(k) \/ Ends(k) THEN Missing
                              ELSE [cache[k] EXCEPT !.left = @ - 1]]
  /\ held' = [k \in Keys |-> IF Ends(k) THEN {} ELSE held[k]]
  /\ raced' = {k \in raced : ~Ends(k)}
  /\ strays' = [k \in Keys |-> IF Ends(k) THEN 0 ELSE strays[k]]
  /\ UNCHANGED <<attempt, outages>>

Try(a) ==
  \/ AskPassword(a) \/ AskBiometric(a)
  \/ Add(a) \/ Incr(a) \/ IncrMissed(a) \/ Set(a)
  \/ Authenticate(a) \/ Forget(a) \/ Refund(a) \/ CacheFails(a)
ThrottleNext == Tick \/ \E a \in Attempts : Try(a)
ThrottleSpec == ThrottleInit /\ [][ThrottleNext]_tvars

-----------------------------------------------------------------------------
\* The attempts of a machine that were let past its bucket for x: checked, or on
\* their way to be.
Past(machine, bucket, x) ==
  {a \in Attempts : \E k \in Keys :
     /\ k.bucket = bucket /\ k.of = x /\ a \in held[k]
     /\ attempt[a].pc \notin {"refused", "in"} /\ attempt[a].machine = machine
     /\ attempt[a].key = k => attempt[a].pc \notin {"add", "incr", "set"}}

\* The bucket of k's kind that counts the attempts of peer p.
AtMachine(k, p) == [k EXCEPT !.address = Address(p)]

\* However the calls of parallel attempts interleave, however late a sign-in
\* that outlived its window gives its claim back, and however a machine spells
\* its address, at most the limit of its unsuccessful or undecided attempts is
\* let past a bucket between its opening and its end, and one more for every
\* call the cache failed and every stray claim the bucket was given back.  The
\* overwrite register_attempt's comment admits is outside the promise
\* (register_attempt, refund_attempt, _address_key).
LimitHolds ==
  \A k \in Keys : (\A j \in raced : j.bucket # k.bucket \/ j.of # k.of) => \A p \in Peers :
    Cardinality(Past(p.machine, k.bucket, k.of))
      <= LimitOf(k.bucket) + outages + strays[AtMachine(k, p)]

\* An address bucket that a claim opened after its window: one that was opened
\* in time ends before the window after its own does.
Late(k) ==
  /\ k.bucket = "address" /\ Running(k) /\ k.of < window
  /\ cache[k].left >= rest \/ k.of + 1 < window

\* A sign-in gives its claim back to the bucket that counted it: however long
\* it was checked, it takes no attempt back from a window that others have
\* opened since.  Only a claim that had read its window before the window
\* ended, and counts after it, opens a bucket that can take one
\* (refund_attempt: "never more than was claimed"; _address_key).
RefundsOwn == \A k \in Keys : strays[k] > 0 => Late(k)

\* A bucket never counts more than the attempts whose claim still stands, so
\* no attempt is refused but for claims that failed, are undecided or were
\* never given back because the cache raised: honest users behind one address
\* cannot lock each other out (release_password_attempts).
OnlyFailuresCount ==
  \A k \in Keys : Running(k) =>
    cache[k].count <= Cardinality({a \in held[k] : outages > 0 \/ attempt[a].pc # "in"})

\* A window is fixed: no attempt puts off the end of a bucket that is running,
\* so whoever is locked out is let in again when the first attempt is a window
\* old.  The overwrite of a late cache.set is the exception (register_attempt).
WindowFixed ==
  [][\A k \in Keys \ raced' : Running(k) => cache'[k].left <= cache[k].left]_tvars
=============================================================================
