------------------------------ MODULE Credential ------------------------------
(***************************************************************************)
(* One account and what opens it: its password, its sessions and the one    *)
(* device credential (todo/services.py, with the views that call it).  A    *)
(* login authenticates, replaces or keeps the session it came with, issues  *)
(* or revokes a token and has its session saved with the response, in that  *)
(* order and each in a transaction of its own; between them the account may *)
(* change, and the login goes on with the user it read.                     *)
(*                                                                         *)
(* A token, like a session, is named after the request that made it, and    *)
(* Origin is what was there before the first.  Time is counted in ticks,    *)
(* Ttl of them to the lifetime of a credential.                            *)
(***************************************************************************)
EXTENDS Integers, FiniteSets

CONSTANTS
  Requests,      \* the requests of a behaviour, each made once
  Origin,        \* the sign-in before them
  None,
  Ttl,
  MaxPassword,   \* bound: the last of the passwords 0, 1, ... the account has
  MaxSwitches    \* bound: changes an administrator makes to the account

ASSUME IdsAssumption == None \notin Requests \cup {Origin} /\ Origin \notin Requests
ASSUME TtlAssumption == Ttl \in Nat \ {0} /\ {MaxPassword, MaxSwitches} \subseteq Nat

VARIABLES
  account,    \* its password and whether it is active
  cred,       \* the BiometricCredential row: token, password it was issued against, time left
  sessions,   \* the sessions stored, each with the password it was opened against
  req,        \* what each request is doing
  lock,       \* the request whose transaction is under way, if a long one is
  proof,      \* history: the password that was proved at the root of each token and session
  life,       \* history: ticks since a password just proved began a credential's lifetime,
              \* and whether a rotation that found no row has made one since
  switches    \* the administrator's changes so far

cvars == <<account, cred, sessions, lock, proof, life, switches>>

Ids == Requests \cup {Origin}
Passwords == 0..MaxPassword
Idle == [pc |-> "idle"]
Done == [pc |-> "done"]
Becomes(r, x) == req' = [req EXCEPT ![r] = x]

SessionWorks(s) == s \in sessions /\ account.active /\ s.password = account.password
Expired == cred.left = 0
TokenWorks(k) == cred # None /\ cred.token = k /\ ~Expired /\ account.active
                 /\ cred.password = account.password

\* One device is signed in, and may have enrolled.
CredentialInit ==
  /\ account = [password |-> 0, active |-> TRUE]
  /\ cred \in {None, [token |-> Origin, password |-> 0, left |-> Ttl]}
  /\ sessions = {[id |-> Origin, password |-> 0]}
  /\ req = [r \in Requests |-> Idle] /\ lock = None
  /\ proof = [i \in Ids |-> 0] /\ switches = 0
  /\ life = [since |-> IF cred = None THEN Ttl ELSE 0, revived |-> FALSE]

\* A request that signs in carries the session its device has, or none.
Carried == sessions \cup {None}
Proven(r, password, optin, carried, proved) ==
  Becomes(r, [pc |-> "login", password |-> password, optin |-> optin, carried |-> carried,
              proved |-> proved])

\* login_view: authenticate finds the user, active and with this password.
PasswordLogin(r) ==
  /\ req[r].pc = "idle" /\ account.active
  /\ \E optin \in BOOLEAN, carried \in Carried : Proven(r, account.password, optin, carried, TRUE)
  /\ proof' = [proof EXCEPT ![r] = account.password]
  /\ UNCHANGED <<account, cred, sessions, lock, life, switches>>

\* biometric_login: the token is looked up, and a credential that is past its
\* lifetime, of an inactive user or of an older password is deleted.
Unusable == Expired \/ ~account.active \/ cred.password # account.password
BiometricLogin(r) ==
  /\ req[r].pc = "idle" /\ lock = None /\ cred # None
  /\ \/ Unusable /\ cred' = None /\ Becomes(r, Done) /\ UNCHANGED proof
     \/ /\ ~Unusable /\ UNCHANGED cred
        /\ \E carried \in Carried : Proven(r, account.password, TRUE, carried, FALSE)
        /\ proof' = [proof EXCEPT ![r] = proof[cred.token]]
  /\ UNCHANGED <<account, sessions, lock, life, switches>>

\* login(): the session it came with stays if it is of this user and password,
\* and is flushed otherwise.
Keeps(r) == req[r].carried # None /\ req[r].carried.password = req[r].password
Login(r) ==
  /\ req[r].pc = "login" /\ lock = None
  /\ sessions' = IF Keeps(r) THEN sessions ELSE sessions \ {req[r].carried}
  /\ req' = [req EXCEPT ![r].pc = "issue"]
  /\ UNCHANGED <<account, cred, lock, proof, life, switches>>

\* Mutant: the token is bound to the password the account has when it is issued.
FingerprintNow(r) == account.password
Fingerprint(r) == req[r].password
\* Mutant: every rotation starts the lifetime over.
LifetimeAnew(r) == Ttl
\* issue_biometric_token writes the row of the user it is given, or makes one:
\* a row that is there starts its lifetime over for a password just proved
\* only, a new one has it all.
Lifetime(r) == IF cred = None \/ req[r].proved THEN Ttl ELSE cred.left
Issue(r) ==
  /\ req[r].pc = "issue" /\ lock = None
  /\ cred' = IF req[r].optin
             THEN [token |-> r, password |-> Fingerprint(r), left |-> Lifetime(r)] ELSE None
  /\ req' = [req EXCEPT ![r].pc = "respond"]
  /\ life' = [since |-> IF req[r].optin /\ req[r].proved THEN 0 ELSE life.since,
              revived |-> req[r].optin /\ ~req[r].proved /\ (cred = None \/ life.revived)]
  /\ UNCHANGED <<account, sessions, lock, proof, switches>>

\* SessionMiddleware saves the session with the response: a new one, or the one
\* that was kept, unless it has been deleted meanwhile.
Respond(r) ==
  /\ req[r].pc = "respond" /\ lock = None
  /\ sessions' = IF Keeps(r) THEN sessions
                 ELSE sessions \cup {[id |-> r, password |-> req[r].password]}
  /\ Becomes(r, Done)
  /\ UNCHANGED <<account, cred, lock, proof, life, switches>>

\* logout_view flushes the session and leaves the credential.
Logout(r) ==
  /\ req[r].pc = "idle" /\ lock = None
  /\ \E s \in sessions : sessions' = sessions \ {s}
  /\ Becomes(r, Done) /\ UNCHANGED <<account, cred, lock, proof, life, switches>>

\* An administrator sets the password, switches the account off or on, or
\* deletes the credential of a lost device.
Administer ==
  /\ lock = None /\ switches < MaxSwitches /\ switches' = switches + 1
  /\ \/ /\ account.password < MaxPassword
        /\ account' = [account EXCEPT !.password = @ + 1] /\ UNCHANGED cred
     \/ account' = [account EXCEPT !.active = ~@] /\ UNCHANGED cred
     \/ cred # None /\ cred' = None /\ UNCHANGED account
  /\ UNCHANGED <<sessions, req, lock, proof, life>>

\* Time passes: a credential grows old.
Age ==
  /\ (cred # None /\ cred.left > 0) \/ life.since < Ttl
  /\ cred' = IF cred # None /\ cred.left > 0 THEN [cred EXCEPT !.left = @ - 1] ELSE cred
  /\ life' = IF life.since < Ttl THEN [life EXCEPT !.since = @ + 1] ELSE life
  /\ UNCHANGED <<account, sessions, req, lock, proof, switches>>

Enter(r) ==
  PasswordLogin(r) \/ BiometricLogin(r) \/ Login(r) \/ Issue(r) \/ Respond(r) \/ Logout(r)
=============================================================================
