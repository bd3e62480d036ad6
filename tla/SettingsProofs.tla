---------------------------- MODULE SettingsProofs ----------------------------
(***************************************************************************)
(* What Settings and Credential say of an account, for any number of        *)
(* requests, passwords, faults and crashes.                                 *)
(***************************************************************************)
EXTENDS Settings, TLAPS

-----------------------------------------------------------------------------
\* What a request is doing, by the phase it is in.

Txn == {"details", "file", "row", "switch", "commit"}
Past == {"hooks", "done"}
Stored == [id : Ids, password : Nat]
Profiles == [details : Ids, avatar : Ids \cup {None}, theme : Themes \cup {""}]
PlainReq == [pc : {"idle"} \cup Past]
LoginReq == [pc : {"login", "issue", "respond"}, password : Nat, optin : BOOLEAN,
             carried : Stored \cup {None}, proved : BOOLEAN]
BeginReq == [pc : {"begin"}, photo : BOOLEAN, off : BOOLEAN]
SaveReq == [pc : Txn, photo : BOOLEAN, off : BOOLEAN, work : Profiles]
Reqs == PlainReq \cup LoginReq \cup BeginReq \cup SaveReq
Hooks == [tell : BOOLEAN, old : Ids \cup {None}]
Cred == [token : Ids, password : Nat, left : Nat]

Typed ==
  /\ account \in [password : Nat, active : BOOLEAN] /\ cred \in Cred \cup {None}
  /\ sessions \subseteq Stored /\ proof \in [Ids -> Nat]
  /\ req \in [Requests -> Reqs]
  /\ profile \in Profiles /\ files \subseteq Ids /\ hooks \in [Requests -> Hooks]
  /\ reply \in [Requests -> {"none", "failed", "saved"}]
  /\ faults \in [database : Nat, storage : Nat, crash : Nat]

-----------------------------------------------------------------------------
\* What opens the account is bound to the password at its root, and what a
\* request will make is named after it only once it has been made.

Roots ==
  /\ \A s \in sessions :
       s.password = proof[s.id] /\ (s.id \in Requests => req[s.id].pc = "done")
  /\ cred # None =>
       /\ cred.password = proof[cred.token]
       /\ cred.token \in Requests => req[cred.token].pc \in {"respond", "done"}
  /\ \A r \in Requests :
       req[r].pc \in {"login", "issue", "respond"} => req[r].password = proof[r]

\* A save under way: it holds the database, its rows differ from the committed
\* ones in what it wrote, and its file and callbacks are those of its phase.
Working(r) ==
  LET x == req[r]
      h == hooks[r] IN
  /\ x.pc \in Txn =>
       /\ lock = r
       /\ x.work.details \in {profile.details, r} /\ x.work.avatar \in {profile.avatar, r}
  /\ x.pc \in {"details", "file", "row"} => x.work.avatar = profile.avatar /\ h.old = None
  /\ x.pc = "details" => x.work.details = profile.details
  /\ x.pc \in Txn \ {"details"} => h.tell
  /\ x.pc = "row" => r \in files
  /\ x.pc \in {"switch", "commit"} =>
       \/ x.work.avatar = r /\ r \in files /\ h.old = profile.avatar
       \/ x.work.avatar = profile.avatar /\ r \notin files /\ h.old = None
  /\ x.pc \notin Txn \cup {"hooks"} => h = NoHooks
  /\ x.pc \notin Txn \cup Past => r \notin files
  /\ x.pc \in {"details", "file"} => r \notin files

\* A photo that waits to be deleted is no longer the profile's, and it is the
\* work of a save that is past its commit; so are what the profile names.
Waiting(r) ==
  /\ req[r].pc = "hooks" => hooks[r].old = None \/ hooks[r].old # profile.avatar
  /\ hooks[r].old \in Requests => req[hooks[r].old].pc \in Past
Named ==
  \A r \in Requests : r \in {profile.details, profile.avatar} => req[r].pc \in Past

\* What each answer says.
Answered(r) ==
  /\ reply[r] # "none" => req[r].pc = "done"
  /\ reply[r] = "failed" =>
       r \notin {profile.details, profile.avatar} /\ (faults.storage = 0 => r \notin files)
  /\ req[r].pc = "hooks" /\ profile.details = r => hooks[r].tell \/ r \in told
  /\ reply[r] = "saved" /\ profile.details = r => r \in told

Saves ==
  /\ Named /\ StorageAgrees
  /\ \A r \in Requests : Working(r) /\ Waiting(r) /\ Answered(r)
IInv == Typed /\ Roots /\ Saves

-----------------------------------------------------------------------------
\* Lemmas about any step.

\* The phase says what a request holds.
LEMMA Phases ==
  ASSUME Typed, NEW r \in Requests
  PROVE  /\ req[r] \in Reqs /\ hooks[r] \in Hooks /\ r \in Ids
         /\ req[r].pc \in {"login", "issue", "respond"} => req[r] \in LoginReq
         /\ req[r].pc = "begin" => req[r] \in BeginReq
         /\ req[r].pc \in Txn => req[r] \in SaveReq
BY DEF Typed, Reqs, PlainReq, LoginReq, BeginReq, SaveReq, Txn, Past, Ids

\* Request r goes on to x, and the others rest.
Moves(r, x) ==
  req' = [req EXCEPT ![r] = x]
LEMMA Moved ==
  ASSUME Typed, NEW r \in Requests, NEW x \in Reqs, Moves(r, x)
  PROVE  /\ req' \in [Requests -> Reqs] /\ req'[r] = x
         /\ \A q \in Requests \ {r} : req'[q] = req[q]
BY DEF Moves, Typed

\* A request of the sign-in doors leaves the saves alone.
LEMMA SavesRest ==
  ASSUME IInv, NEW r \in Requests, NEW x \in Reqs, Moves(r, x),
         req[r].pc \notin Txn \cup Past, x.pc \notin Txn \cup {"hooks"},
         UNCHANGED <<lock, svars>>
  PROVE  Saves'
<1>1. /\ req'[r] = x /\ \A q \in Requests \ {r} : req'[q] = req[q]
      /\ lock' = lock /\ profile' = profile /\ files' = files /\ hooks' = hooks
      /\ told' = told /\ faults' = faults /\ reply' = reply
  BY Moved DEF svars, IInv
<1>2. Named'
  BY <1>1 DEF IInv, Saves, Named
<1>3. StorageAgrees'
  <2>1. AvatarStored'
    BY <1>1 DEF IInv, Saves, StorageAgrees, AvatarStored
  <2>2. NoOrphans'
    BY <1>1 DEF IInv, Saves, StorageAgrees, NoOrphans, Txn
  <2> QED
    BY <2>1, <2>2 DEF StorageAgrees
<1>4. ASSUME NEW q \in Requests
      PROVE  Working(q)'
  BY <1>1 DEF IInv, Saves, Working, Txn, Past
<1>5. ASSUME NEW q \in Requests
      PROVE  Waiting(q)'
  BY <1>1 DEF IInv, Saves, Waiting, Txn, Past
<1>6. ASSUME NEW q \in Requests
      PROVE  Answered(q)'
  BY <1>1 DEF IInv, Saves, Answered, Txn, Past
<1> QED
  BY <1>2, <1>3, <1>4, <1>5, <1>6 DEF Saves

\* A save leaves what opens the account alone, unless it closes a door.
LEMMA RootsRest ==
  ASSUME IInv, NEW r \in Requests, NEW x \in Reqs, Moves(r, x),
         req[r].pc \notin {"respond", "done"}, x.pc \notin {"login", "issue", "respond"},
         UNCHANGED <<sessions, proof>>, cred' \in {cred, None}
  PROVE  Roots'
<1>1. req'[r] = x /\ \A q \in Requests \ {r} : req'[q] = req[q]
  BY Moved DEF IInv
<1> QED
  BY <1>1 DEF IInv, Roots

-----------------------------------------------------------------------------
\* Signing in and out.

LEMMA StartHolds ==
  ASSUME Init
  PROVE  IInv
<1>1. \A r \in Requests : req[r] = Idle /\ hooks[r] = NoHooks /\ reply[r] = "none"
  BY DEF Init, CredentialInit
<1>2. Origin \notin Requests /\ None \notin Requests /\ Origin \in Ids /\ Origin # None
  BY IdsAssumption DEF Ids
<1>3. Idle \in Reqs /\ Idle.pc = "idle" /\ NoHooks \in Hooks /\ NoHooks.old = None
  BY DEF Idle, Reqs, PlainReq, NoHooks, Hooks
<1>4. PICK avatar \in {None, Origin} :
        /\ profile = [details |-> Origin, avatar |-> avatar, theme |-> ""]
        /\ files = {avatar} \ {None}
  BY DEF Init
<1>5. /\ account = [password |-> 0, active |-> TRUE]
      /\ cred \in {None, [token |-> Origin, password |-> 0, left |-> Ttl]}
      /\ sessions = {[id |-> Origin, password |-> 0]} /\ proof = [i \in Ids |-> 0]
  BY DEF Init, CredentialInit
<1>6. Typed
  <2>1. cred \in Cred \cup {None}
    BY <1>2, <1>5, TtlAssumption DEF Cred
  <2>2. account \in [password : Nat, active : BOOLEAN]
    BY <1>5
  <2>3. sessions \subseteq Stored /\ proof \in [Ids -> Nat]
    BY <1>2, <1>5 DEF Stored
  <2>4. /\ req \in [Requests -> Reqs] /\ hooks \in [Requests -> Hooks]
        /\ reply \in [Requests -> {"none", "failed", "saved"}]
    BY <1>3 DEF Init, CredentialInit
  <2>5. profile \in Profiles /\ files \subseteq Ids
    BY <1>2, <1>4 DEF Profiles
  <2>6. faults \in [database : Nat, storage : Nat, crash : Nat]
    BY DEF Init
  <2> QED
    BY <2>1, <2>2, <2>3, <2>4, <2>5, <2>6 DEF Typed
<1>7. Roots
  BY <1>1, <1>2, <1>3, <1>5 DEF Roots
<1>8. Named /\ StorageAgrees
  BY <1>2, <1>4 DEF Named, StorageAgrees, AvatarStored, NoOrphans
<1>9. ASSUME NEW r \in Requests
      PROVE  Working(r) /\ Waiting(r) /\ Answered(r)
  BY <1>1, <1>2, <1>3, <1>4 DEF Working, Waiting, Answered, Txn, Past
<1> QED
  BY <1>6, <1>7, <1>8, <1>9 DEF IInv, Saves

LEMMA PasswordLoginKeeps ==
  ASSUME IInv, NEW r \in Requests, PasswordLogin(r), UNCHANGED svars
  PROVE  IInv'
<1>1. PICK optin \in BOOLEAN, carried \in Carried :
        Proven(r, account.password, optin, carried, TRUE)
  BY DEF PasswordLogin
<1> DEFINE x == [pc |-> "login", password |-> account.password, optin |-> optin,
                 carried |-> carried, proved |-> TRUE]
<1>2. x \in LoginReq
  BY DEF IInv, Typed, Carried, LoginReq
<1>3. Moves(r, x) /\ x \in Reqs /\ x.pc = "login" /\ x.password = account.password
  BY <1>1, <1>2 DEF Proven, Becomes, Moves, Reqs
<1> HIDE DEF x
<1>4. /\ req'[r] = x /\ \A q \in Requests \ {r} : req'[q] = req[q]
      /\ req' \in [Requests -> Reqs] /\ req[r].pc = "idle" /\ r \in Ids
  BY <1>3, Moved, Phases DEF IInv, PasswordLogin
<1>5. /\ proof' = [proof EXCEPT ![r] = account.password] /\ account' = account /\ cred' = cred
      /\ sessions' = sessions /\ lock' = lock
  BY DEF PasswordLogin
<1>6. Typed'
  BY <1>4, <1>5 DEF IInv, Typed, svars
<1>7. Roots'
  BY <1>3, <1>4, <1>5 DEF IInv, Typed, Roots, Cred, Stored
<1>8. Saves'
  BY <1>3, <1>4, <1>5, SavesRest DEF Txn, Past
<1> QED
  BY <1>6, <1>7, <1>8 DEF IInv

LEMMA BiometricLoginKeeps ==
  ASSUME IInv, NEW r \in Requests, BiometricLogin(r), UNCHANGED svars
  PROVE  IInv'
<1>1. /\ account' = account /\ sessions' = sessions /\ lock' = lock
      /\ req[r].pc = "idle" /\ cred # None /\ cred \in Cred /\ r \in Ids
  BY Phases DEF BiometricLogin, IInv, Typed
<1>2. CASE Unusable
  <2>1. CASE cred' = None /\ Becomes(r, Done) /\ UNCHANGED proof
    <3>1. Done \in Reqs /\ Done.pc = "done" /\ Moves(r, Done)
      BY <2>1 DEF Reqs, PlainReq, Past, Done, Moves, Becomes
    <3>2. Typed'
      BY <1>1, <2>1, <3>1, Moved DEF IInv, Typed, svars
    <3>3. Roots'
      BY <1>1, <2>1, <3>1, RootsRest
    <3>4. Saves'
      BY <1>1, <3>1, SavesRest DEF Txn, Past
    <3> QED
      BY <3>2, <3>3, <3>4 DEF IInv
  <2> QED
    BY <1>2, <2>1 DEF BiometricLogin
<1>3. CASE ~Unusable
  <2>1. cred' = cred /\ proof' = [proof EXCEPT ![r] = proof[cred.token]]
        /\ cred.password = account.password
    BY <1>3 DEF BiometricLogin, Unusable
  <2>2. PICK carried \in Carried : Proven(r, account.password, TRUE, carried, FALSE)
    BY <1>3 DEF BiometricLogin
  <2> DEFINE x == [pc |-> "login", password |-> account.password, optin |-> TRUE,
                   carried |-> carried, proved |-> FALSE]
  <2>3. x \in LoginReq
    BY DEF IInv, Typed, Carried, LoginReq
  <2>4. Moves(r, x) /\ x \in Reqs /\ x.pc = "login" /\ x.password = account.password
    BY <2>2, <2>3 DEF Proven, Becomes, Moves, Reqs
  <2> HIDE DEF x
  <2>5. /\ req'[r] = x /\ \A q \in Requests \ {r} : req'[q] = req[q]
        /\ req' \in [Requests -> Reqs]
    BY <2>4, Moved DEF IInv
  <2>6. proof[cred.token] \in Nat /\ proof[cred.token] = account.password
    BY <1>1, <2>1 DEF IInv, Typed, Roots, Cred
  <2>7. Typed'
    BY <1>1, <2>1, <2>5, <2>6 DEF IInv, Typed, svars
  <2>8. Roots'
    BY <1>1, <2>1, <2>4, <2>5, <2>6 DEF IInv, Typed, Roots, Cred, Stored
  <2>9. Saves'
    BY <1>1, <2>4, SavesRest DEF Txn, Past
  <2> QED
    BY <2>7, <2>8, <2>9 DEF IInv
<1> QED
  BY <1>2, <1>3

LEMMA LoginKeeps ==
  ASSUME IInv, NEW r \in Requests, Login(r), UNCHANGED svars
  PROVE  IInv'
<1> DEFINE x == [req[r] EXCEPT !.pc = "issue"]
<1>1. req[r].pc = "login" /\ req[r] \in LoginReq
  BY Phases DEF Login, IInv
<1>2. x \in LoginReq /\ x.pc = "issue" /\ x.password = req[r].password /\ x \in Reqs
  BY <1>1 DEF LoginReq, Reqs
<1>3. Moves(r, x)
  BY DEF Login, Moves, IInv, Typed
<1> HIDE DEF x
<1>4. /\ req'[r] = x /\ \A q \in Requests \ {r} : req'[q] = req[q]
      /\ req' \in [Requests -> Reqs]
  BY <1>2, <1>3, Moved DEF IInv
<1>5. /\ account' = account /\ cred' = cred /\ lock' = lock /\ proof' = proof
      /\ sessions' \subseteq sessions
  BY DEF Login
<1>6. Typed'
  BY <1>4, <1>5 DEF IInv, Typed, svars
<1>7. Roots'
  BY <1>1, <1>2, <1>4, <1>5 DEF IInv, Roots
<1>8. Saves'
  BY <1>1, <1>2, <1>3, <1>5, SavesRest DEF Txn, Past
<1> QED
  BY <1>6, <1>7, <1>8 DEF IInv

LEMMA IssueKeeps ==
  ASSUME IInv, NEW r \in Requests, Issue(r), UNCHANGED svars
  PROVE  IInv'
<1> DEFINE x == [req[r] EXCEPT !.pc = "respond"]
<1>1. req[r].pc = "issue" /\ req[r] \in LoginReq /\ r \in Ids
  BY Phases DEF Issue, IInv
<1>2. x \in LoginReq /\ x.pc = "respond" /\ x.password = req[r].password /\ x \in Reqs
  BY <1>1 DEF LoginReq, Reqs
<1>3. Moves(r, x)
  BY DEF Issue, Moves, IInv, Typed
<1> HIDE DEF x
<1>4. /\ req'[r] = x /\ \A q \in Requests \ {r} : req'[q] = req[q]
      /\ req' \in [Requests -> Reqs]
  BY <1>2, <1>3, Moved DEF IInv
<1>5. /\ account' = account /\ lock' = lock /\ proof' = proof /\ sessions' = sessions
      /\ cred' \in {None, [token |-> r, password |-> req[r].password, left |-> Lifetime(r)]}
  BY DEF Issue, Fingerprint
<1>6. Lifetime(r) \in Nat
  BY TtlAssumption DEF Lifetime, IInv, Typed, Cred
<1>7. cred' \in Cred \cup {None}
  BY <1>1, <1>5, <1>6 DEF Cred, LoginReq
<1>8. Typed'
  BY <1>4, <1>5, <1>7 DEF IInv, Typed, svars
<1>9. Roots'
  BY <1>1, <1>2, <1>4, <1>5 DEF IInv, Roots
<1>10. Saves'
  BY <1>1, <1>2, <1>3, <1>5, SavesRest DEF Txn, Past
<1> QED
  BY <1>8, <1>9, <1>10 DEF IInv

LEMMA RespondKeeps ==
  ASSUME IInv, NEW r \in Requests, Respond(r), UNCHANGED svars
  PROVE  IInv'
<1> DEFINE s == [id |-> r, password |-> req[r].password]
<1>1. req[r].pc = "respond" /\ req[r] \in LoginReq /\ r \in Ids
  BY Phases DEF Respond, IInv
<1>2. Done \in Reqs /\ Done.pc = "done" /\ Moves(r, Done)
  BY DEF Reqs, PlainReq, Past, Done, Moves, Respond, Becomes
<1>3. /\ req'[r] = Done /\ \A q \in Requests \ {r} : req'[q] = req[q]
      /\ req' \in [Requests -> Reqs]
  BY <1>2, Moved DEF IInv
<1>4. /\ account' = account /\ cred' = cred /\ lock' = lock /\ proof' = proof
      /\ sessions' \subseteq sessions \cup {s}
  BY DEF Respond
<1>5. s \in Stored
  BY <1>1 DEF Stored, LoginReq
<1>6. Typed'
  BY <1>3, <1>4, <1>5 DEF IInv, Typed, svars
<1>7. req[r].password = proof[r]
  BY <1>1 DEF IInv, Roots
<1>8. Roots'
  BY <1>1, <1>2, <1>3, <1>4, <1>7 DEF IInv, Roots
<1>9. Saves'
  BY <1>1, <1>2, <1>4, SavesRest DEF Txn, Past
<1> QED
  BY <1>6, <1>8, <1>9 DEF IInv

LEMMA LogoutKeeps ==
  ASSUME IInv, NEW r \in Requests, Logout(r), UNCHANGED svars
  PROVE  IInv'
<1>1. Done \in Reqs /\ Done.pc = "done" /\ Moves(r, Done) /\ req[r].pc = "idle"
  BY DEF Reqs, PlainReq, Past, Done, Moves, Logout, Becomes
<1>2. /\ req'[r] = Done /\ \A q \in Requests \ {r} : req'[q] = req[q]
      /\ req' \in [Requests -> Reqs]
  BY <1>1, Moved DEF IInv
<1>3. /\ account' = account /\ cred' = cred /\ lock' = lock /\ proof' = proof
      /\ sessions' \subseteq sessions
  BY DEF Logout
<1>4. Typed'
  BY <1>2, <1>3 DEF IInv, Typed, svars
<1>5. Roots'
  BY <1>1, <1>2, <1>3 DEF IInv, Roots
<1>6. Saves'
  BY <1>1, <1>3, SavesRest DEF Txn, Past
<1> QED
  BY <1>4, <1>5, <1>6 DEF IInv

\* The administrator and time.
LEMMA ElsewhereKeeps ==
  ASSUME IInv, Administer \/ Age, UNCHANGED svars
  PROVE  IInv'
<1>1. UNCHANGED <<sessions, req, lock, proof>>
  BY DEF Administer, Age
<1>2. account' \in [password : Nat, active : BOOLEAN]
  <2>1. \/ account' = [account EXCEPT !.password = @ + 1]
        \/ account' = [account EXCEPT !.active = ~@]
        \/ account' = account
    BY DEF Administer, Age
  <2>2. account \in [password : Nat, active : BOOLEAN]
    BY DEF IInv, Typed
  <2>3. CASE account' = [account EXCEPT !.password = @ + 1]
    BY <2>2, <2>3
  <2>4. CASE account' = [account EXCEPT !.active = ~@]
    <3>1. (~account.active) \in BOOLEAN
      OBVIOUS
    <3> QED
      BY <2>2, <2>4, <3>1, Zenon
  <2> QED
    BY <2>1, <2>2, <2>3, <2>4
<1>3. cred' # None => /\ cred # None /\ cred' \in Cred /\ cred'.token = cred.token
                      /\ cred'.password = cred.password
  BY DEF Administer, Age, IInv, Typed, Cred
<1>4. Typed'
  BY <1>1, <1>2, <1>3 DEF IInv, Typed, svars
<1>5. Roots'
  BY <1>1, <1>3 DEF IInv, Roots
<1>6. Saves'
  BY <1>1 DEF IInv, Saves, Named, StorageAgrees, AvatarStored, NoOrphans, Working, Waiting,
     Answered, svars
<1> QED
  BY <1>4, <1>5, <1>6 DEF IInv

\* Saving.

\* What a step of a save keeps apart from the saves themselves.
LEMMA SaveFrame ==
  ASSUME IInv, NEW r \in Requests, NEW x \in Reqs, Moves(r, x),
         req[r].pc \notin {"respond", "done"}, x.pc \notin {"login", "issue", "respond"},
         UNCHANGED <<account, sessions, proof>>, cred' \in {cred, None},
         profile' \in Profiles, files' \subseteq Ids, hooks' \in [Requests -> Hooks],
         reply' \in [Requests -> {"none", "failed", "saved"}],
         faults' \in [database : Nat, storage : Nat, crash : Nat], Saves'
  PROVE  IInv'
<1>1. Roots'
  BY RootsRest
<1>2. Typed'
  BY Moved DEF IInv, Typed
<1> QED
  BY <1>1, <1>2 DEF IInv

\* Where a save goes from its record y.
Saving(pc, y, work) == [pc |-> pc, photo |-> y.photo, off |-> y.off, work |-> work]
LEMMA SavingIs ==
  ASSUME NEW y \in SaveReq, NEW pc \in Txn, NEW work \in Profiles
  PROVE  LET x == Saving(pc, y, work) IN
         x \in SaveReq /\ x \in Reqs /\ x.pc = pc /\ x.work = work
BY DEF Saving, SaveReq, Reqs
LEMMA SavingStep ==
  ASSUME Typed, NEW r \in Requests, req[r] \in SaveReq, NEW pc \in Txn,
         req' = [req EXCEPT ![r].pc = pc]
  PROVE  Moves(r, Saving(pc, req[r], req[r].work))
<1>1. [req[r] EXCEPT !.pc = pc] = Saving(pc, req[r], req[r].work)
  BY DEF Saving, SaveReq
<1>2. req' = [req EXCEPT ![r] = [req[r] EXCEPT !.pc = pc]]
  BY DEF Typed
<1> QED
  BY <1>1, <1>2 DEF Moves

\* One request's callbacks become h.
LEMMA HooksAre ==
  ASSUME Typed, NEW r \in Requests, NEW h \in Hooks, hooks' = [hooks EXCEPT ![r] = h]
  PROVE  /\ hooks' \in [Requests -> Hooks] /\ hooks'[r] = h
         /\ \A q \in Requests \ {r} : hooks'[q] = hooks[q]
BY DEF Typed
LEMMA HookTells ==
  ASSUME Typed, NEW r \in Requests, NEW tell \in BOOLEAN,
         hooks' = [hooks EXCEPT ![r].tell = tell]
  PROVE  /\ hooks' \in [Requests -> Hooks] /\ hooks'[r].old = hooks[r].old
         /\ hooks'[r].tell = tell /\ \A q \in Requests \ {r} : hooks'[q] = hooks[q]
<1> DEFINE h == [hooks[r] EXCEPT !.tell = tell]
<1>1. hooks[r] \in Hooks
  BY DEF Typed
<1>2. h \in Hooks /\ h.tell = tell /\ h.old = hooks[r].old
  BY <1>1 DEF Hooks
<1> HIDE DEF h
<1>3. hooks' = [hooks EXCEPT ![r] = h]
  BY DEF h
<1> QED
  BY <1>2, <1>3, HooksAre

\* A process that has not begun holds nothing.
LEMMA DoneIs ==
  /\ Done \in Reqs /\ Done.pc = "done"
  /\ [pc |-> "hooks"] \in Reqs /\ [pc |-> "hooks"].pc = "hooks"
BY DEF Reqs, PlainReq, Past, Done

\* A fault is counted.
LEMMA FaultIs ==
  ASSUME Typed, NEW kind \in {"database", "storage"}, Fault(kind)
  PROVE  /\ faults' \in [database : Nat, storage : Nat, crash : Nat]
         /\ faults'[kind] # 0 /\ faults'.crash = faults.crash
         /\ kind = "database" => faults'.storage = faults.storage
BY DEF Fault, Typed

LEMMA SaveKeeps ==
  ASSUME IInv, NEW r \in Requests, Save(r)
  PROVE  IInv'
<1>1. PICK photo \in BOOLEAN, off \in BOOLEAN :
        Becomes(r, [pc |-> "begin", photo |-> photo, off |-> off])
  BY DEF Save
<1> DEFINE x == [pc |-> "begin", photo |-> photo, off |-> off]
<1>2. x \in Reqs /\ x.pc = "begin" /\ Moves(r, x) /\ req[r].pc = "idle"
  BY <1>1 DEF Save, Becomes, Moves, Reqs, BeginReq
<1> HIDE DEF x
<1>3. UNCHANGED <<account, sessions, proof, cred, lock, svars>>
  BY DEF Save, cvars
<1>4. Saves'
  BY <1>2, <1>3, SavesRest DEF Txn, Past
<1> QED
  BY <1>2, <1>3, <1>4, SaveFrame DEF svars, IInv, Typed

LEMMA BeginKeeps ==
  ASSUME IInv, NEW r \in Requests, Begin(r)
  PROVE  IInv'
<1> DEFINE x == [pc |-> "details", photo |-> req[r].photo, off |-> req[r].off, work |-> profile]
<1>1. req[r].pc = "begin" /\ req[r] \in BeginReq /\ profile \in Profiles
  BY Phases DEF Begin, IInv, Typed
<1>2. x \in Reqs /\ x.pc = "details" /\ x.work = profile
  BY <1>1 DEF Reqs, SaveReq, BeginReq, Txn
<1>3. Moves(r, x)
  BY DEF Begin, Becomes, Moves
<1> HIDE DEF x
<1>4. /\ req'[r] = x /\ \A q \in Requests \ {r} : req'[q] = req[q]
      /\ lock = None /\ lock' = r
      /\ profile' = profile /\ files' = files /\ hooks' = hooks /\ told' = told
      /\ faults' = faults /\ reply' = reply
  BY <1>2, <1>3, Moved DEF Begin, svars, IInv
<1>5. UNCHANGED <<account, cred, sessions, proof>>
  BY DEF Begin
<1>6. None \notin Requests /\ NoHooks.old = None
  BY IdsAssumption DEF NoHooks
<1>7. Named'
  BY <1>1, <1>2, <1>4, <1>6 DEF IInv, Saves, Named, Txn, Past
<1>8. AvatarStored'
  BY <1>1, <1>2, <1>4, <1>6
     DEF IInv, Saves, StorageAgrees, AvatarStored, Named, Working, Waiting, Txn, Past
<1>9. NoOrphans'
  BY <1>1, <1>2, <1>4, <1>6 DEF IInv, Saves, StorageAgrees, NoOrphans, Working, Waiting, Txn, Past
<1>10. ASSUME NEW q \in Requests
      PROVE  Working(q)'
  BY <1>1, <1>2, <1>4, <1>6 DEF IInv, Saves, Named, Working, Waiting, Txn, Past
<1>11. ASSUME NEW q \in Requests
      PROVE  Waiting(q)'
  BY <1>1, <1>2, <1>4, <1>6 DEF IInv, Saves, Named, Waiting, Working, Txn, Past
<1>12. ASSUME NEW q \in Requests
      PROVE  Answered(q)'
  BY <1>1, <1>2, <1>4, <1>6 DEF IInv, Saves, Named, Working, Answered, Txn, Past
<1>13. Saves'
  BY <1>7, <1>8, <1>9, <1>10, <1>11, <1>12 DEF Saves, StorageAgrees
<1> QED
  BY <1>1, <1>2, <1>3, <1>4, <1>5, <1>13, SaveFrame DEF IInv, Typed

LEMMA DetailsKeeps ==
  ASSUME IInv, NEW r \in Requests, Details(r)
  PROVE  IInv'
<1> DEFINE w == [req[r].work EXCEPT !.details = r]
           pc == IF req[r].photo THEN "file" ELSE "switch"
           x == Saving(pc, req[r], w)
<1>1. req[r].pc = "details" /\ req[r] \in SaveReq /\ r \in Ids /\ pc \in Txn
  BY Phases DEF Details, IInv, Txn
<1>2. w \in Profiles /\ w.details = r /\ w.avatar = req[r].work.avatar
  BY <1>1 DEF SaveReq, Profiles
<1>3. req' = [req EXCEPT ![r] = x]
  BY <1>1 DEF Details, Saving, SaveReq, IInv, Typed
<1>4. x \in Reqs /\ x.pc = pc /\ x.work = w /\ pc \in {"file", "switch"}
  BY <1>1, <1>2, SavingIs
<1> HIDE DEF x, w, pc
<1>5. Moves(r, x)
  BY <1>3 DEF Moves
<1>6. /\ req'[r] = x /\ \A q \in Requests \ {r} : req'[q] = req[q]
      /\ lock' = lock /\ profile' = profile /\ files' = files /\ told' = told
      /\ faults' = faults /\ reply' = reply
  BY <1>4, <1>5, Moved DEF Details, cvars, IInv
<1>7. UNCHANGED <<account, cred, sessions, proof>>
  BY DEF Details, cvars
<1>8. /\ \A q \in Requests \ {r} : hooks'[q] = hooks[q]
      /\ hooks' \in [Requests -> Hooks] /\ hooks'[r].tell /\ hooks'[r].old = hooks[r].old
  BY HookTells DEF Details, IInv
<1>9. Named'
  BY <1>1, <1>2, <1>4, <1>6, <1>8 DEF IInv, Saves, Named, Txn, Past
<1>10. AvatarStored'
  BY <1>1, <1>2, <1>4, <1>6, <1>8
     DEF IInv, Saves, StorageAgrees, AvatarStored, Named, Working, Waiting, Txn, Past
<1>11. NoOrphans'
  BY <1>1, <1>2, <1>4, <1>6, <1>8
     DEF IInv, Saves, StorageAgrees, NoOrphans, Working, Waiting, Txn, Past
<1>12. ASSUME NEW q \in Requests
      PROVE  Working(q)'
  BY <1>1, <1>2, <1>4, <1>6, <1>8 DEF IInv, Saves, Named, Working, Waiting, Txn, Past
<1>13. ASSUME NEW q \in Requests
      PROVE  Waiting(q)'
  BY <1>1, <1>2, <1>4, <1>6, <1>8 DEF IInv, Saves, Named, Waiting, Working, Txn, Past
<1>14. ASSUME NEW q \in Requests
      PROVE  Answered(q)'
  BY <1>1, <1>2, <1>4, <1>6, <1>8 DEF IInv, Saves, Named, Working, Answered, Txn, Past
<1>15. Saves'
  BY <1>9, <1>10, <1>11, <1>12, <1>13, <1>14 DEF Saves, StorageAgrees
<1> QED
  BY <1>1, <1>4, <1>5, <1>6, <1>7, <1>8, <1>15, SaveFrame DEF IInv, Typed

LEMMA StoreFileKeeps ==
  ASSUME IInv, NEW r \in Requests, StoreFile(r)
  PROVE  IInv'
<1> DEFINE x == Saving("row", req[r], req[r].work)
<1>1. req[r].pc = "file" /\ req[r] \in SaveReq /\ r \in Ids /\ req[r].work \in Profiles
  BY Phases DEF StoreFile, IInv, SaveReq, Txn
<1>2. "row" \in Txn
  BY DEF Txn
<1>3. x \in Reqs /\ x.pc = "row" /\ x.work = req[r].work
  BY <1>1, <1>2, SavingIs
<1>4. Moves(r, x)
  BY <1>1, <1>2, SavingStep DEF StoreFile, IInv
<1> HIDE DEF x
<1>5. /\ req'[r] = x /\ \A q \in Requests \ {r} : req'[q] = req[q]
      /\ files' = files \cup {r}
      /\ lock' = lock /\ profile' = profile /\ hooks' = hooks /\ told' = told
      /\ faults' = faults /\ reply' = reply
  BY <1>3, <1>4, Moved DEF StoreFile, cvars, IInv
<1>6. UNCHANGED <<account, cred, sessions, proof>>
  BY DEF StoreFile, cvars
<1>7. Named'
  BY <1>1, <1>3, <1>5 DEF IInv, Saves, Named, Txn, Past
<1>8. AvatarStored'
  BY <1>1, <1>3, <1>5
     DEF IInv, Saves, StorageAgrees, AvatarStored, Named, Working, Waiting, Txn, Past
<1>9. NoOrphans'
  BY <1>1, <1>3, <1>5 DEF IInv, Saves, StorageAgrees, NoOrphans, Working, Waiting, Txn, Past
<1>10. ASSUME NEW q \in Requests
      PROVE  Working(q)'
  BY <1>1, <1>3, <1>5 DEF IInv, Saves, Named, Working, Waiting, Txn, Past
<1>11. ASSUME NEW q \in Requests
      PROVE  Waiting(q)'
  BY <1>1, <1>3, <1>5 DEF IInv, Saves, Named, Waiting, Working, Txn, Past
<1>12. ASSUME NEW q \in Requests
      PROVE  Answered(q)'
  BY <1>1, <1>3, <1>5 DEF IInv, Saves, Named, Working, Answered, Txn, Past
<1>13. Saves'
  BY <1>7, <1>8, <1>9, <1>10, <1>11, <1>12 DEF Saves, StorageAgrees
<1> QED
  BY <1>1, <1>3, <1>4, <1>5, <1>6, <1>13, SaveFrame DEF IInv, Typed

LEMMA SaveRowKeeps ==
  ASSUME IInv, NEW r \in Requests, SaveRow(r)
  PROVE  IInv'
<1> DEFINE w == [req[r].work EXCEPT !.avatar = r]
           x == Saving("switch", req[r], w)
<1>1. req[r].pc = "row" /\ req[r] \in SaveReq /\ r \in Ids /\ req[r].work \in Profiles
  BY Phases DEF SaveRow, IInv, SaveReq, Txn
<1>2. w \in Profiles /\ w.avatar = r /\ w.details = req[r].work.details
  BY <1>1 DEF Profiles
<1>3. req' = [req EXCEPT ![r] = x]
  BY <1>1 DEF SaveRow, Saving, SaveReq, IInv, Typed
<1>4. x \in Reqs /\ x.pc = "switch" /\ x.work = w
  <2>1. "switch" \in Txn
    BY DEF Txn
  <2> QED
    BY <1>1, <1>2, <2>1, SavingIs
<1> HIDE DEF x, w
<1>5. Moves(r, x)
  BY <1>3 DEF Moves
<1>6. req[r].work.avatar \in Ids \cup {None}
  BY <1>1 DEF Profiles
<1>7. /\ req'[r] = x /\ \A q \in Requests \ {r} : req'[q] = req[q]
      /\ hooks'[r] = [tell |-> TRUE, old |-> req[r].work.avatar]
      /\ \A q \in Requests \ {r} : hooks'[q] = hooks[q]
      /\ hooks' \in [Requests -> Hooks]
      /\ lock' = lock /\ profile' = profile /\ files' = files /\ told' = told
      /\ faults' = faults /\ reply' = reply
  BY <1>4, <1>5, <1>6, Moved DEF SaveRow, cvars, IInv, Typed, Hooks
<1>8. UNCHANGED <<account, cred, sessions, proof>>
  BY DEF SaveRow, cvars
<1>9. \A f \in files : f # None
  BY IdsAssumption DEF IInv, Typed, Ids
<1>10. Named'
  BY <1>1, <1>2, <1>4, <1>7, <1>9 DEF IInv, Saves, Named, Txn, Past
<1>11. AvatarStored'
  BY <1>1, <1>2, <1>4, <1>7, <1>9
     DEF IInv, Saves, StorageAgrees, AvatarStored, Named, Working, Waiting, Txn, Past
<1>12. NoOrphans'
  BY <1>1, <1>2, <1>4, <1>7, <1>9
     DEF IInv, Saves, StorageAgrees, NoOrphans, Working, Waiting, Txn, Past
<1>13. ASSUME NEW q \in Requests
      PROVE  Working(q)'
  BY <1>1, <1>2, <1>4, <1>7, <1>9 DEF IInv, Saves, Named, Working, Waiting, Txn, Past
<1>14. ASSUME NEW q \in Requests
      PROVE  Waiting(q)'
  BY <1>1, <1>2, <1>4, <1>7, <1>9 DEF IInv, Saves, Named, Waiting, Working, Txn, Past
<1>15. ASSUME NEW q \in Requests
      PROVE  Answered(q)'
  BY <1>1, <1>2, <1>4, <1>7, <1>9 DEF IInv, Saves, Named, Working, Answered, Txn, Past
<1>16. Saves'
  BY <1>10, <1>11, <1>12, <1>13, <1>14, <1>15 DEF Saves, StorageAgrees
<1> QED
  BY <1>1, <1>4, <1>5, <1>7, <1>8, <1>16, SaveFrame DEF IInv, Typed

LEMMA SwitchKeeps ==
  ASSUME IInv, NEW r \in Requests, Switch(r)
  PROVE  IInv'
<1> DEFINE x == Saving("commit", req[r], req[r].work)
<1>1. req[r].pc = "switch" /\ req[r] \in SaveReq /\ req[r].work \in Profiles
  BY Phases DEF Switch, IInv, SaveReq, Txn
<1>2. "commit" \in Txn
  BY DEF Txn
<1>3. x \in Reqs /\ x.pc = "commit" /\ x.work = req[r].work
  BY <1>1, <1>2, SavingIs
<1>4. Moves(r, x)
  BY <1>1, <1>2, SavingStep DEF Switch, IInv
<1> HIDE DEF x
<1>5. /\ req'[r] = x /\ \A q \in Requests \ {r} : req'[q] = req[q]
      /\ lock' = lock /\ profile' = profile /\ files' = files /\ hooks' = hooks /\ told' = told
      /\ faults' = faults /\ reply' = reply
  BY <1>3, <1>4, Moved DEF Switch, cvars, svars, IInv
<1>6. UNCHANGED <<account, cred, sessions, proof>>
  BY DEF Switch, cvars
<1>7. Named'
  BY <1>1, <1>3, <1>5 DEF IInv, Saves, Named, Txn, Past
<1>8. AvatarStored'
  BY <1>1, <1>3, <1>5
     DEF IInv, Saves, StorageAgrees, AvatarStored, Named, Working, Waiting, Txn, Past
<1>9. NoOrphans'
  BY <1>1, <1>3, <1>5 DEF IInv, Saves, StorageAgrees, NoOrphans, Working, Waiting, Txn, Past
<1>10. ASSUME NEW q \in Requests
      PROVE  Working(q)'
  BY <1>1, <1>3, <1>5 DEF IInv, Saves, Named, Working, Waiting, Txn, Past
<1>11. ASSUME NEW q \in Requests
      PROVE  Waiting(q)'
  BY <1>1, <1>3, <1>5 DEF IInv, Saves, Named, Waiting, Working, Txn, Past
<1>12. ASSUME NEW q \in Requests
      PROVE  Answered(q)'
  BY <1>1, <1>3, <1>5 DEF IInv, Saves, Named, Working, Answered, Txn, Past
<1>13. Saves'
  BY <1>7, <1>8, <1>9, <1>10, <1>11, <1>12 DEF Saves, StorageAgrees
<1> QED
  BY <1>1, <1>3, <1>4, <1>5, <1>6, <1>13, SaveFrame DEF IInv, Typed

LEMMA CommitKeeps ==
  ASSUME IInv, NEW r \in Requests, Commit(r)
  PROVE  IInv'
<1> DEFINE x == [pc |-> "hooks"]
<1>1. req[r].pc = "commit" /\ req[r] \in SaveReq /\ req[r].work \in Profiles /\ lock = r
  BY Phases DEF Commit, IInv, SaveReq, Txn, Saves, Working
<1>2. x \in Reqs /\ x.pc = "hooks" /\ Moves(r, x)
  BY DoneIs DEF Commit, Becomes, Moves
<1> HIDE DEF x
<1>3. /\ req'[r] = x /\ \A q \in Requests \ {r} : req'[q] = req[q]
      /\ profile' = req[r].work
      /\ files' = files /\ hooks' = hooks /\ told' = told /\ faults' = faults /\ reply' = reply
  BY <1>2, Moved DEF Commit, IInv
<1>4. cred' \in {cred, None} /\ UNCHANGED <<account, sessions, proof>>
  BY DEF Commit
<1>5. \A q \in Requests \ {r} : req[q].pc \notin Txn
  BY <1>1 DEF IInv, Saves, Working
<1>6. /\ profile'.details \in {profile.details, r} /\ hooks[r].tell
      /\ \/ profile'.avatar = r /\ r \in files /\ hooks[r].old = profile.avatar
         \/ profile'.avatar = profile.avatar /\ r \notin files /\ hooks[r].old = None
  BY <1>1, <1>3 DEF IInv, Saves, Working, Txn
<1>7. None \notin Requests /\ NoHooks.old = None
  BY IdsAssumption DEF NoHooks
<1>8. Named'
  BY <1>1, <1>2, <1>3, <1>5, <1>6, <1>7 DEF IInv, Saves, Named, Txn, Past
<1>9. AvatarStored'
  BY <1>1, <1>2, <1>3, <1>5, <1>6, <1>7
     DEF IInv, Saves, StorageAgrees, AvatarStored, Named, Working, Waiting, Txn, Past
<1>10. NoOrphans'
  BY <1>1, <1>2, <1>3, <1>5, <1>6, <1>7
     DEF IInv, Saves, StorageAgrees, NoOrphans, Working, Waiting, Txn, Past
<1>11. ASSUME NEW q \in Requests
      PROVE  Working(q)'
  BY <1>1, <1>2, <1>3, <1>5, <1>6, <1>7 DEF IInv, Saves, Named, Working, Waiting, Txn, Past
<1>12. ASSUME NEW q \in Requests
      PROVE  Waiting(q)'
  BY <1>1, <1>2, <1>3, <1>5, <1>6, <1>7 DEF IInv, Saves, Named, Waiting, Working, Txn, Past
<1>13. ASSUME NEW q \in Requests
      PROVE  Answered(q)'
  BY <1>1, <1>2, <1>3, <1>5, <1>6, <1>7 DEF IInv, Saves, Named, Working, Answered, Txn, Past
<1>14. Saves'
  BY <1>8, <1>9, <1>10, <1>11, <1>12, <1>13 DEF Saves, StorageAgrees
<1> QED
  BY <1>1, <1>2, <1>3, <1>4, <1>14, SaveFrame DEF IInv, Typed

LEMMA TellKeeps ==
  ASSUME IInv, NEW r \in Requests, Tell(r)
  PROVE  IInv'
<1>1. req[r].pc = "hooks" /\ hooks[r].tell /\ req' = req
  BY DEF Tell
<1>2. /\ \A q \in Requests \ {r} : hooks'[q] = hooks[q]
      /\ hooks' \in [Requests -> Hooks] /\ ~hooks'[r].tell /\ hooks'[r].old = hooks[r].old
      /\ told' = told \cup {r} /\ lock' = lock /\ profile' = profile /\ files' = files
      /\ faults' = faults /\ reply' = reply
  BY DEF Tell, cvars, IInv, Typed, Hooks
<1>3. UNCHANGED <<account, cred, sessions, proof>>
  BY DEF Tell, cvars
<1>4. Moves(r, req[r]) /\ req[r] \in Reqs
  BY <1>1, Phases DEF Moves, IInv, Typed
<1>5. Named'
  BY <1>1, <1>2 DEF IInv, Saves, Named, Txn, Past
<1>6. AvatarStored'
  BY <1>1, <1>2 DEF IInv, Saves, StorageAgrees, AvatarStored, Named, Working, Waiting, Txn, Past
<1>7. NoOrphans'
  BY <1>1, <1>2 DEF IInv, Saves, StorageAgrees, NoOrphans, Working, Waiting, Txn, Past
<1>8. ASSUME NEW q \in Requests
      PROVE  Working(q)'
  BY <1>1, <1>2 DEF IInv, Saves, Named, Working, Waiting, Txn, Past
<1>9. ASSUME NEW q \in Requests
      PROVE  Waiting(q)'
  BY <1>1, <1>2 DEF IInv, Saves, Named, Waiting, Working, Txn, Past
<1>10. ASSUME NEW q \in Requests
      PROVE  Answered(q)'
  BY <1>1, <1>2 DEF IInv, Saves, Named, Working, Answered, Txn, Past
<1>11. Saves'
  BY <1>5, <1>6, <1>7, <1>8, <1>9, <1>10 DEF Saves, StorageAgrees
<1> QED
  BY <1>1, <1>2, <1>3, <1>4, <1>11, SaveFrame DEF IInv, Typed

LEMMA DeleteOldKeeps ==
  ASSUME IInv, NEW r \in Requests, DeleteOld(r)
  PROVE  IInv'
<1> DEFINE old == hooks[r].old
<1>1. req[r].pc = "hooks" /\ ~hooks[r].tell /\ old # None /\ req' = req
  BY DEF DeleteOld
<1>2. /\ \A q \in Requests \ {r} : hooks'[q] = hooks[q]
      /\ hooks' \in [Requests -> Hooks] /\ hooks'[r].tell = hooks[r].tell /\ hooks'[r].old = None
      /\ files' = files \ {old} /\ told' = told /\ lock' = lock /\ profile' = profile
      /\ faults' = faults /\ reply' = reply
  BY DEF DeleteOld, cvars, IInv, Typed, Hooks
<1>3. UNCHANGED <<account, cred, sessions, proof>>
  BY DEF DeleteOld, cvars
<1>4. Moves(r, req[r]) /\ req[r] \in Reqs
  BY <1>1, Phases DEF Moves, IInv, Typed
<1>5. old # profile.avatar /\ (old \in Requests => req[old].pc \in Past)
  BY <1>1 DEF IInv, Saves, Waiting
<1>6. None \notin Requests
  BY IdsAssumption
<1>7. Named'
  BY <1>1, <1>2, <1>5, <1>6 DEF IInv, Saves, Named, Txn, Past
<1>8. AvatarStored'
  BY <1>1, <1>2, <1>5, <1>6
     DEF IInv, Saves, StorageAgrees, AvatarStored, Named, Working, Waiting, Txn, Past
<1>9. NoOrphans'
  BY <1>1, <1>2, <1>5, <1>6 DEF IInv, Saves, StorageAgrees, NoOrphans, Working, Waiting, Txn, Past
<1>10. ASSUME NEW q \in Requests
      PROVE  Working(q)'
  BY <1>1, <1>2, <1>5, <1>6 DEF IInv, Saves, Named, Working, Waiting, Txn, Past
<1>11. ASSUME NEW q \in Requests
      PROVE  Waiting(q)'
  BY <1>1, <1>2, <1>5, <1>6 DEF IInv, Saves, Named, Waiting, Working, Txn, Past
<1>12. ASSUME NEW q \in Requests
      PROVE  Answered(q)'
  BY <1>1, <1>2, <1>5, <1>6 DEF IInv, Saves, Named, Working, Answered, Txn, Past
<1>13. Saves'
  BY <1>7, <1>8, <1>9, <1>10, <1>11, <1>12 DEF Saves, StorageAgrees
<1> QED
  BY <1>1, <1>2, <1>3, <1>4, <1>13, SaveFrame DEF IInv, Typed

LEMMA DeleteFailsKeeps ==
  ASSUME IInv, NEW r \in Requests, DeleteFails(r)
  PROVE  IInv'
<1>1. req[r].pc = "hooks" /\ ~hooks[r].tell /\ req' = req
  BY DEF DeleteFails, Raised
<1>2. /\ \A q \in Requests \ {r} : hooks'[q] = hooks[q]
      /\ hooks' \in [Requests -> Hooks] /\ hooks'[r].tell = hooks[r].tell /\ hooks'[r].old = None
      /\ files' = files /\ told' = told /\ lock' = lock /\ profile' = profile /\ reply' = reply
  BY DEF DeleteFails, Raised, cvars, IInv, Typed, Hooks
<1>3. UNCHANGED <<account, cred, sessions, proof>>
  BY DEF DeleteFails, Raised, cvars
<1>4. Moves(r, req[r]) /\ req[r] \in Reqs
  BY <1>1, Phases DEF Moves, IInv, Typed
<1>5. faults' \in [database : Nat, storage : Nat, crash : Nat] /\ faults'.storage # 0
  BY FaultIs DEF DeleteFails, IInv
<1>6. None \notin Requests
  BY IdsAssumption
<1>7. Named'
  BY <1>1, <1>2, <1>5, <1>6 DEF IInv, Saves, Named, Txn, Past
<1>8. AvatarStored'
  BY <1>1, <1>2, <1>5, <1>6
     DEF IInv, Saves, StorageAgrees, AvatarStored, Named, Working, Waiting, Txn, Past
<1>9. NoOrphans'
  BY <1>1, <1>2, <1>5, <1>6 DEF IInv, Saves, StorageAgrees, NoOrphans, Working, Waiting, Txn, Past
<1>10. ASSUME NEW q \in Requests
      PROVE  Working(q)'
  BY <1>1, <1>2, <1>5, <1>6 DEF IInv, Saves, Named, Working, Waiting, Txn, Past
<1>11. ASSUME NEW q \in Requests
      PROVE  Waiting(q)'
  BY <1>1, <1>2, <1>5, <1>6 DEF IInv, Saves, Named, Waiting, Working, Txn, Past
<1>12. ASSUME NEW q \in Requests
      PROVE  Answered(q)'
  BY <1>1, <1>2, <1>5, <1>6 DEF IInv, Saves, Named, Working, Answered, Txn, Past
<1>13. Saves'
  BY <1>7, <1>8, <1>9, <1>10, <1>11, <1>12 DEF Saves, StorageAgrees
<1> QED
  BY <1>1, <1>2, <1>3, <1>4, <1>5, <1>13, SaveFrame DEF IInv, Typed

LEMMA AnswerKeeps ==
  ASSUME IInv, NEW r \in Requests, Answer(r)
  PROVE  IInv'
<1>1. req[r].pc = "hooks" /\ hooks[r] = NoHooks /\ ~NoHooks.tell
  BY DEF Answer, NoHooks
<1>2. Moves(r, Done) /\ Done \in Reqs /\ Done.pc = "done"
  BY DoneIs DEF Answer, Becomes, Moves
<1>3. /\ req'[r] = Done /\ \A q \in Requests \ {r} : req'[q] = req[q]
      /\ reply'[r] = "saved" /\ \A q \in Requests \ {r} : reply'[q] = reply[q]
      /\ reply' \in [Requests -> {"none", "failed", "saved"}]
      /\ files' = files /\ told' = told /\ lock' = lock /\ profile' = profile
      /\ hooks' = hooks /\ faults' = faults
  BY <1>2, Moved DEF Answer, cvars, IInv, Typed
<1>4. UNCHANGED <<account, cred, sessions, proof>>
  BY DEF Answer, cvars
<1>5. Named'
  BY <1>1, <1>2, <1>3 DEF IInv, Saves, Named, Txn, Past
<1>6. AvatarStored'
  BY <1>1, <1>2, <1>3
     DEF IInv, Saves, StorageAgrees, AvatarStored, Named, Working, Waiting, Txn, Past
<1>7. NoOrphans'
  BY <1>1, <1>2, <1>3 DEF IInv, Saves, StorageAgrees, NoOrphans, Working, Waiting, Txn, Past
<1>8. ASSUME NEW q \in Requests
      PROVE  Working(q)'
  BY <1>1, <1>2, <1>3 DEF IInv, Saves, Named, Working, Waiting, Txn, Past
<1>9. ASSUME NEW q \in Requests
      PROVE  Waiting(q)'
  BY <1>1, <1>2, <1>3 DEF IInv, Saves, Named, Waiting, Working, Txn, Past
<1>10. ASSUME NEW q \in Requests
      PROVE  Answered(q)'
  BY <1>1, <1>2, <1>3 DEF IInv, Saves, Named, Working, Answered, Txn, Past
<1>11. Saves'
  BY <1>5, <1>6, <1>7, <1>8, <1>9, <1>10 DEF Saves, StorageAgrees
<1> QED
  BY <1>1, <1>2, <1>3, <1>4, <1>11, SaveFrame DEF IInv, Typed

LEMMA SaveFailsKeeps ==
  ASSUME IInv, NEW r \in Requests, SaveFails(r)
  PROVE  IInv'
<1>1. req[r].pc \in Txn /\ r \in Ids
  BY Phases DEF SaveFails, Txn, IInv
<1>2. Moves(r, Done) /\ Done \in Reqs /\ Done.pc = "done" /\ NoHooks \in Hooks /\ NoHooks.old = None
  BY DoneIs DEF SaveFails, Becomes, Moves, NoHooks, Hooks
<1>3. /\ req'[r] = Done /\ \A q \in Requests \ {r} : req'[q] = req[q]
      /\ reply'[r] = "failed" /\ \A q \in Requests \ {r} : reply'[q] = reply[q]
      /\ reply' \in [Requests -> {"none", "failed", "saved"}]
      /\ hooks'[r] = NoHooks /\ \A q \in Requests \ {r} : hooks'[q] = hooks[q]
      /\ hooks' \in [Requests -> Hooks]
      /\ told' = told /\ profile' = profile
  BY <1>2, Moved DEF SaveFails, IInv, Typed
<1>4. UNCHANGED <<account, cred, sessions, proof>>
  BY DEF SaveFails
<1>5. /\ faults' \in [database : Nat, storage : Nat, crash : Nat] /\ faults'.crash = faults.crash
      /\ files' \in {files, files \ {r}}
      /\ faults'.storage = 0 => faults.storage = 0 /\ files' = files \ {r}
  BY FaultIs DEF SaveFails, Compensate, IInv
<1>6. \A q \in Requests \ {r} : req[q].pc \notin Txn
  BY <1>1 DEF IInv, Saves, Working
<1>7. None \notin Requests /\ r \notin {profile.details, profile.avatar}
  BY <1>1, IdsAssumption DEF IInv, Saves, Named, Txn, Past
<1>8. Named'
  BY <1>1, <1>2, <1>3, <1>5, <1>6, <1>7 DEF IInv, Saves, Named, Txn, Past
<1>9. AvatarStored'
  BY <1>1, <1>2, <1>3, <1>5, <1>6, <1>7
     DEF IInv, Saves, StorageAgrees, AvatarStored, Named, Working, Waiting, Txn, Past
<1>10. NoOrphans'
  BY <1>1, <1>2, <1>3, <1>5, <1>6, <1>7
     DEF IInv, Saves, StorageAgrees, NoOrphans, Working, Waiting, Txn, Past
<1>11. ASSUME NEW q \in Requests
      PROVE  Working(q)'
  BY <1>1, <1>2, <1>3, <1>5, <1>6, <1>7 DEF IInv, Saves, Named, Working, Waiting, Txn, Past
<1>12. ASSUME NEW q \in Requests
      PROVE  Waiting(q)'
  BY <1>1, <1>2, <1>3, <1>5, <1>6, <1>7 DEF IInv, Saves, Named, Waiting, Working, Txn, Past
<1>13. ASSUME NEW q \in Requests
      PROVE  Answered(q)'
  BY <1>1, <1>2, <1>3, <1>5, <1>6, <1>7 DEF IInv, Saves, Named, Working, Answered, Txn, Past
<1>14. Saves'
  BY <1>8, <1>9, <1>10, <1>11, <1>12, <1>13 DEF Saves, StorageAgrees
<1> QED
  BY <1>1, <1>2, <1>3, <1>4, <1>5, <1>14, SaveFrame DEF IInv, Typed, Txn

LEMMA DiesKeeps ==
  ASSUME IInv, NEW r \in Requests, Dies(r)
  PROVE  IInv'
<1>1. req[r].pc \in Txn \cup {"begin", "hooks"}
  BY DEF Dies, Txn
<1>2. Moves(r, Done) /\ Done \in Reqs /\ Done.pc = "done" /\ NoHooks \in Hooks /\ NoHooks.old = None
  BY DoneIs DEF Dies, Becomes, Moves, NoHooks, Hooks
<1>3. /\ req'[r] = Done /\ \A q \in Requests \ {r} : req'[q] = req[q]
      /\ hooks'[r] = NoHooks /\ \A q \in Requests \ {r} : hooks'[q] = hooks[q]
      /\ hooks' \in [Requests -> Hooks]
      /\ told' = told /\ profile' = profile /\ files' = files /\ reply' = reply
      /\ lock' = IF lock = r THEN None ELSE lock
  BY <1>2, Moved DEF Dies, IInv, Typed
<1>4. UNCHANGED <<account, cred, sessions, proof>>
  BY DEF Dies
<1>5. /\ faults' \in [database : Nat, storage : Nat, crash : Nat] /\ faults'.crash # 0
      /\ faults'.storage = faults.storage
  BY DEF Dies, IInv, Typed
<1>6. None \notin Requests
  BY IdsAssumption
<1>7. Named'
  BY <1>1, <1>2, <1>3, <1>5, <1>6 DEF IInv, Saves, Named, Txn, Past
<1>8. AvatarStored'
  BY <1>1, <1>2, <1>3, <1>5, <1>6
     DEF IInv, Saves, StorageAgrees, AvatarStored, Named, Working, Waiting, Txn, Past
<1>9. NoOrphans'
  BY <1>1, <1>2, <1>3, <1>5, <1>6
     DEF IInv, Saves, StorageAgrees, NoOrphans, Working, Waiting, Txn, Past
<1>10. ASSUME NEW q \in Requests
      PROVE  Working(q)'
  BY <1>1, <1>2, <1>3, <1>5, <1>6 DEF IInv, Saves, Named, Working, Waiting, Txn, Past
<1>11. ASSUME NEW q \in Requests
      PROVE  Waiting(q)'
  BY <1>1, <1>2, <1>3, <1>5, <1>6 DEF IInv, Saves, Named, Waiting, Working, Txn, Past
<1>12. ASSUME NEW q \in Requests
      PROVE  Answered(q)'
  BY <1>1, <1>2, <1>3, <1>5, <1>6 DEF IInv, Saves, Named, Working, Answered, Txn, Past
<1>13. Saves'
  BY <1>7, <1>8, <1>9, <1>10, <1>11, <1>12 DEF Saves, StorageAgrees
<1> QED
  BY <1>1, <1>2, <1>3, <1>4, <1>5, <1>13, SaveFrame DEF IInv, Typed, Txn

LEMMA PreferKeeps ==
  ASSUME IInv, NEW r \in Requests, Prefer(r)
  PROVE  IInv'
<1> DEFINE x == [pc |-> "hooks"]
<1>1. req[r].pc = "idle" /\ lock = None /\ hooks[r] = NoHooks /\ r \notin files
  BY DEF Prefer, IInv, Saves, Working, Txn, Past
<1>2. PICK theme \in Themes : /\ profile' = [profile EXCEPT !.theme = theme]
                             /\ hooks' = [hooks EXCEPT ![r].tell = (theme # profile.theme)]
  BY DEF Prefer
<1>3. x \in Reqs /\ x.pc = "hooks" /\ Moves(r, x)
  BY DoneIs DEF Prefer, Becomes, Moves
<1> HIDE DEF x
<1>4. /\ req'[r] = x /\ \A q \in Requests \ {r} : req'[q] = req[q]
      /\ lock' = lock /\ files' = files /\ told' = told /\ faults' = faults /\ reply' = reply
  BY <1>3, Moved DEF Prefer, cvars, IInv
<1>5. profile' \in Profiles /\ profile'.details = profile.details
      /\ profile'.avatar = profile.avatar
  BY <1>2 DEF IInv, Typed, Profiles
<1>6. /\ hooks' \in [Requests -> Hooks] /\ hooks'[r].old = hooks[r].old
      /\ \A q \in Requests \ {r} : hooks'[q] = hooks[q]
  BY <1>2 DEF IInv, Typed, Hooks
<1>7. UNCHANGED <<account, cred, sessions, proof>>
  BY DEF Prefer, cvars
<1>8. None \notin Requests /\ NoHooks.old = None
  BY IdsAssumption DEF NoHooks
<1>9. \A q \in Requests : req[q].pc \notin Txn
  BY <1>1, <1>8 DEF IInv, Saves, Working
<1>10. Named'
  BY <1>1, <1>3, <1>4, <1>5, <1>6, <1>8, <1>9 DEF IInv, Saves, Named, Txn, Past
<1>11. AvatarStored'
  BY <1>1, <1>3, <1>4, <1>5, <1>6, <1>8, <1>9
     DEF IInv, Saves, StorageAgrees, AvatarStored, Named, Working, Waiting, Txn, Past
<1>12. NoOrphans'
  BY <1>1, <1>3, <1>4, <1>5, <1>6, <1>8, <1>9
     DEF IInv, Saves, StorageAgrees, NoOrphans, Working, Waiting, Txn, Past
<1>13. ASSUME NEW q \in Requests
      PROVE  Working(q)'
  BY <1>1, <1>3, <1>4, <1>5, <1>6, <1>8, <1>9 DEF IInv, Saves, Named, Working, Waiting, Txn, Past
<1>14. ASSUME NEW q \in Requests
      PROVE  Waiting(q)'
  BY <1>1, <1>3, <1>4, <1>5, <1>6, <1>8, <1>9 DEF IInv, Saves, Named, Waiting, Working, Txn, Past
<1>15. ASSUME NEW q \in Requests
      PROVE  Answered(q)'
  BY <1>1, <1>3, <1>4, <1>5, <1>6, <1>8, <1>9 DEF IInv, Saves, Named, Working, Answered, Txn, Past
<1>16. Saves'
  BY <1>10, <1>11, <1>12, <1>13, <1>14, <1>15 DEF Saves, StorageAgrees
<1> QED
  BY <1>1, <1>3, <1>4, <1>5, <1>6, <1>7, <1>16, SaveFrame DEF IInv, Typed

LEMMA NextKeeps ==
  ASSUME IInv, [Next]_vars
  PROVE  IInv'
<1>1. CASE (Administer \/ Age) /\ UNCHANGED svars
  BY <1>1, ElsewhereKeeps
<1>2. ASSUME NEW r \in Requests, Enter(r), UNCHANGED svars
      PROVE  IInv'
  BY <1>2, PasswordLoginKeeps, BiometricLoginKeeps, LoginKeeps, IssueKeeps, RespondKeeps,
     LogoutKeeps DEF Enter
<1>3. ASSUME NEW r \in Requests, SaveStep(r)
      PROVE  IInv'
  BY <1>3, SaveKeeps, BeginKeeps, DetailsKeeps, StoreFileKeeps, SaveRowKeeps, SwitchKeeps,
     CommitKeeps, TellKeeps, DeleteOldKeeps, DeleteFailsKeeps, AnswerKeeps, SaveFailsKeeps,
     DiesKeeps, PreferKeeps DEF SaveStep
<1>4. CASE UNCHANGED vars
  <2>1. UNCHANGED <<account, cred, sessions, req, lock, proof, profile, files, hooks, told,
                    faults, reply>>
    BY <1>4 DEF vars, cvars, svars
  <2> QED
    BY <2>1 DEF IInv, Typed, Roots, Saves, Named, StorageAgrees, AvatarStored, NoOrphans,
       Working, Waiting, Answered
<1> QED
  BY <1>1, <1>2, <1>3, <1>4 DEF Next

\* What a credential that a proved password began has left, and the time since
\* then, are one lifetime together.
Lived ==
  /\ life \in [since : 0..Ttl, revived : BOOLEAN]
  /\ cred # None /\ ~life.revived => cred.left + life.since <= Ttl
LEMMA LivedAtStart ==
  ASSUME Init
  PROVE  Lived
<1>1. /\ cred \in {None, [token |-> Origin, password |-> 0, left |-> Ttl]}
      /\ life = [since |-> IF cred = None THEN Ttl ELSE 0, revived |-> FALSE]
  BY DEF Init, CredentialInit
<1> QED
  BY <1>1, TtlAssumption DEF Lived

LEMMA IssueLives ==
  ASSUME IInv, Lived, NEW r \in Requests, Issue(r)
  PROVE  Lived'
<1> DEFINE optin == req[r].optin
           proved == req[r].proved
<1>1. req[r] \in LoginReq /\ optin \in BOOLEAN /\ proved \in BOOLEAN /\ r # None
  BY Phases, IdsAssumption DEF Issue, IInv, LoginReq
<1>2. /\ cred' = IF optin THEN [token |-> r, password |-> Fingerprint(r), left |-> Lifetime(r)]
                ELSE None
      /\ life' = [since |-> IF optin /\ proved THEN 0 ELSE life.since,
                 revived |-> optin /\ ~proved /\ (cred = None \/ life.revived)]
  BY DEF Issue
<1>3. cred = None \/ cred.left \in Nat
  BY DEF IInv, Typed, Cred
<1>4. Lifetime(r) = IF cred = None \/ proved THEN Ttl ELSE cred.left
  BY DEF Lifetime
<1>5. life'.since \in {0, life.since} /\ life'.since \in 0..Ttl
  BY <1>2, TtlAssumption DEF Lived
<1>6. (optin /\ ~proved /\ (cred = None \/ life.revived)) \in BOOLEAN
  OBVIOUS
<1>7. life' \in [since : 0..Ttl, revived : BOOLEAN]
  BY <1>2, <1>5, <1>6
<1>8. ASSUME cred' # None, ~life'.revived
      PROVE  cred'.left + life'.since <= Ttl
  <2>1. optin /\ cred'.left = Lifetime(r)
    BY <1>2, <1>8
  <2>2. CASE proved
    BY <1>2, <1>4, <2>1, <2>2, TtlAssumption
  <2>3. CASE ~proved
    <3>1. cred # None /\ ~life.revived
      BY <1>2, <1>8, <2>1, <2>3
    <3>2. cred'.left = cred.left /\ life'.since = life.since
      BY <1>2, <1>4, <2>1, <2>3, <3>1
    <3> QED
      BY <3>1, <3>2 DEF Lived
  <2> QED
    BY <2>2, <2>3
<1> QED
  BY <1>7, <1>8 DEF Lived

LEMMA AgeLives ==
  ASSUME IInv, Lived, Age
  PROVE  Lived'
<1>1. life \in [since : 0..Ttl, revived : BOOLEAN]
  BY DEF Lived
<1>2. cred = None \/ cred \in Cred
  BY DEF IInv, Typed
<1>3. /\ life' \in [since : 0..Ttl, revived : BOOLEAN] /\ life'.revived = life.revived
      /\ life'.since = IF life.since < Ttl THEN life.since + 1 ELSE life.since
  BY <1>1, TtlAssumption DEF Age
<1>4. ASSUME cred' # None, ~life'.revived
      PROVE  cred'.left + life'.since <= Ttl
  <2>1. cred # None /\ ~life.revived /\ cred \in Cred
    BY <1>2, <1>3, <1>4 DEF Age
  <2>2. cred'.left = IF cred.left > 0 THEN cred.left - 1 ELSE cred.left
    BY <2>1 DEF Age, Cred
  <2>3. cred.left + life.since <= Ttl /\ cred.left \in Nat /\ life.since \in Nat
    BY <1>1, <2>1, TtlAssumption DEF Lived, Cred
  <2> QED
    BY <1>3, <2>2, <2>3, TtlAssumption
<1> QED
  BY <1>3, <1>4 DEF Lived

\* Every other step leaves the credential as it is or deletes it.
LEMMA NextLives ==
  ASSUME IInv, Lived, [Next]_vars
  PROVE  Lived'
<1>1. ASSUME life' = life, cred' = cred \/ cred' = None
      PROVE  Lived'
  BY <1>1 DEF Lived
<1>2. CASE Age
  BY <1>2, AgeLives
<1>3. CASE Administer
  BY <1>1, <1>3 DEF Administer
<1>4. ASSUME NEW r \in Requests, Enter(r)
      PROVE  Lived'
  <2>1. CASE Issue(r)
    BY <2>1, IssueLives
  <2> QED
    BY <1>1, <1>4, <2>1 DEF Enter, PasswordLogin, BiometricLogin, Login, Respond, Logout
<1>5. ASSUME NEW r \in Requests, SaveStep(r)
      PROVE  Lived'
  <2>1. life' = life /\ (cred' = cred \/ cred' = None)
    BY <1>5 DEF SaveStep, Save, Begin, Details, StoreFile, SaveRow, Switch, Commit, Tell,
       DeleteOld, DeleteFails, Raised, Answer, SaveFails, Dies, Prefer, cvars
  <2> QED
    BY <1>1, <2>1
<1>6. CASE UNCHANGED vars
  BY <1>1, <1>6 DEF vars, cvars
<1> QED
  BY <1>2, <1>3, <1>4, <1>5, <1>6 DEF Next

-----------------------------------------------------------------------------
\* The theorems.

\* The invariant holds throughout: a session and the token carry the password
\* at their root, a save under way holds the database and differs from the
\* committed profile in what it wrote alone, and a photo that waits to be
\* deleted is no longer the profile's (todo/services.py, settings_view).
THEOREM Invariance == Spec => []IInv
<1>1. Init => IInv
  BY StartHolds
<1>2. IInv /\ [Next]_vars => IInv'
  BY NextKeeps
<1> QED
  BY <1>1, <1>2, PTL DEF Spec

\* Once the password is replaced, no session and no token rooted in an older
\* one opens the account, whatever logins and rotations were under way
\* (_password_fingerprint, biometric_login, issue_biometric_token).
THEOREM PasswordChangeEndsAllAlways == Spec => []PasswordChangeEndsAll
<1>1. IInv => PasswordChangeEndsAll
  BY DEF IInv, Roots, PasswordChangeEndsAll, SessionWorks, TokenWorks
<1> QED
  BY <1>1, Invariance, PTL

\* A credential that a password just proved has begun, and no revocation
\* overtaken by a rotation has ended, opens the account for one lifetime from
\* there and no longer (issue_biometric_token, authenticate_biometric_token).
THEOREM LifetimeKeptAlways == Spec => []LifetimeKept
<1>1. Init => Lived
  BY LivedAtStart
<1>2. IInv /\ Lived /\ [Next]_vars => Lived'
  BY NextLives
<1>3. IInv /\ Lived => LifetimeKept
  <2> SUFFICES ASSUME IInv, Lived, ~life.revived, NEW i \in Ids, TokenWorks(i)
               PROVE  life.since < Ttl
    BY DEF LifetimeKept
  <2>1. cred # None /\ cred.left \in Nat /\ cred.left # 0
    BY DEF TokenWorks, Expired, IInv, Typed, Cred
  <2> QED
    BY <2>1, TtlAssumption DEF Lived
<1> QED
  BY <1>1, <1>2, <1>3, Invariance, PTL DEF Spec

\* The profile's photo is in storage, and nothing else is there for good while
\* storage answers (store_avatar, settings_view).
THEOREM StorageAgreesAlways == Spec => []StorageAgrees
<1>1. IInv => StorageAgrees
  BY DEF IInv, Saves
<1> QED
  BY <1>1, Invariance, PTL

\* A save is stored whole and told, or not at all (settings_view).
THEOREM SaveIsWholeAlways == Spec => []SaveIsWhole
<1>1. IInv => SaveIsWhole
  BY DEF IInv, Saves, Named, Answered, SaveIsWhole, Past
<1> QED
  BY <1>1, Invariance, PTL
=============================================================================
