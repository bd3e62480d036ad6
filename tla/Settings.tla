------------------------------- MODULE Settings -------------------------------
(***************************************************************************)
(* The settings screen and its one Save: the account details, the photo and *)
(* the biometric switch are written in one transaction (settings_view of    *)
(* todo/views.py, update_profile and store_avatar of todo/services.py),     *)
(* while the photo's file is stored outside it.  Any step may raise and the *)
(* process may die.  Beside it, the stored preferences, and the `ui' hints  *)
(* for whoever shows the profile (todo/realtime_signals.py).  What else can *)
(* open or close the account goes on at the same time (Credential).         *)
(*                                                                         *)
(* Details, a photo and its file are named after the request that made them.*)
(***************************************************************************)
EXTENDS Credential

CONSTANTS
  Themes,
  MaxFaults,     \* bound: steps that raise, alone or with their compensation
  MaxCrashes     \* bound: deaths of the process

ASSUME FaultsAssumption == {MaxFaults, MaxCrashes} \subseteq Nat

VARIABLES
  profile,    \* committed: the details, the name of the photo, the theme
  files,      \* the photos that storage holds
  hooks,      \* of each request, the callbacks that wait for its commit: the
              \* owner to tell and the replaced photo to delete
  told,       \* history: the requests whose changes the owner was told of
  faults,     \* what has gone wrong: in the database, in storage, the process
  reply       \* how each save was answered

svars == <<profile, files, hooks, told, faults, reply>>
vars == <<cvars, req, svars>>

NoHooks == [tell |-> FALSE, old |-> None]

Init ==
  /\ CredentialInit
  /\ \E avatar \in {None, Origin} :
       /\ profile = [details |-> Origin, avatar |-> avatar, theme |-> ""]
       /\ files = {avatar} \ {None}
  /\ hooks = [r \in Requests |-> NoHooks] /\ told = {}
  /\ faults = [database |-> 0, storage |-> 0, crash |-> 0]
  /\ reply = [r \in Requests |-> "none"]

Fault(kind) ==
  /\ faults.database + faults.storage < MaxFaults
  /\ faults' = [faults EXCEPT ![kind] = @ + 1]

-----------------------------------------------------------------------------
\* A save.  The request is let in with the session it carries and its form is
\* valid; `photo' and `off' say whether one was picked and the switch is off.
\* Its transaction waits for the database.
Save(r) ==
  /\ req[r].pc = "idle"
  /\ \E s \in sessions, photo, off \in BOOLEAN :
       SessionWorks(s) /\ Becomes(r, [pc |-> "begin", photo |-> photo, off |-> off])
  /\ UNCHANGED <<cvars, svars>>
Begin(r) ==
  /\ req[r].pc = "begin" /\ lock = None /\ lock' = r
  /\ Becomes(r, [pc |-> "details", photo |-> req[r].photo, off |-> req[r].off, work |-> profile])
  /\ UNCHANGED <<account, cred, sessions, proof, life, switches, svars>>

\* Mutant: the details are committed by themselves.
DetailsAtOnce(r) ==
  /\ req[r].pc = "details"
  /\ profile' = [profile EXCEPT !.details = r]
  /\ req' = [req EXCEPT ![r].work.details = r,
                        ![r].pc = IF req[r].photo THEN "file" ELSE "switch"]
  /\ hooks' = [hooks EXCEPT ![r].tell = TRUE]
  /\ UNCHANGED <<cvars, files, told, faults, reply>>
\* update_profile.  A row that changed leaves a hint for its owner.
Details(r) ==
  /\ req[r].pc = "details"
  /\ req' = [req EXCEPT ![r].work.details = r,
                        ![r].pc = IF req[r].photo THEN "file" ELSE "switch"]
  /\ hooks' = [hooks EXCEPT ![r].tell = TRUE]
  /\ UNCHANGED <<cvars, profile, files, told, faults, reply>>

\* store_avatar: the file is stored under a fresh name, then the row names it;
\* the photo it replaces is deleted after the commit.
StoreFile(r) ==
  /\ req[r].pc = "file"
  /\ files' = files \cup {r} /\ req' = [req EXCEPT ![r].pc = "row"]
  /\ UNCHANGED <<cvars, profile, hooks, told, faults, reply>>
SaveRow(r) ==
  /\ req[r].pc = "row"
  /\ req' = [req EXCEPT ![r].work.avatar = r, ![r].pc = "switch"]
  /\ hooks' = [hooks EXCEPT ![r] = [tell |-> TRUE, old |-> req[r].work.avatar]]
  /\ UNCHANGED <<cvars, profile, files, told, faults, reply>>

\* revoke_biometric_token, if the switch is off.
Switch(r) ==
  /\ req[r].pc = "switch" /\ req' = [req EXCEPT ![r].pc = "commit"]
  /\ UNCHANGED <<cvars, svars>>

\* The transaction commits and its callbacks run.
Commit(r) ==
  /\ req[r].pc = "commit"
  /\ profile' = req[r].work /\ lock' = None
  /\ cred' = IF req[r].off THEN None ELSE cred
  /\ Becomes(r, [pc |-> "hooks"])
  /\ UNCHANGED <<account, sessions, proof, life, switches, files, hooks, told, faults, reply>>

Tell(r) ==
  /\ req[r].pc = "hooks" /\ hooks[r].tell
  /\ hooks' = [hooks EXCEPT ![r].tell = FALSE] /\ told' = told \cup {r}
  /\ UNCHANGED <<cvars, req, profile, files, faults, reply>>
DeleteOld(r) ==
  /\ req[r].pc = "hooks" /\ ~hooks[r].tell /\ hooks[r].old # None
  /\ hooks' = [hooks EXCEPT ![r].old = None] /\ files' = files \ {hooks[r].old}
  /\ UNCHANGED <<cvars, req, profile, told, faults, reply>>
\* Mutant: the callback is not robust: what it raises reaches the save's handler.
RaisedThrough(r) ==
  /\ files' = files \ {r} /\ hooks' = [hooks EXCEPT ![r] = NoHooks]
  /\ Becomes(r, Done) /\ reply' = [reply EXCEPT ![r] = "failed"]
  /\ UNCHANGED <<cvars, profile, told>>
\* The delete is robust: what it raises is logged and the save goes on.
Raised(r) ==
  hooks' = [hooks EXCEPT ![r].old = None] /\ UNCHANGED <<cvars, req, profile, files, told, reply>>
DeleteFails(r) ==
  /\ req[r].pc = "hooks" /\ ~hooks[r].tell /\ hooks[r].old # None
  /\ Fault("storage") /\ Raised(r)
Answer(r) ==
  /\ req[r].pc = "hooks" /\ hooks[r] = NoHooks
  /\ Becomes(r, Done) /\ reply' = [reply EXCEPT ![r] = "saved"]
  /\ UNCHANGED <<cvars, profile, files, hooks, told, faults>>

\* A step raises before the commit is done: the rows are rolled back with the
\* callbacks, and the new file is deleted by whichever handler knows of it,
\* unless storage raises once more.
Compensate(r) == files \ {r}
SaveFails(r) ==
  /\ req[r].pc \in {"details", "file", "row", "switch", "commit"}
  /\ \/ Fault(IF req[r].pc = "file" THEN "storage" ELSE "database") /\ files' = Compensate(r)
     \/ req[r].pc # "file" /\ Fault("storage") /\ UNCHANGED files
  /\ hooks' = [hooks EXCEPT ![r] = NoHooks] /\ lock' = None
  /\ Becomes(r, Done) /\ reply' = [reply EXCEPT ![r] = "failed"]
  /\ UNCHANGED <<account, cred, sessions, proof, life, switches, profile, told>>
\* The process dies in a save; SQLite rolls back, and nobody is answered.
Dies(r) ==
  /\ req[r].pc \in {"begin", "details", "file", "row", "switch", "commit", "hooks"}
  /\ faults.crash < MaxCrashes /\ faults' = [faults EXCEPT !.crash = @ + 1]
  /\ hooks' = [hooks EXCEPT ![r] = NoHooks]
  /\ lock' = IF lock = r THEN None ELSE lock
  /\ Becomes(r, Done)
  /\ UNCHANGED <<account, cred, sessions, proof, life, switches, profile, files, told, reply>>

\* preferences: the theme is stated as absolute state.
Prefer(r) ==
  /\ req[r].pc = "idle" /\ lock = None
  /\ \E s \in sessions, theme \in Themes :
       /\ SessionWorks(s)
       /\ profile' = [profile EXCEPT !.theme = theme]
       /\ hooks' = [hooks EXCEPT ![r].tell = (theme # profile.theme)]
  /\ Becomes(r, [pc |-> "hooks"])
  /\ UNCHANGED <<cvars, files, told, faults, reply>>

SaveStep(r) ==
  \/ Save(r) \/ Begin(r) \/ Details(r) \/ StoreFile(r) \/ SaveRow(r) \/ Switch(r) \/ Commit(r)
  \/ Tell(r) \/ DeleteOld(r) \/ DeleteFails(r) \/ Answer(r) \/ SaveFails(r) \/ Dies(r) \/ Prefer(r)
Next ==
  \/ (Administer \/ Age \/ \E r \in Requests : Enter(r)) /\ UNCHANGED svars
  \/ \E r \in Requests : SaveStep(r)
Spec == Init /\ [][Next]_vars

-----------------------------------------------------------------------------
\* A password that is replaced opens nothing any more: whatever session or
\* token works was obtained, through however many rotations, by proving the
\* password the account has now.  A login under way while the password is
\* changed gets none that works (_password_fingerprint, the session's hash).
PasswordChangeEndsAll ==
  /\ \A s \in sessions : SessionWorks(s) => proof[s.id] = account.password
  /\ \A i \in Ids : TokenWorks(i) => proof[i] = account.password

\* A credential that a password just proved has begun opens the account for
\* one lifetime from there and no longer, however its rotations follow each
\* other or overlap, and whatever passwords are proved or not on the way to
\* it: a device used daily is asked for the password again
\* (issue_biometric_token's restart_lifetime, authenticate_biometric_token).
LifetimeKept ==
  ~life.revived => \A i \in Ids : TokenWorks(i) => life.since < Ttl

\* No credential opens the account later than one lifetime after a password
\* was last proved for one, as issue_biometric_token says of it ("the
\* credential lifetime is absolute from the first opt-in").  A rotation that
\* finds its row deleted makes one, with a lifetime of its own.
LifetimeAbsolute == \A i \in Ids : TokenWorks(i) => life.since < Ttl

\* The photo the committed profile names is in storage, whatever raised or
\* died and in whatever order: the old file goes after the commit alone, and
\* nothing that happens then takes the new one away (store_avatar's robust
\* on_commit, settings_view's compensation).
AvatarStored == profile.avatar # None => profile.avatar \in files

\* While the process lives and storage answers, every stored photo is the
\* profile's, one a save is working on or one waiting to be deleted: a save
\* that is rolled back leaves none behind (store_avatar, settings_view).
NoOrphans ==
  faults.crash = 0 /\ faults.storage = 0 =>
    \A f \in files :
      \/ f = profile.avatar
      \/ f \in Requests /\ req[f].pc \in {"row", "switch", "commit"}
      \/ \E r \in Requests : hooks[r].old = f
StorageAgrees == AvatarStored /\ NoOrphans

\* A save is stored whole or not at all: of one that was answered with an
\* error neither the details nor the photo remain, nor its file unless storage
\* failed; of one under way nothing is seen; and of one that was answered as
\* saved, the owner has been told (settings_view: "commit all of it in one
\* request").
SaveIsWhole ==
  \A r \in Requests :
    /\ reply[r] = "failed" =>
         r \notin {profile.details, profile.avatar} /\ (faults.storage = 0 => r \notin files)
    /\ r \in {profile.details, profile.avatar} => req[r].pc \in {"hooks", "done"}
    /\ reply[r] = "saved" /\ profile.details = r => r \in told
=============================================================================
