------------------------------ MODULE MCAccount ------------------------------
(***************************************************************************)
(* The account and the limits on its doors share no state, so that one run  *)
(* explores them side by side: behaviours of one while the other rests.     *)
(***************************************************************************)
EXTENDS Settings, Throttle, TLC

\* One machine spelled two ways: plain, and as an IPv4-mapped IPv6 address.
Machines == {[form |-> "ipv4", host |-> "a", network |-> "", machine |-> "A"],
             [form |-> "mapped", host |-> "a", network |-> "::", machine |-> "A"]}
\* The requests of one are named like the attempts of the other.
Symmetry == Permutations(Requests)

AccountInit == Init /\ ThrottleInit
AccountNext ==
  \/ ThrottleInit /\ Next /\ UNCHANGED tvars
  \/ Init /\ cred = None /\ files = {} /\ ThrottleNext /\ UNCHANGED vars
AccountSpec == AccountInit /\ [][AccountNext]_<<vars, tvars>>
=============================================================================
