------------------------------ MODULE KeyAuth ------------------------------
(***************************************************************************)
(* Abstract specification of script authentication: a set of live keys,    *)
(* and for each terminated connection one pass that ends, in a single      *)
(* step, with one of PassResults.  KeyRing, which follows the array and    *)
(* the loop indices of the code, implements it; Server takes its           *)
(* authentication step from PassResults.                                   *)
(***************************************************************************)
EXTENDS PubKeys

VARIABLES
    ring,       \* the keys still trusted
    pass        \* the pass in progress, or the last one and its verdict

absvars == <<ring, pass>>

AbsInit ==
    /\ ring = Certs
    /\ pass = NoPass

(***************************************************************************)
(* A connection terminated: its buffer is to be authenticated.  After      *)
(* "expired" the server has returned and there is no further pass.         *)
(***************************************************************************)
Begin(buf, now) ==
    /\ pass.verdict \notin {"pending", "expired"}
    /\ pass' = Pass("pending", NoCert, buf, now)
    /\ UNCHANGED ring

Finish ==
    /\ pass.verdict = "pending"
    /\ \E r \in PassResults(ring, pass.buf, pass.now) :
          /\ ring' = r.ring
          /\ pass' = Pass(r.verdict, r.key, pass.buf, pass.now)

AbsNext ==
    \/ \E buf \in Inputs, now \in Times : Begin(buf, now)
    \/ Finish

AbsSpec == AbsInit /\ [][AbsNext]_absvars

=============================================================================
