------------------------------ MODULE PubKeys ------------------------------
(***************************************************************************)
(* The trusted public keys of the server and the test a received buffer    *)
(* must pass: crypto.h's PubKey as main.c's key loop reads it.             *)
(*                                                                         *)
(* A key is named by the certificate it was extracted from.  A buffer is   *)
(* what the loop can tell about received bytes: how many there are, at     *)
(* which offsets a newline lies, and for which keys the bytes before that  *)
(* newline are a signature over all the bytes after it.                    *)
(***************************************************************************)
EXTENDS Integers, FiniteSets

CONSTANTS
    Certs,      \* certificates whose key extraction succeeded
    Expiry,     \* PubKey.expiry
    SigSize,    \* PubKey.exp_sig_size
    Times,      \* values time(NULL) may return, in any order
    Inputs,     \* buffers that may be presented for authentication
    NoCert

ASSUME PubKeysAssumption ==
    /\ IsFiniteSet(Certs)
    /\ Certs # {}
    /\ NoCert \notin Certs
    /\ Expiry \in [Certs -> Int]
    /\ SigSize \in [Certs -> Nat]
    /\ Times \subseteq Int
    /\ Inputs \subseteq [size : Nat, newlines : SUBSET Nat, signers : SUBSET Certs]

(***************************************************************************)
(* A pass of the key loop: the buffer and the time it works on, and, once  *)
(* it is no longer pending, its verdict and the key that accepted.         *)
(***************************************************************************)
Pass(verdict, key, buf, now) ==
    [verdict |-> verdict, key |-> key, buf |-> buf, now |-> now]

NoPass == Pass("none", NoCert, [size |-> 0, newlines |-> {}, signers |-> {}], 0)

(***************************************************************************)
(* now > pub_key->expiry                                                   *)
(***************************************************************************)
Expired(k, now) == now > Expiry[k]

(***************************************************************************)
(* The signature has a fixed size, so the separating newline is looked for *)
(* at one offset only; pub_key_verify then checks the signature over the   *)
(* rest of the buffer.                                                     *)
(***************************************************************************)
Authenticates(k, buf) ==
    LET sig_end      == SigSize[k]
        script_start == SigSize[k] + 1
    IN  /\ script_start <= buf.size
        /\ sig_end \in buf.newlines
        /\ k \in buf.signers

(***************************************************************************)
(* A key that may still accept buf at time now.                            *)
(***************************************************************************)
Accepts(k, buf, now) == ~Expired(k, now) /\ Authenticates(k, buf)

(***************************************************************************)
(* The live keys that have expired, and how many keys a pass dropped.      *)
(***************************************************************************)
Gone(live, now) == {k \in live : Expired(k, now)}

Lost(live, left) == Cardinality(live) - Cardinality(left)

(***************************************************************************)
(* The promise of one pass of the key loop over the live keys, as seen     *)
(* by its caller.  Every live key that could accept the buffer is tried    *)
(* before the pass gives up.  Keys only ever leave the ring, and the last  *)
(* one never does.  What leaves it is counted: a pass that runs to its end *)
(* leaves no expired key, but has dropped two keys for each expired one,   *)
(* because the loop, whose bound is frozen, meets the keys it swapped out  *)
(* again and swaps each of them with a key still in the ring.  A pass that *)
(* stops at a match has dropped no more than that, and only when at least  *)
(* half of the live keys have expired may it give up the whole server.     *)
(***************************************************************************)
PassResults(live, buf, now) ==
    {r \in [verdict : {"hit", "miss", "expired"},
            key : live \cup {NoCert},
            ring : (SUBSET live) \ {{}}] :
        /\ r.verdict = "hit" =>
               /\ r.key \in live /\ Accepts(r.key, buf, now)
               /\ Lost(live, r.ring) <= 2 * Cardinality(Gone(live, now))
        /\ r.verdict # "hit" =>
               /\ r.key = NoCert
               /\ \A k \in live : ~Accepts(k, buf, now)
        /\ r.verdict = "miss" =>
               /\ Lost(live, r.ring) = 2 * Cardinality(Gone(live, now))
               /\ r.ring \cap Gone(live, now) = {}
        /\ r.verdict = "expired" =>
               Cardinality(live) <= 2 * Cardinality(Gone(live, now))}

=============================================================================
