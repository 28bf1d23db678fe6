------------------------------ MODULE KeyRing ------------------------------
(***************************************************************************)
(* The key loop of main_protected: the dynamic array of trusted keys, the  *)
(* removal of expired keys by swapping them with the last one, and the     *)
(* attempt to authenticate a terminated connection with each key in turn.  *)
(*                                                                         *)
(* for_each_lt evaluates keys_size once, before the first iteration, so    *)
(* the loop runs to bound even after keys_size has shrunk.                 *)
(***************************************************************************)
EXTENDS PubKeys, Functions

VARIABLES
    keys,       \* resources->keys, indexed from 0 as in C
    keys_size,  \* resources->keys_size
    i,          \* the loop variable
    bound,      \* the loop's upper limit, fixed when the loop is entered
    pass        \* the pass in progress, or the last one and its verdict

vars == <<keys, keys_size, i, bound, pass>>

NKeys == Cardinality(Certs)

Slots == 0 .. NKeys - 1

(***************************************************************************)
(* The array holds every certificate's key once, in the order in which     *)
(* readdir happened to return the files.                                   *)
(***************************************************************************)
Init ==
    /\ keys \in Bijection(Slots, Certs)
    /\ keys_size = NKeys
    /\ i = 0
    /\ bound = 0
    /\ pass = NoPass

Scanning == pass.verdict = "pending"

(***************************************************************************)
(* A connection terminated: read the clock and enter the loop.             *)
(***************************************************************************)
BeginPass(buf, now) ==
    /\ pass.verdict \notin {"pending", "expired"}
    /\ pass' = Pass("pending", NoCert, buf, now)
    /\ i' = 0
    /\ bound' = keys_size
    /\ UNCHANGED <<keys, keys_size>>

AtKey == Scanning /\ i < bound

EndPass(verdict, key) ==
    pass' = Pass(verdict, key, pass.buf, pass.now)

(***************************************************************************)
(* The swap macro.                                                         *)
(***************************************************************************)
SwappedOneWay(f, a, b) == [f EXCEPT ![a] = f[b]]    \* mutant

Swapped(f, a, b) == [f EXCEPT ![a] = f[b], ![b] = f[a]]

RemoveKey(size, next) ==
    /\ AtKey
    /\ Expired(keys[i], pass.now)
    /\ keys_size > 1
    /\ keys' = Swapped(keys, i, keys_size - 1)
    /\ keys_size' = size
    /\ i' = next
    /\ UNCHANGED <<bound, pass>>

(***************************************************************************)
(* Swap remove; i -= 1 and the loop's own i += 1 cancel out.               *)
(***************************************************************************)
DropSkipsNext == RemoveKey(keys_size - 1, i + 1)    \* mutant

DropKeepsSize == RemoveKey(keys_size, i)            \* mutant

DropExpired == RemoveKey(keys_size - 1, i)

(***************************************************************************)
(* "All certificates have expired, closing server".                        *)
(***************************************************************************)
CloseServer ==
    /\ AtKey
    /\ Expired(keys[i], pass.now)
    /\ keys_size <= 1
    /\ EndPass("expired", NoCert)
    /\ UNCHANGED <<keys, keys_size, i, bound>>

(***************************************************************************)
(* The signature is valid; the script is executed and the loop left.       *)
(***************************************************************************)
Accept ==
    /\ AtKey
    /\ ~Expired(keys[i], pass.now)
    /\ Authenticates(keys[i], pass.buf)
    /\ EndPass("hit", keys[i])
    /\ UNCHANGED <<keys, keys_size, i, bound>>

TryNext ==
    /\ AtKey
    /\ ~Expired(keys[i], pass.now)
    /\ ~Authenticates(keys[i], pass.buf)
    /\ i' = i + 1
    /\ UNCHANGED <<keys, keys_size, bound, pass>>

(***************************************************************************)
(* "Remote bash script could not be authenticated, aborting execution".    *)
(***************************************************************************)
Reject ==
    /\ Scanning
    /\ i >= bound
    /\ EndPass("miss", NoCert)
    /\ UNCHANGED <<keys, keys_size, i, bound>>

LoopStep == DropExpired \/ CloseServer \/ Accept \/ TryNext \/ Reject

Next ==
    \/ \E buf \in Inputs, now \in Times : BeginPass(buf, now)
    \/ LoopStep

(***************************************************************************)
(* The loop is sequential code without a blocking call, so it keeps        *)
(* running; passes begin when connections happen to terminate.             *)
(***************************************************************************)
Spec == Init /\ [][Next]_vars

FairSpec == Spec /\ WF_vars(LoopStep)

-----------------------------------------------------------------------------

Live(n) == {keys[j] : j \in 0 .. n - 1}

(***************************************************************************)
(* The live keys as the caller sees them: during a pass, those it began    *)
(* with.                                                                   *)
(***************************************************************************)
ring == IF Scanning THEN Live(bound) ELSE Live(keys_size)

(***************************************************************************)
(* The indices of the loop stay inside the array: every keys[i] it reads   *)
(* and the slot keys[keys_size - 1] it swaps with hold a loaded key, and   *)
(* the array holds each loaded key once, so a swap neither loses a key nor *)
(* duplicates one (pub_key_free would then free it twice).                 *)
(***************************************************************************)
TypeOK ==
    /\ keys \in Bijection(Slots, Certs)
    /\ keys_size \in 1 .. NKeys
    /\ i \in 0 .. NKeys
    /\ bound \in 0 .. NKeys
    /\ pass.verdict \in {"none", "pending", "hit", "miss", "expired"}

(***************************************************************************)
(* The loop is an implementation of KeyAuth: a pass looks like one step    *)
(* from the keys it began with to the keys it leaves.  In spite of the     *)
(* swaps, of i stepping back and of the frozen bound (main.c:358-389),     *)
(* every key live at its start is tried before it gives up, and each       *)
(* expired key costs the ring two keys, no more.                           *)
(***************************************************************************)
Abstract == INSTANCE KeyAuth

ImplementsKeyAuth == Abstract!AbsSpec

(***************************************************************************)
(* Every pass ends, although a removal leaves i where it is.               *)
(***************************************************************************)
PassEnds == Scanning ~> ~Scanning

(***************************************************************************)
(* What the message of main.c:368 claims when the server closes itself:    *)
(* "All certificates have expired".                                        *)
(***************************************************************************)
AllHaveExpired ==
    pass.verdict = "expired" => \A k \in Live(bound) : Expired(k, pass.now)

(***************************************************************************)
(* What readme.md:3 promises: "If the signature is considered valid under  *)
(* one of the x509 certificates, the entire script will be run".  No pass  *)
(* turns away a buffer which a loaded, unexpired certificate authenticates.*)
(* A pass that removes an expired key drops an unexpired one with it       *)
(* (main.c:358-365), and later passes no longer try that one.              *)
(***************************************************************************)
GenuineAccepted ==
    pass.verdict \in {"miss", "expired"} =>
        \A k \in Certs : ~Accepts(k, pass.buf, pass.now)

=============================================================================
