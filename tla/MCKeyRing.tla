----------------------------- MODULE MCKeyRing -----------------------------
(***************************************************************************)
(* Four certificates that expire at three different times, loaded in every *)
(* order, with signatures of two sizes (1 and 2); buffers too short for a  *)
(* signature and its newline and long enough, with newlines at either      *)
(* offset, signed by nobody, by one key, or by a key two certificates      *)
(* carry; clocks that may also be set back, or a clock that stands still   *)
(* just after the first certificate has expired.                           *)
(***************************************************************************)
EXTENDS KeyRing, TLC

CONSTANTS early, mid1, mid2, late, none

MCCerts   == {early, mid1, mid2, late}
MCExpiry  == early :> 0 @@ mid1 :> 1 @@ mid2 :> 1 @@ late :> 2
MCSigSize == early :> 1 @@ mid1 :> 1 @@ mid2 :> 1 @@ late :> 2
MCTimes   == 0 .. 3
MCOneTime == {1}
MCInputs  ==
    {b \in [size : 2 .. 3, newlines : SUBSET {1, 2},
            signers : {{}, {early}, {mid1}, {late}, {mid1, mid2}}] :
        \A n \in b.newlines : n < b.size}

=============================================================================
