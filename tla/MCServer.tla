------------------------------ MODULE MCServer ------------------------------
(***************************************************************************)
(* Three clients for two slots and batches of two events.  Message 1 is a  *)
(* signed script that fills a buffer's first capacity exactly, message 3   *)
(* is longer than the server accepts; both may end early.  Message 2 is    *)
(* empty, or a second script.  One key, which may have expired.            *)
(***************************************************************************)
EXTENDS Server, TLC

CONSTANTS k, none

MCCerts   == {k}
MCExpiry  == k :> 0
MCSigSize == k :> 0
MCTimes   == {0, 1}

Script(size, by) == [size |-> size, newlines |-> {0}, signers |-> by]

MCMsg     == <<Script(1, {k}), Script(0, {}), Script(2, {})>>
MCTwo     == <<Script(1, {k}), Script(1, {k}), Script(2, {})>>
MCMsgSize == [c \in Conns |-> Msg[c].size]
MCInputs  == {Msg[c] : c \in Conns}

=============================================================================
