------------------------------- MODULE MCDer --------------------------------
(***************************************************************************)
(* parse_any with bytes of four bits and lengths of at most two octets, on *)
(* elements that start with an identifier and three bytes of choice.       *)
(***************************************************************************)
EXTENDS Der, Sequences

Prefixes ==
    {<<1, b, o, p, 9>> : b \in 0 .. Base - 1, o \in {0, 1, 7, 8, 15}, p \in {0, 15}}

MCRaws ==
    {[k \in 0 .. Size - 1 |-> IF k < Len(p) THEN p[k + 1] ELSE 0] : p \in Prefixes}

=============================================================================
