------------------------------ MODULE Element -------------------------------
(***************************************************************************)
(* What parse_any promises: in one step, the answer that the length field  *)
(* of the element calls for.  X509 reads elements this way.                *)
(***************************************************************************)
EXTENDS Asn1

CONSTANTS Base, MaxOctets, Size, None

VARIABLES
    call,       \* the file, the index and the end of the enclosing element
    answer      \* None before the call returns

vars == <<call, answer>>

Answer(c) ==
    LET r == parse_any(FileOf(Base, MaxOctets, c.raw, Size), At(c.idx), c.parent_end)
    IN  IF Ok(r) THEN [code |-> r.code, idx |-> r.idx, end |-> r.end,
                       identifier |-> c.raw[c.idx]]
                 ELSE [code |-> r.code]

Init == answer = None

Parse == answer = None /\ answer' = Answer(call) /\ UNCHANGED call

Spec == Init /\ [][Parse]_vars

=============================================================================
