-------------------------------- MODULE Der ---------------------------------
(***************************************************************************)
(* parse_any of x509.c, one action per part of the function and one per    *)
(* octet of a long length.  Indices and lengths are unsigned integers      *)
(* below Word.  pc names the place, "returned" the end.                    *)
(***************************************************************************)
EXTENDS Integers

CONSTANTS
    Base,       \* a byte is 0 .. Base - 1 (256)
    MaxOctets,  \* the octets of a uinta (8)
    Word,       \* a uinta is 0 .. Word - 1 (2^64)
    Raws,       \* the files, each a function from offsets to bytes
    Size,       \* their size
    Starts      \* the values of *idx

Half == Base \div 2                 \* DER_LENGTH_FORM_MASK, DER_LENGTH_INDEFINITE
DER_LENGTH_RESERVED == Base - 1

Capacity[k \in 0 .. MaxOctets] ==   \* k octets are below it: Base^k
    IF k = 0 THEN 1 ELSE Capacity[k - 1] * Base

ASSUME DerAssumption ==
    /\ Base \in Nat /\ Base > 3
    /\ MaxOctets \in Nat
    /\ Size \in Nat
    /\ Word \in Nat /\ Word > Size + Base /\ Word >= Capacity[MaxOctets]
    /\ Raws \subseteq [0 .. Size - 1 -> 0 .. Base - 1]
    /\ Starts \subseteq 0 .. Size

VARIABLES
    raw_cert, start, parent_end,    \* the arguments
    pc, idx, identifier, length_octets, i, length, content_end,
    code                            \* the return value

args == <<raw_cert, start, parent_end>>
locals == <<identifier, length_octets, i, length, content_end>>
vars == <<args, pc, idx, locals, code>>

TypeOK ==
    /\ raw_cert \in [0 .. Size - 1 -> 0 .. Base - 1]
    /\ start \in Starts /\ parent_end \in start .. Size
    /\ pc \in {"identifier", "length", "long_form", "octets", "content", "returned"}
    /\ idx \in 0 .. Size /\ i \in 0 .. MaxOctets /\ length_octets \in 0 .. Half
    /\ identifier \in 0 .. Base - 1
    /\ length \in 0 .. Word - 1
    /\ content_end \in 0 .. Size
    /\ code \in {"none", "PARSE_OK", "UNEXPECTED_END_OF_DATA", "INVALID_LENGTH_FORM"}

Init ==
    /\ raw_cert \in Raws /\ start \in Starts /\ parent_end \in start .. Size
    /\ pc = "identifier" /\ idx = start
    /\ identifier = 0 /\ length_octets = 0 /\ i = 0 /\ length = 0 /\ content_end = 0
    /\ code = "none"

Goto(next) == pc' = next /\ UNCHANGED <<args, code>>

Return(c) == pc' = "returned" /\ code' = c /\ UNCHANGED args

Fail(c) == Return(c) /\ UNCHANGED <<idx, locals>>

-----------------------------------------------------------------------------

Identifier ==
    /\ pc = "identifier"
    /\ \/ /\ idx >= parent_end
          /\ Fail("UNEXPECTED_END_OF_DATA")
       \/ /\ idx < parent_end
          /\ identifier' = raw_cert[idx]
          /\ idx' = idx + 1
          /\ Goto("length")
          /\ UNCHANGED <<length_octets, i, length, content_end>>

indefinite_accepted(byte) == byte = DER_LENGTH_RESERVED    \* mutant: 0x80 is let through

Disallowed(byte) == byte \in {Half, DER_LENGTH_RESERVED}

LengthByte ==
    /\ pc = "length"
    /\ \/ /\ idx >= parent_end
          /\ Fail("UNEXPECTED_END_OF_DATA")
       \/ /\ idx < parent_end
          /\ Disallowed(raw_cert[idx])
          /\ Fail("INVALID_LENGTH_FORM")
       \/ /\ idx < parent_end
          /\ ~Disallowed(raw_cert[idx])
          /\ idx' = idx + 1
          /\ IF raw_cert[idx] >= Half
               THEN length_octets' = raw_cert[idx] - Half /\ Goto("long_form") /\ UNCHANGED length
               ELSE length' = raw_cert[idx] /\ Goto("content") /\ UNCHANGED length_octets
          /\ UNCHANGED <<identifier, i, content_end>>

any_number_of_octets ==         \* mutant: the length may overflow
    /\ pc = "long_form"
    /\ \/ /\ idx + length_octets > parent_end
          /\ Fail("UNEXPECTED_END_OF_DATA")
       \/ /\ idx + length_octets <= parent_end
          /\ IF raw_cert[idx] = 0
               THEN Fail("INVALID_LENGTH_FORM")
               ELSE Goto("octets") /\ UNCHANGED <<idx, locals>>

LongForm ==
    /\ pc = "long_form"
    /\ \/ /\ idx + length_octets > parent_end
          /\ Fail("UNEXPECTED_END_OF_DATA")
       \/ /\ idx + length_octets <= parent_end
          /\ raw_cert[idx] = 0
          /\ Fail("INVALID_LENGTH_FORM")
       \/ /\ idx + length_octets <= parent_end
          /\ raw_cert[idx] # 0
          /\ IF length_octets > MaxOctets
               THEN Fail("UNEXPECTED_END_OF_DATA")
               ELSE Goto("octets") /\ UNCHANGED <<idx, locals>>

octet_not_counted ==            \* mutant: the loop does not count its rounds
    /\ pc = "octets" /\ i < length_octets
    /\ length' = (length * Base + raw_cert[idx]) % Word
    /\ Goto("octets")
    /\ UNCHANGED <<identifier, length_octets, idx, i, content_end>>

Octet ==
    /\ pc = "octets" /\ i < length_octets
    /\ length' = (length * Base + raw_cert[idx]) % Word
    /\ idx' = idx + 1
    /\ i' = i + 1
    /\ Goto("octets")
    /\ UNCHANGED <<identifier, length_octets, content_end>>

needless_long_form == FALSE                         \* mutant: any length may have the long form

ShortFormDue == length < Half

LongFormEnds ==
    /\ pc = "octets" /\ i >= length_octets
    /\ IF ShortFormDue
         THEN Fail("INVALID_LENGTH_FORM")
         ELSE Goto("content") /\ UNCHANGED <<idx, locals>>

too_long_by_sum == (idx + length) % Word > parent_end   \* mutant: the sum may overflow

TooLong == length > (parent_end - idx) % Word

Content ==
    /\ pc = "content"
    /\ \/ /\ TooLong
          /\ Fail("UNEXPECTED_END_OF_DATA")
       \/ /\ ~TooLong
          /\ content_end' = (idx + length) % Word
          /\ Return("PARSE_OK")
          /\ UNCHANGED <<idx, identifier, length_octets, i, length>>

Next == Identifier \/ LengthByte \/ LongForm \/ Octet \/ LongFormEnds \/ Content

Spec == Init /\ [][Next]_vars /\ WF_vars(Next)

-----------------------------------------------------------------------------

(***************************************************************************)
(* "Ensures that *idx <= *ret_content_end <= parent_end after returning    *)
(* PARSE_OK" (x509.c:23), whatever length the file claims.                 *)
(***************************************************************************)
ContentInParent ==
    code = "PARSE_OK" => idx <= content_end /\ content_end <= parent_end

(***************************************************************************)
(* Every byte that is read is one of the enclosing element: before the     *)
(* test for a leading zero and before each round of the loop no index is   *)
(* compared with parent_end (x509.c:53, :63).                              *)
(***************************************************************************)
ReadsInParent ==
    \/ pc = "long_form" /\ idx + length_octets <= parent_end
    \/ pc = "octets" /\ i < length_octets
    => idx < parent_end

(***************************************************************************)
(* Octet by octet, parse_any computes the answer that the length field as  *)
(* a whole calls for: no length overflows, no encoding that DER forbids is *)
(* accepted and none that it allows is refused (x509.c:41-75).             *)
(***************************************************************************)
Abstract == INSTANCE Element WITH
    None <- [code |-> "none"],
    call <- [raw |-> raw_cert, idx |-> start, parent_end |-> parent_end],
    answer <- IF code = "PARSE_OK"
                THEN [code |-> code, idx |-> idx, end |-> content_end, identifier |-> identifier]
                ELSE [code |-> code]

ImplementsElement == Abstract!Spec

(***************************************************************************)
(* Every call returns, whatever number of octets the file claims for the   *)
(* length: the loop of x509.c:62 ends.                                     *)
(***************************************************************************)
Returns == <>(pc = "returned")

=============================================================================
