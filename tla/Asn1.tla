-------------------------------- MODULE Asn1 --------------------------------
(***************************************************************************)
(* The DER readers of x509.c: parse_any and what is built on it.           *)
(*                                                                         *)
(* A file is its size, its bytes, and for every offset the length field    *)
(* that the bytes from there on form: the number of its octets, the length *)
(* they encode, and whether they are a form that DER allows.  Der shows    *)
(* how parse_any decodes it octet by octet.                                *)
(*                                                                         *)
(* A reader takes and returns where the parser is: the code so far, the    *)
(* index, and the end of the element that was read last.  Once the code is *)
(* not PARSE_OK every reader returns its argument, as the parser returns   *)
(* from whatever it was doing.                                             *)
(***************************************************************************)
EXTENDS Integers, Sequences

IDX_NONE == 0

DER_BOOLEAN         == 1
DER_INTEGER         == 2
DER_BITSTRING       == 3
DER_OCTET_STRING    == 4
DER_OID             == 6
DER_UTCTIME         == 23
DER_GENERALIZEDTIME == 24
DER_CONSTRUCTED     == 32
DER_SEQUENCE        == DER_CONSTRUCTED + 16
DER_SET             == DER_CONSTRUCTED + 17
DER_IMPLICIT_0      == 128
DER_IMPLICIT_1      == 129
DER_IMPLICIT_2      == 130
DER_EXPLICIT_0      == 160
DER_EXPLICIT_3      == 163

(***************************************************************************)
(* Forms of a length field: "ok"; "reserved", the indefinite and reserved  *)
(* ones; "padded", a long form that is longer than it need be; "huge", one *)
(* with more octets than a uint64 has.                                     *)
(***************************************************************************)
Byte == 0 .. 255

LengthField == [form : {"ok", "reserved", "padded", "huge"}, octets : Nat \ {0}, value : Nat]

(***************************************************************************)
(* What the first k of the n octets after i encode.  All that counts of a  *)
(* length beyond the file is that it is beyond, so the value stops growing *)
(* there.                                                                  *)
(***************************************************************************)
LengthValues(base, raw, size, i, n) ==
    LET Shift(v, o) == IF v > size + base THEN v ELSE v * base + o
        value[k \in 0 .. n] == IF k = 0 THEN 0 ELSE Shift(value[k - 1], raw[i + k])
    IN  value

(***************************************************************************)
(* The length field at i, for bytes 0 .. base - 1 and lengths of at most   *)
(* max_octets octets.                                                      *)
(***************************************************************************)
LengthFieldAt(base, max_octets, raw, size, i) ==
    LET half  == base \div 2
        n     == raw[i] - half
        value == LengthValues(base, raw, size, i, n)[n]
    IN  CASE raw[i] < half -> [form |-> "ok", octets |-> 1, value |-> raw[i]]
          [] raw[i] \in {half, base - 1} -> [form |-> "reserved", octets |-> 1, value |-> 0]
          [] raw[i] \notin {half, base - 1} /\ n > 0 /\ i + n >= size ->
                [form |-> "ok", octets |-> 1 + n, value |-> 0]
          [] OTHER ->
                [form |-> IF raw[i + 1] = 0 THEN "padded"
                          ELSE IF n > max_octets THEN "huge"
                          ELSE IF value < half THEN "padded" ELSE "ok",
                 octets |-> 1 + n, value |-> value]

FileOf(base, max_octets, raw, size) ==
    [size |-> size, byte |-> raw,
     length |-> [i \in 0 .. size - 1 |-> LengthFieldAt(base, max_octets, raw, size, i)]]

IsFile(f) ==
    /\ f.size \in Nat \ {0}
    /\ f.byte \in [0 .. f.size - 1 -> Byte]
    /\ f.length \in [0 .. f.size - 1 -> LengthField]

-----------------------------------------------------------------------------

At(i) == [code |-> "PARSE_OK", idx |-> i, end |-> IDX_NONE]

Ok(r) == r.code = "PARSE_OK"

(***************************************************************************)
(* return code; unless cond holds                                          *)
(***************************************************************************)
Require(r, cond, code) ==
    [r EXCEPT !.code = IF @ = "PARSE_OK" /\ ~cond THEN code ELSE @]

Present(r) == r.end # IDX_NONE

(***************************************************************************)
(* On to the byte after the element, if there is one.                      *)
(***************************************************************************)
Past(r) == IF Ok(r) /\ Present(r) THEN [r EXCEPT !.idx = r.end] ELSE r

(***************************************************************************)
(* parse_any, from r.idx and within parent_end.                            *)
(***************************************************************************)
always_fits(len, start, parent_end) == TRUE       \* mutant: the content may pass its parent

Fits(len, start, parent_end) == len.value <= parent_end - start

ElementCode(f, i, parent_end) ==
    LET len   == f.length[i + 1]
        start == i + 1 + len.octets
    IN  IF i + 1 >= parent_end THEN "UNEXPECTED_END_OF_DATA"
        ELSE IF len.form = "reserved" THEN "INVALID_LENGTH_FORM"
        ELSE IF start > parent_end THEN "UNEXPECTED_END_OF_DATA"
        ELSE IF len.form = "padded" THEN "INVALID_LENGTH_FORM"
        ELSE IF len.form = "huge" \/ ~Fits(len, start, parent_end) THEN "UNEXPECTED_END_OF_DATA"
        ELSE "PARSE_OK"

parse_any(f, r, parent_end) ==
    LET c     == ElementCode(f, r.idx, parent_end)
        len   == f.length[r.idx + 1]
        start == r.idx + 1 + len.octets
    IN  IF ~Ok(r) THEN r
        ELSE IF c # "PARSE_OK" THEN [r EXCEPT !.code = c]
        ELSE [code |-> c, idx |-> start, end |-> start + len.value]

parse_data_element(f, id, r, parent_end) ==
    Require(parse_any(f, r, parent_end), f.byte[r.idx] = id, "UNEXPECTED_IDENTIFIER")

(***************************************************************************)
(* An element that is not there, or not whole, is absent: the index is put *)
(* back.                                                                   *)
(***************************************************************************)
Absent(r, e) == Ok(r) /\ e.code \in {"UNEXPECTED_END_OF_DATA", "UNEXPECTED_IDENTIFIER"}

parse_optional_data(f, id, r, parent_end) ==
    LET e == parse_data_element(f, id, r, parent_end)
    IN  IF Absent(r, e) THEN [r EXCEPT !.end = IDX_NONE] ELSE e

(***************************************************************************)
(* A BOOLEAN DEFAULT FALSE, true if it is present.                         *)
(***************************************************************************)
parse_default_bool(f, r, parent_end) ==
    LET b == parse_optional_data(f, DER_BOOLEAN, r, parent_end)
    IN  Past(Require(b, Present(b) => b.end = b.idx + 1 /\ f.byte[b.idx] = 255,
                     "INVALID_BOOLEAN"))

parse_bitstring_no_unused(f, r, parent_end) ==
    LET b == parse_data_element(f, DER_BITSTRING, r, parent_end)
        n == Require(b, b.idx < b.end, "UNEXPECTED_END_OF_DATA")
        z == Require(n, f.byte[n.idx] = 0, "INVALID_BITSTRING")
    IN  IF Ok(z) THEN [z EXCEPT !.idx = @ + 1] ELSE z

=============================================================================
