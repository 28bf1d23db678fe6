-------------------------------- MODULE X509 --------------------------------
(***************************************************************************)
(* parse_x509 of x509.c: one action per element of the certificate, per    *)
(* round of each loop and per extension.  pc names the element that comes  *)
(* next, "returned" the end; a failed assertion is a code of its own.      *)
(*                                                                         *)
(* A member pair _start, _end of x509Fields is a region.  key_usage_flags  *)
(* is the set of the bits that are set, and a time_t is a day and a second *)
(* of that day.  When parse_x509 fails, the contents of ret_fields are     *)
(* undefined (x509.h:268), so what a failing step writes is left out.      *)
(*                                                                         *)
(* \E x \in {e} names the value of e: a LET that TLC evaluates once.       *)
(***************************************************************************)
EXTENDS Asn1

CONSTANTS
    Certs,      \* the certificate files
    MaxExtn,    \* MAX_EXTN
    Garbage     \* what ret_fields holds before the call, to be told from what is assigned

ASSUME X509Assumption ==
    /\ \A c \in Certs : IsFile(c)
    /\ MaxExtn \in Nat

Regions == {"sig_id", "sig_oid", "sig", "pub_key_id", "pub_key_oid", "pub_key",
            "signed_data", "cert_serial", "skid", "akid"}
Values == {"not_before", "not_after", "key_cert_sign", "path_len_constraint",
           "has_key_usage", "has_ext_key_usage", "key_usage_flags"}

VARIABLES
    cert,       \* raw_cert and raw_cert_size
    pc, idx,
    end,        \* ends of the certificate, the TBS certificate, the innermost
                \* list (or pair), and the list item or extension value
    after,      \* where to go on after a name
    extn_oids,  \* the extensions seen
    fields,     \* ret_fields
    code

vars == <<cert, pc, idx, end, after, extn_oids, fields, code>>

Region(s, e) == [start |-> s, end |-> e]

(***************************************************************************)
(* raw_cert[s .. e - 1], to be compared                                    *)
(***************************************************************************)
Bytes(s, e) == [k \in 1 .. e - s |-> cert.byte[s + k - 1]]

Init ==
    /\ cert \in Certs
    /\ pc = "certificate" /\ idx = 0
    /\ end = [cert |-> 0, tbs |-> 0, list |-> 0, item |-> 0]
    /\ after = "validity"
    /\ extn_oids = <<>>
    /\ fields = [x \in Regions \cup Values |-> Garbage]
    /\ code = "PARSE_OK"

(***************************************************************************)
(* On to next, or out with an error.                                       *)
(***************************************************************************)
Proceed(r, next) ==
    /\ code' = r.code
    /\ idx' = r.idx
    /\ pc' = IF Ok(r) THEN next ELSE "returned"
    /\ UNCHANGED cert

Store(r, new) == fields' = IF Ok(r) THEN new ELSE fields

Leave(r, e) == IF Ok(r) THEN [r EXCEPT !.idx = e] ELSE r

-----------------------------------------------------------------------------

Certificate ==
    /\ pc = "certificate"
    /\ \E seq \in {parse_data_element(cert, DER_SEQUENCE, At(idx), cert.size)} :
       LET whole == Require(seq, seq.end = cert.size, "TRAILING_DATA")
       IN  /\ Proceed(whole, "tbs_certificate")
           /\ end' = [end EXCEPT !.cert = seq.end]
    /\ UNCHANGED <<after, extn_oids, fields>>

TBSCertificate ==
    /\ pc = "tbs_certificate"
    /\ \E seq \in {parse_data_element(cert, DER_SEQUENCE, At(idx), end.cert)} :
       /\ Proceed(seq, "version")
       /\ end' = [end EXCEPT !.tbs = seq.end]
       /\ Store(seq, [fields EXCEPT !.signed_data = Region(idx, seq.end)])
    /\ UNCHANGED <<after, extn_oids>>

Version ==
    /\ pc = "version"
    /\ \E explicit \in {parse_data_element(cert, DER_EXPLICIT_0, At(idx), end.tbs)} :
       \E version \in {parse_data_element(cert, DER_INTEGER, explicit, explicit.end)} :
       LET accepted == Require(version, version.end - version.idx = 1 /\ cert.byte[version.idx] = 2,
                               "INVALID_VERSION")
           whole    == Require(accepted, version.end = explicit.end, "TRAILING_DATA")
       IN  Proceed(Past(whole), "serial_number")
    /\ UNCHANGED <<end, after, extn_oids, fields>>

SerialNumber ==
    /\ pc = "serial_number"
    /\ \E serial \in {parse_data_element(cert, DER_INTEGER, At(idx), end.tbs)} :
       /\ Proceed(Past(serial), "signature")
       /\ Store(serial, [fields EXCEPT !.cert_serial = Region(serial.idx, serial.end)])
    /\ UNCHANGED <<end, after, extn_oids>>

parse_alg_id(parent_end, id, oid, next) ==
    /\ \E seq \in {parse_data_element(cert, DER_SEQUENCE, At(idx), parent_end)} :
       \E alg \in {parse_data_element(cert, DER_OID, seq, seq.end)} :
       /\ Proceed(Leave(alg, seq.end), next)
       /\ Store(alg, [fields EXCEPT ![id] = Region(idx, seq.end),
                                    ![oid] = Region(alg.idx, alg.end)])
    /\ UNCHANGED <<end, after, extn_oids>>

Signature == pc = "signature" /\ parse_alg_id(end.tbs, "sig_id", "sig_oid", "issuer")

-----------------------------------------------------------------------------

(***************************************************************************)
(* parse_name: a sequence of sets of attributes, none of which is kept.    *)
(***************************************************************************)
parse_name(returns_to) ==
    /\ \E name \in {parse_data_element(cert, DER_SEQUENCE, At(idx), end.tbs)} :
       Proceed(name, "relative_name") /\ end' = [end EXCEPT !.list = name.end]
    /\ after' = returns_to
    /\ UNCHANGED <<extn_oids, fields>>

Issuer == pc = "issuer" /\ parse_name("validity")

Subject == pc = "subject" /\ parse_name("public_key_info")

RelativeName ==
    /\ pc = "relative_name" /\ idx < end.list
    /\ \E set \in {parse_data_element(cert, DER_SET, At(idx), end.list)} :
       Proceed(set, "attribute") /\ end' = [end EXCEPT !.item = set.end]
    /\ UNCHANGED <<after, extn_oids, fields>>

skip_attribute ==       \* mutant: what follows the value is left unread
    /\ pc = "attribute"
    /\ \E seq \in {parse_data_element(cert, DER_SEQUENCE, At(idx), end.item)} :
       \E type \in {parse_data_element(cert, DER_OID, seq, seq.end)} :
       \E value \in {Past(parse_any(cert, Past(type), seq.end))} :
       LET again == seq.end < end.item
           r     == Require(value, again \/ value.idx = end.item, "ASSERTION_FAILED")
       IN  Proceed(r, IF again THEN "attribute" ELSE "relative_name")
    /\ UNCHANGED <<end, after, extn_oids, fields>>

Attribute ==
    /\ pc = "attribute"
    /\ \E seq \in {parse_data_element(cert, DER_SEQUENCE, At(idx), end.item)} :
       \E type \in {parse_data_element(cert, DER_OID, seq, seq.end)} :
       \E value \in {parse_any(cert, Past(type), seq.end)} :
       LET whole == Past(Require(value, value.end = seq.end, "TRAILING_DATA"))
           again == seq.end < end.item
           r     == Require(whole, again \/ whole.idx = end.item, "ASSERTION_FAILED")
       IN  Proceed(r, IF again THEN "attribute" ELSE "relative_name")
    /\ UNCHANGED <<end, after, extn_oids, fields>>

NameEnds ==
    /\ pc = "relative_name" /\ idx >= end.list
    /\ Proceed(Require(At(idx), idx = end.list, "ASSERTION_FAILED"), after)
    /\ UNCHANGED <<end, after, extn_oids, fields>>

-----------------------------------------------------------------------------

(***************************************************************************)
(* timegm.  A struct tm that it would alter is no date; years count from   *)
(* 1900.                                                                   *)
(***************************************************************************)
Leap(y) == y % 4 = 0 /\ (y % 100 # 0 \/ y % 400 = 0)

DaysIn(y, mon) ==
    CASE mon = 1 -> IF Leap(y) THEN 29 ELSE 28
      [] mon \in {3, 5, 8, 10} -> 30
      [] OTHER -> 31

DaysBefore == <<0, 31, 59, 90, 120, 151, 181, 212, 243, 273, 304, 334>>

Unaltered(tm) ==
    /\ tm.mon \in 0 .. 11
    /\ tm.mday \in 1 .. DaysIn(1900 + tm.year, tm.mon)
    /\ tm.hour < 24 /\ tm.min < 60 /\ tm.sec < 60

timegm(tm) ==
    LET y     == 1900 + tm.year
        Leaps == ((y - 1) \div 4) - ((y - 1) \div 100) + ((y - 1) \div 400)
        today == IF Leap(y) /\ tm.mon > 1 THEN tm.mday ELSE tm.mday - 1
    IN  [day |-> 365 * (y - 1970) + Leaps - 477 + DaysBefore[tm.mon + 1] + today,
         sec |-> 3600 * tm.hour + 60 * tm.min + tm.sec]

(***************************************************************************)
(* CONVERT_2DIGIT of the digits at s.                                      *)
(***************************************************************************)
TwoDigits(s) == (cert.byte[s] - 48) * 10 + (cert.byte[s + 1] - 48)

AreDigits(s, n) == \A k \in s .. s + n - 1 : cert.byte[k] \in 48 .. 57

UtcYear(yy) == IF yy < 50 THEN yy + 100 ELSE yy

BrokenDown(s, general) ==
    LET rest == IF general THEN s + 4 ELSE s + 2
    IN  [year |-> IF general THEN 100 * TwoDigits(s) + TwoDigits(s + 2)
                             ELSE UtcYear(TwoDigits(s)),
         mon  |-> TwoDigits(rest) - 1,
         mday |-> TwoDigits(rest + 2),
         hour |-> TwoDigits(rest + 4),
         min  |-> TwoDigits(rest + 6),
         sec  |-> TwoDigits(rest + 8)]

IsDate(s, general) ==
    \E tm \in {BrokenDown(s, general)} : Unaltered(tm) /\ timegm(tm).day >= 0

(***************************************************************************)
(* What parse_time asks of the time it found.  notAfter must end the       *)
(* validity.                                                               *)
(***************************************************************************)
CheckTime(time, general, member) ==
    LET size  == IF general THEN 15 ELSE 13
        sized == Require(time, time.end = time.idx + size, "INVALID_VALIDITY_TIME")
        read  == Require(sized, AreDigits(time.idx, size - 1) /\ cert.byte[time.end - 1] = 90,
                         "INVALID_VALIDITY_TIME")
        date  == Require(read, IsDate(time.idx, general), "INVALID_VALIDITY_TIME")
    IN  Require(date, member = "not_after" => time.end = end.list, "TRAILING_DATA")

parse_time(member, next) ==
    /\ \E utc \in {parse_optional_data(cert, DER_UTCTIME, At(idx), end.list)} :
       \E time \in {IF Present(utc) THEN utc
                     ELSE parse_data_element(cert, DER_GENERALIZEDTIME, utc, end.list)} :
       \E whole \in {CheckTime(time, ~Present(utc), member)} :
       /\ Proceed(Past(whole), next)
       /\ Store(whole, [fields EXCEPT ![member] = timegm(BrokenDown(time.idx, ~Present(utc)))])
    /\ UNCHANGED <<end, after, extn_oids>>

Validity ==
    /\ pc = "validity"
    /\ \E seq \in {parse_data_element(cert, DER_SEQUENCE, At(idx), end.tbs)} :
       Proceed(seq, "not_before") /\ end' = [end EXCEPT !.list = seq.end]
    /\ UNCHANGED <<after, extn_oids, fields>>

NotBefore == pc = "not_before" /\ parse_time("not_before", "not_after")

NotAfter == pc = "not_after" /\ parse_time("not_after", "subject")

-----------------------------------------------------------------------------

SubjectPublicKeyInfo ==
    /\ pc = "public_key_info"
    /\ \E seq \in {parse_data_element(cert, DER_SEQUENCE, At(idx), end.tbs)} :
       Proceed(seq, "algorithm") /\ end' = [end EXCEPT !.list = seq.end]
    /\ UNCHANGED <<after, extn_oids, fields>>

Algorithm ==
    pc = "algorithm" /\ parse_alg_id(end.list, "pub_key_id", "pub_key_oid", "public_key")

(***************************************************************************)
(* A bit string that must end its parent.                                  *)
(***************************************************************************)
BitString(parent_end, member, next) ==
    /\ \E bits \in {parse_bitstring_no_unused(cert, At(idx), parent_end)} :
       LET whole == Require(bits, bits.end = parent_end, "TRAILING_DATA")
       IN  /\ Proceed(Past(whole), next)
           /\ Store(whole, [fields EXCEPT ![member] = Region(bits.idx, bits.end)])
    /\ UNCHANGED <<end, after, extn_oids>>

SubjectPublicKey == pc = "public_key" /\ BitString(end.list, "pub_key", "unique_ids")

UniqueIDs ==
    /\ pc = "unique_ids"
    /\ \E issuer \in {Past(parse_optional_data(cert, DER_IMPLICIT_1, At(idx), end.tbs))} :
       \E subject \in {Past(parse_optional_data(cert, DER_IMPLICIT_2, issuer, end.tbs))} :
       Proceed(subject, "extensions")
    /\ UNCHANGED <<end, after, extn_oids, fields>>

-----------------------------------------------------------------------------

no_default_for_akid(fs) ==      \* mutant: a member keeps what it held before the call
    [fs EXCEPT !.skid = Region(IDX_NONE, IDX_NONE),
               !.key_cert_sign = FALSE, !.path_len_constraint = 0,
               !.has_key_usage = FALSE, !.has_ext_key_usage = FALSE,
               !.key_usage_flags = {}]

assign_default_extensions(fs) ==
    [fs EXCEPT !.skid = Region(IDX_NONE, IDX_NONE), !.akid = Region(IDX_NONE, IDX_NONE),
               !.key_cert_sign = FALSE, !.path_len_constraint = 0,
               !.has_key_usage = FALSE, !.has_ext_key_usage = FALSE,
               !.key_usage_flags = {}]

Extensions ==
    /\ pc = "extensions"
    /\ \E explicit \in {parse_optional_data(cert, DER_EXPLICIT_3, At(idx), end.tbs)} :
       \E seq \in {parse_data_element(cert, DER_SEQUENCE, explicit, explicit.end)} :
       LET whole == Require(seq, seq.end = explicit.end, "TRAILING_DATA")
       IN  /\ IF Ok(explicit) /\ ~Present(explicit)
                THEN Proceed(explicit, "end_of_tbs") /\ UNCHANGED end
                ELSE Proceed(whole, "extension") /\ end' = [end EXCEPT !.list = seq.end]
           /\ Store(explicit, assign_default_extensions(fields))
    /\ UNCHANGED <<after, extn_oids>>

(***************************************************************************)
(* supported_etxns: the last byte of the oid 2.5.29.x, the criticality     *)
(* that is mandated, and the function that parses it.                      *)
(***************************************************************************)
SupportedExtns ==
    {[oid |-> <<85, 29, 19>>, critical |-> {TRUE},        parse |-> "basic_constraint"],
     [oid |-> <<85, 29, 35>>, critical |-> {FALSE},       parse |-> "akid"],
     [oid |-> <<85, 29, 14>>, critical |-> {FALSE},       parse |-> "skid"],
     [oid |-> <<85, 29, 15>>, critical |-> {FALSE, TRUE}, parse |-> "key_usage"],
     [oid |-> <<85, 29, 37>>, critical |-> {FALSE, TRUE}, parse |-> "ext_key_usage"]}

AsMandated(oid, critical) ==
    \A e \in SupportedExtns : e.oid = oid => critical \in e.critical

Supported(oid) == \E e \in SupportedExtns : e.oid = oid

repeats_allowed(oid) == FALSE      \* mutant: an extension may occur twice

Seen(oid) == \E k \in DOMAIN extn_oids : extn_oids[k] = oid

room_for_one_more == Len(extn_oids) <= MaxExtn     \* mutant: off by one

Room == Len(extn_oids) < MaxExtn

(***************************************************************************)
(* What is asked of an extension before it is parsed.                      *)
(***************************************************************************)
CheckExtn(value, seq_end, oid, critical) ==
    LET whole == Require(value, value.end = seq_end, "TRAILING_DATA")
        new   == Require(whole, ~Seen(oid), "DUPLICATE_EXTNS")
        apt   == Require(new, AsMandated(oid, critical), "INVALID_CRITICALITY")
    IN  Require(apt, critical => Supported(oid), "UNRECOGNIZED_CRITICAL_EXTN")

parse_extn(oid) == (CHOOSE e \in SupportedExtns : e.oid = oid).parse

Extension ==
    /\ pc = "extension" /\ idx < end.list
    /\ \E room \in {Require(At(idx), Room, "EXCEEDS_MAX_EXTNS")} :
       \E seq \in {parse_data_element(cert, DER_SEQUENCE, room, end.list)} :
       \E extnID \in {parse_data_element(cert, DER_OID, seq, seq.end)} :
       \E crit \in {parse_default_bool(cert, Past(extnID), seq.end)} :
       \E value \in {parse_data_element(cert, DER_OCTET_STRING, crit, seq.end)} :
       \E oid \in {Bytes(extnID.idx, extnID.end)} :
       \E known \in {CheckExtn(value, seq.end, oid, Present(crit))} :
       /\ IF Ok(known) /\ Supported(oid) THEN Proceed(known, parse_extn(oid))
                                          ELSE Proceed(Past(known), "extension")
       /\ end' = [end EXCEPT !.item = value.end]
       /\ extn_oids' = IF Ok(known) THEN Append(extn_oids, oid) ELSE extn_oids
    /\ UNCHANGED <<after, fields>>

ExtensionsEnd ==
    /\ pc = "extension" /\ idx >= end.list
    /\ Proceed(Require(At(idx), idx = end.list, "ASSERTION_FAILED"), "end_of_tbs")
    /\ UNCHANGED <<end, after, extn_oids, fields>>

(***************************************************************************)
(* parse_extn returns and *idx = extn_end.                                 *)
(***************************************************************************)
ExtnParsed(r, new) ==
    /\ Proceed(Leave(r, end.item), "extension")
    /\ Store(r, new)
    /\ UNCHANGED <<end, after, extn_oids>>

MAX_UINT32 == -1

low_byte_only(from, s, e) == cert.byte[e - 1]       \* mutant: the bytes are not put together

Shifted(v, k, e) == IF k < e THEN 256 * v + cert.byte[k] ELSE v

(***************************************************************************)
(* At most four bytes, the first below 128: no bit is shifted out.         *)
(***************************************************************************)
PathLen(from, s, e) ==
    Shifted(Shifted(Shifted(Shifted(from, s, e), s + 1, e), s + 2, e), s + 3, e)

CheckPathLen(path) ==
    LET nonempty == Require(path, Present(path) => path.idx < path.end,
                            "UNEXPECTED_END_OF_DATA")
        natural  == Require(nonempty, Present(path) => /\ cert.byte[path.idx] < 128
                                                       /\ path.end - path.idx <= 4,
                            "INVALID_INTEGER")
    IN  Require(natural, Past(natural).idx = end.item, "TRAILING_DATA")

parse_basic_constraint ==
    /\ pc = "basic_constraint"
    /\ \E seq \in {parse_data_element(cert, DER_SEQUENCE, At(idx), end.item)} :
       \E ca \in {parse_default_bool(cert, seq, seq.end)} :
       \E path \in {IF Present(ca) THEN parse_optional_data(cert, DER_INTEGER, ca, seq.end)
                     ELSE ca} :
       ExtnParsed(CheckPathLen(path),
           [fields EXCEPT
               !.key_cert_sign = Present(ca),
               !.path_len_constraint = IF ~Present(ca) THEN @
                                       ELSE IF ~Present(path) THEN MAX_UINT32
                                       ELSE PathLen(@, path.idx, path.end)])

end_only(old, id) == [old EXCEPT !.end = id.end]    \* mutant: akid_start is not assigned

KeyIdentifier(old, id) == Region(IF Present(id) THEN id.idx ELSE old.start, id.end)

parse_akid ==
    /\ pc = "akid"
    /\ \E seq \in {parse_data_element(cert, DER_SEQUENCE, At(idx), end.item)} :
       \E full \in {Require(seq, seq.end = end.item, "TRAILING_DATA")} :
       \E id \in {parse_optional_data(cert, DER_IMPLICIT_0, full, seq.end)} :
       \E issuer \in {parse_optional_data(cert, DER_CONSTRUCTED + DER_IMPLICIT_1,
                                          Past(id), seq.end)} :
       \E serial \in {parse_optional_data(cert, DER_IMPLICIT_2, Past(issuer), seq.end)} :
       LET whole == Require(serial, Past(serial).idx = end.item, "TRAILING_DATA")
       IN  ExtnParsed(whole,
               [fields EXCEPT !.akid = KeyIdentifier(@, id)])

parse_skid ==
    /\ pc = "skid"
    /\ \E id \in {parse_data_element(cert, DER_OCTET_STRING, At(idx), end.item)} :
       LET whole == Require(id, id.end = end.item, "TRAILING_DATA")
       IN  ExtnParsed(whole, [fields EXCEPT !.skid = Region(id.idx, id.end)])

Bits(b) == {k \in 0 .. 7 : (b \div 2 ^ k) % 2 = 1}

(***************************************************************************)
(* A named bit list: the last bit before the unused ones is set.           *)
(***************************************************************************)
LastBitSet(unused, last) == unused < 8 /\ unused \in Bits(last) /\ \A k \in Bits(last) : k >= unused

ninth_bit_up(b) == {k + 9 : k \in Bits(b)}         \* mutant: shifted past the sixteen flags

SecondByte(b) == {k + 1 : k \in Bits(b)}

parse_key_usage ==
    /\ pc = "key_usage"
    /\ \E bits \in {parse_data_element(cert, DER_BITSTRING, At(idx), end.item)} :
       LET some   == Require(bits, bits.end - bits.idx > 1, "UNEXPECTED_END_OF_DATA")
           whole  == Require(some, bits.end = end.item /\ bits.end - bits.idx <= 3, "TRAILING_DATA")
           named  == Require(whole, LastBitSet(cert.byte[bits.idx], cert.byte[bits.end - 1]),
                            "INVALID_BITSTRING")
           second == IF bits.idx + 2 < bits.end
                       THEN SecondByte(cert.byte[bits.idx + 2]) ELSE {}
       IN  ExtnParsed(named,
               [fields EXCEPT !.has_key_usage = TRUE,
                              !.key_usage_flags = @ \cup Bits(cert.byte[bits.idx + 1]) \cup second])

-----------------------------------------------------------------------------

parse_ext_key_usage ==
    /\ pc = "ext_key_usage"
    /\ \E seq \in {parse_data_element(cert, DER_SEQUENCE, At(idx), end.item)} :
       LET whole == Require(seq, seq.end = end.item, "TRAILING_DATA")
       IN  Proceed(whole, "key_purpose")
    /\ UNCHANGED <<end, after, extn_oids, fields>>

KP_OID == <<43, 6, 1, 5, 5, 7, 3>>

(***************************************************************************)
(* The flag of each key purpose, by the last number of its oid.            *)
(***************************************************************************)
PurposeFlags(oid) ==
    LET last == oid[Len(oid)]
        flag == [n \in {0, 1, 2, 3, 4, 8, 9} |->
                    CASE n = 8 -> 21 [] n = 9 -> 22 [] OTHER -> 16 + n]
    IN  IF Len(oid) = 8 /\ SubSeq(oid, 1, 7) = KP_OID /\ last \in DOMAIN flag
          THEN {flag[last]} ELSE {}

purpose_not_passed ==       \* mutant: the loop does not go on to the next purpose
    /\ pc = "key_purpose" /\ idx < end.item
    /\ \E oid \in {parse_data_element(cert, DER_OID, At(idx), end.item)} :
       /\ Proceed(Leave(oid, idx), "key_purpose")
       /\ Store(oid, [fields EXCEPT !.key_usage_flags =
                                        @ \cup PurposeFlags(Bytes(oid.idx, oid.end))])
    /\ UNCHANGED <<end, after, extn_oids>>

KeyPurpose ==
    /\ pc = "key_purpose" /\ idx < end.item
    /\ \E oid \in {parse_data_element(cert, DER_OID, At(idx), end.item)} :
       /\ Proceed(Past(oid), "key_purpose")
       /\ Store(oid, [fields EXCEPT !.key_usage_flags =
                                        @ \cup PurposeFlags(Bytes(oid.idx, oid.end))])
    /\ UNCHANGED <<end, after, extn_oids>>

KeyPurposesEnd ==
    /\ pc = "key_purpose" /\ idx >= end.item
    /\ ExtnParsed(Require(At(idx), idx = end.item, "ASSERTION_FAILED"),
                  [fields EXCEPT !.has_ext_key_usage = TRUE])

-----------------------------------------------------------------------------

SignatureAlgorithm ==
    /\ pc = "end_of_tbs"
    /\ LET size  == fields.sig_id.end - fields.sig_id.start
           whole == Require(At(idx), idx = end.tbs, "TRAILING_DATA")
           room  == Require(whole, idx + size < end.cert, "UNEXPECTED_END_OF_DATA")
           same  == Require(room, Bytes(fields.sig_id.start, fields.sig_id.end)
                                    = Bytes(idx, idx + size), "MISMATCHED_SIG_ID")
       IN  Proceed(Leave(same, idx + size), "signature_value")
    /\ UNCHANGED <<end, after, extn_oids, fields>>

SignatureValue == pc = "signature_value" /\ BitString(end.cert, "sig", "returned")

Next ==
    \/ Certificate \/ TBSCertificate \/ Version \/ SerialNumber \/ Signature
    \/ Issuer \/ Subject \/ RelativeName \/ Attribute \/ NameEnds
    \/ Validity \/ NotBefore \/ NotAfter
    \/ SubjectPublicKeyInfo \/ Algorithm \/ SubjectPublicKey \/ UniqueIDs
    \/ Extensions \/ Extension \/ ExtensionsEnd
    \/ parse_basic_constraint \/ parse_akid \/ parse_skid \/ parse_key_usage
    \/ parse_ext_key_usage \/ KeyPurpose \/ KeyPurposesEnd
    \/ SignatureAlgorithm \/ SignatureValue

Spec == Init /\ [][Next]_vars /\ WF_vars(Next)

-----------------------------------------------------------------------------

ItemPlaces == {"attribute", "basic_constraint", "akid", "skid", "key_usage", "ext_key_usage",
               "key_purpose"}
ListPlaces == {"relative_name", "not_before", "not_after", "algorithm", "public_key", "extension"}
TbsPlaces == {"version", "serial_number", "signature", "issuer", "validity", "subject",
              "public_key_info", "unique_ids", "extensions", "end_of_tbs"}
CertPlaces == {"tbs_certificate", "signature_value"}

ParseCodes ==
    {"PARSE_OK", "UNEXPECTED_END_OF_DATA", "UNEXPECTED_IDENTIFIER", "INVALID_LENGTH_FORM",
     "TRAILING_DATA", "INVALID_VERSION", "INVALID_BOOLEAN", "INVALID_INTEGER",
     "INVALID_BITSTRING", "INVALID_VALIDITY_TIME", "MISMATCHED_SIG_ID", "EXCEEDS_MAX_EXTNS",
     "DUPLICATE_EXTNS", "UNRECOGNIZED_CRITICAL_EXTN", "INVALID_CRITICALITY"}

TypeOK ==
    /\ pc \in ItemPlaces \cup ListPlaces \cup TbsPlaces \cup CertPlaces
               \cup {"certificate", "returned"}
    /\ idx \in Nat
    /\ end \in [cert : Nat, tbs : Nat, list : Nat, item : Nat]
    /\ after \in {"validity", "public_key_info"}
    /\ extn_oids \in Seq(Seq(Byte)) /\ Len(extn_oids) <= MaxExtn
    /\ DOMAIN fields = Regions \cup Values
    /\ \A x \in Regions : fields[x] = Garbage \/ fields[x] \in [start : Nat, end : Nat]
    /\ code \in ParseCodes \cup {"ASSERTION_FAILED"}

Parsed == pc = "returned" /\ code = "PARSE_OK"

(***************************************************************************)
(* Elements are nested in one another and in the file, and the parser is   *)
(* inside the innermost one: no byte outside the file is read, and none of *)
(* another element is taken for one of this.                               *)
(***************************************************************************)
Nested ==
    /\ pc \notin {"certificate", "returned"} => end.cert = cert.size /\ idx <= end.cert
    /\ pc \in ItemPlaces \cup ListPlaces \cup TbsPlaces => end.tbs <= end.cert /\ idx <= end.tbs
    /\ pc \in ItemPlaces \cup ListPlaces => end.list <= end.tbs /\ idx <= end.list
    /\ pc \in ItemPlaces => end.item <= end.list /\ idx <= end.item

(***************************************************************************)
(* The assertions at the ends of the loops (x509.c:428, :641, :643, :929)  *)
(* hold for every file, whatever its elements claim.                       *)
(***************************************************************************)
ParserAssertionsHold == code # "ASSERTION_FAILED"

(***************************************************************************)
(* In a certificate that parses every index is within the file             *)
(* (x509.h:167), and all that the server goes by, the signature itself     *)
(* excepted, lies in the signed data and in the order of the standard.     *)
(***************************************************************************)
Within(r, s) == s.start <= r.start /\ r.start <= r.end /\ r.end <= s.end

Before(r, s) == r.end <= s.start

FieldsAreSigned ==
    Parsed =>
        /\ Within(fields.signed_data, Region(0, cert.size))
        /\ Within(fields.sig, Region(fields.signed_data.end, cert.size))
        /\ fields.sig.end = cert.size
        /\ \A x \in {"sig_id", "pub_key_id", "cert_serial", "pub_key"} :
                Within(fields[x], fields.signed_data)
        /\ Within(fields.sig_oid, fields.sig_id) /\ Within(fields.pub_key_oid, fields.pub_key_id)
        /\ Before(fields.cert_serial, fields.sig_id) /\ Before(fields.sig_id, fields.pub_key_id)
        /\ Before(fields.pub_key_id, fields.pub_key)
        /\ \A x \in {"skid", "akid"} :
                \/ fields[x] = Region(IDX_NONE, IDX_NONE)
                \/ Within(fields[x], Region(fields.pub_key.end, fields.signed_data.end))

(***************************************************************************)
(* "ret_fields will be overwritten and fully initialized" (x509.h:267),    *)
(* with or without extensions.                                             *)
(***************************************************************************)
FullyInitialized == Parsed => \A x \in Regions \cup Values : fields[x] # Garbage

(***************************************************************************)
(* A flag is only set by the extension it belongs to (x509.h:237): the key *)
(* usage bit string never sets the flag of a key purpose, nor do purposes  *)
(* set one of its bits; and the path length is 0 without CA:TRUE           *)
(* (x509.h:228).                                                           *)
(***************************************************************************)
FlagsByTheirExtension ==
    Parsed =>
        /\ \A k \in fields.key_usage_flags :
                IF k < 16 THEN fields.has_key_usage ELSE fields.has_ext_key_usage
        /\ ~fields.key_cert_sign => fields.path_len_constraint = 0

(***************************************************************************)
(* Why it returns: a step that does not end the parse moves the index on,  *)
(* and never back; where it reads nothing (an absent element, the end of a *)
(* list, as at x509.c:388, :595 and :846) it goes to a later stage of the  *)
(* certificate.  The index is within the file (Nested), so no loop of the  *)
(* parser has more rounds than the file has bytes.                         *)
(***************************************************************************)
Stage(p) ==
    CASE p = "signature_value" -> 3
      [] p = "end_of_tbs" -> 2
      [] p \in {"validity", "public_key_info", "extensions", "extension"} -> 1
      [] OTHER -> 0

Advance ==
    \/ pc' = "returned"
    \/ idx' > idx
    \/ idx' = idx /\ Stage(pc') > Stage(pc)

Advances == [][Advance]_vars

(***************************************************************************)
(* parse_x509 returns for every file: each round of its loops takes some   *)
(* of the file.                                                            *)
(***************************************************************************)
Returns == <>(pc = "returned")

=============================================================================
