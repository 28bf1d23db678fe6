---------------------------- MODULE X509_proofs -----------------------------
(***************************************************************************)
(* parse_x509 for files of every size and content: no step leaves the      *)
(* element it is in, no assertion fails, and the regions that a            *)
(* certificate is judged by are in its signed data.                        *)
(***************************************************************************)
EXTENDS X509, TLAPS

Place == [code : ParseCodes, idx : Nat, end : Nat]

(***************************************************************************)
(* e is what a reader returns that was called at r within p.               *)
(***************************************************************************)
Reads(e, r, p) ==
    /\ e \in Place
    /\ Ok(e) => Ok(r) /\ r.idx < e.idx /\ e.idx <= e.end /\ e.end <= p

Skips(e, r, p) ==
    /\ e \in Place
    /\ Ok(e) => /\ Ok(r)
                /\ \/ e.end = IDX_NONE /\ e.idx = r.idx
                   \/ e.end # IDX_NONE /\ r.idx < e.idx /\ e.idx <= e.end /\ e.end <= p

-----------------------------------------------------------------------------
(* The readers of Asn1. *)

LEMMA AtPlace == \A i \in Nat : At(i) \in Place /\ Ok(At(i)) /\ At(i).idx = i
  BY DEF At, Place, ParseCodes, Ok, IDX_NONE

LEMMA ParseAny ==
    ASSUME NEW f, IsFile(f), NEW r \in Place, NEW p \in Nat, Ok(r) => p <= f.size
    PROVE  Reads(parse_any(f, r, p), r, p)
  <1> DEFINE e == parse_any(f, r, p)
  <1>1. CASE ~Ok(r)
    BY <1>1 DEF parse_any, Reads
  <1>2. CASE Ok(r) /\ ElementCode(f, r.idx, p) # "PARSE_OK"
    <2>1. e = [r EXCEPT !.code = ElementCode(f, r.idx, p)]
      BY <1>2 DEF parse_any
    <2>2. ElementCode(f, r.idx, p) \in {"UNEXPECTED_END_OF_DATA", "INVALID_LENGTH_FORM"}
      BY <1>2 DEF ElementCode
    <2> QED  BY <2>1, <2>2 DEF Reads, Place, ParseCodes, Ok
  <1>3. CASE Ok(r) /\ ElementCode(f, r.idx, p) = "PARSE_OK"
    <2> DEFINE len == f.length[r.idx + 1]
               start == r.idx + 1 + len.octets
    <2>1. e = [code |-> "PARSE_OK", idx |-> start, end |-> start + len.value]
      BY <1>3 DEF parse_any
    <2>2. r.idx + 1 < p
      BY <1>3 DEF ElementCode, Place
    <2>3. len \in LengthField
      BY <1>3, <2>2 DEF IsFile, Place
    <2>4. start <= p /\ len.value <= p - start
      BY <1>3, <2>2, <2>3 DEF ElementCode, Fits, Place, LengthField
    <2> QED  BY <1>3, <2>1, <2>2, <2>3, <2>4 DEF Reads, Place, ParseCodes, Ok, LengthField
  <1> QED  BY <1>1, <1>2, <1>3

LEMMA ParseElement ==
    ASSUME NEW f, IsFile(f), NEW r \in Place, NEW p \in Nat, Ok(r) => p <= f.size, NEW id
    PROVE  Reads(parse_data_element(f, id, r, p), r, p)
  <1> DEFINE a == parse_any(f, r, p)
  <1>1. Reads(a, r, p)
    BY ParseAny
  <1> HIDE DEF a
  <1> QED  BY <1>1 DEF a, Reads, parse_data_element, Require, Place, Ok, ParseCodes

LEMMA ParseOptional ==
    ASSUME NEW f, IsFile(f), NEW r \in Place, NEW p \in Nat, Ok(r) => p <= f.size, NEW id
    PROVE  Skips(parse_optional_data(f, id, r, p), r, p)
  <1> DEFINE e == parse_data_element(f, id, r, p)
  <1>1. Reads(e, r, p)
    BY ParseElement
  <1>2. CASE Absent(r, e)
    BY <1>1, <1>2 DEF parse_optional_data, Absent, Skips, Place, Ok, IDX_NONE
  <1>3. CASE ~Absent(r, e)
    BY <1>1, <1>3 DEF parse_optional_data, Reads, Skips, Place, IDX_NONE
  <1> QED  BY <1>2, <1>3

LEMMA PastKeeps ==
    ASSUME NEW r \in Place
    PROVE  /\ Past(r) \in Place /\ Past(r).code = r.code /\ Past(r).end = r.end
           /\ Past(r).idx = IF Ok(r) /\ r.end # IDX_NONE THEN r.end ELSE r.idx
  BY DEF Past, Present, Place, Ok, IDX_NONE

LEMMA LeaveKeeps ==
    ASSUME NEW r \in Place, NEW i \in Nat
    PROVE  /\ Leave(r, i) \in Place /\ Leave(r, i).code = r.code
           /\ Ok(r) => Leave(r, i).idx = i
  BY DEF Leave, Place, Ok

LEMMA ParseBool ==
    ASSUME NEW f, IsFile(f), NEW r \in Place, NEW p \in Nat, Ok(r) => p <= f.size
    PROVE  Skips(parse_default_bool(f, r, p), r, p)
  <1> DEFINE b == parse_optional_data(f, DER_BOOLEAN, r, p)
             c == Present(b) => b.end = b.idx + 1 /\ f.byte[b.idx] = 255
             t == Require(b, c, "INVALID_BOOLEAN")
  <1>1. Skips(b, r, p)
    BY ParseOptional
  <1>2. t \in Place /\ t.idx = b.idx /\ t.end = b.end /\ (Ok(t) => Ok(b))
    <2> HIDE DEF b
    <2> QED  BY <1>1 DEF Skips, Require, Place, Ok, ParseCodes
  <1>3. parse_default_bool(f, r, p) = Past(t)
    BY DEF parse_default_bool
  <1> HIDE DEF t, b
  <1> QED  BY <1>1, <1>2, <1>3, PastKeeps DEF Skips, Ok, IDX_NONE, Place

LEMMA ParseBits ==
    ASSUME NEW f, IsFile(f), NEW r \in Place, NEW p \in Nat, Ok(r) => p <= f.size
    PROVE  Reads(parse_bitstring_no_unused(f, r, p), r, p)
  <1> DEFINE b == parse_data_element(f, DER_BITSTRING, r, p)
             n == Require(b, b.idx < b.end, "UNEXPECTED_END_OF_DATA")
             z == Require(n, f.byte[n.idx] = 0, "INVALID_BITSTRING")
  <1>1. Reads(b, r, p)
    BY ParseElement
  <1> HIDE DEF b
  <1>3. /\ n \in Place /\ n.idx = b.idx /\ n.end = b.end
        /\ Ok(n) => Ok(b) /\ b.idx < b.end
    BY <1>1 DEF Reads, Require, Place, Ok, ParseCodes
  <1> HIDE DEF n
  <1>4. z \in Place /\ z.idx = n.idx /\ z.end = n.end /\ (Ok(z) => Ok(n))
    BY <1>3 DEF Require, Place, Ok, ParseCodes
  <1>5. parse_bitstring_no_unused(f, r, p) = IF Ok(z) THEN [z EXCEPT !.idx = @ + 1] ELSE z
    BY DEF parse_bitstring_no_unused, b, n, z
  <1> HIDE DEF z
  <1> QED  BY <1>1, <1>3, <1>4, <1>5 DEF Reads, Place, Ok

-----------------------------------------------------------------------------
(* The inductive invariant. *)

Ends == [cert : Nat, tbs : Nat, list : Nat, item : Nat]

Extent == [start : Nat, end : Nat]

Places == ItemPlaces \cup ListPlaces \cup TbsPlaces \cup CertPlaces \cup {"certificate", "returned"}

(***************************************************************************)
(* Where the extensions, the public key, its algorithm, the signature      *)
(* algorithm, the serial number and the signed data are known.             *)
(***************************************************************************)
DefaultsAt == (ItemPlaces \ {"attribute"}) \cup {"extension", "end_of_tbs", "signature_value"}
KeyAt      == DefaultsAt \cup {"unique_ids", "extensions"}
KeyIdAt    == KeyAt \cup {"public_key"}
SigIdAt    == KeyIdAt \cup {"issuer", "relative_name", "attribute", "validity", "not_before",
                            "not_after", "subject", "public_key_info", "algorithm"}
SerialAt   == SigIdAt \cup {"signature"}
SignedAt   == SerialAt \cup {"version", "serial_number"}

Since(S) == pc \in S \/ Parsed

(***************************************************************************)
(* All that is known of the signed data ends here.                         *)
(***************************************************************************)
Reached == IF pc \in {"signature_value", "returned"} THEN end.tbs ELSE idx

Placed(x, from) ==
    /\ fields[x] \in Extent
    /\ from <= fields[x].start /\ fields[x].start <= fields[x].end /\ fields[x].end <= Reached

SignedKnown == /\ fields.signed_data \in Extent /\ fields.signed_data.end = end.tbs
               /\ fields.signed_data.start <= Reached /\ end.tbs <= cert.size
               /\ Reached <= end.tbs
SerialKnown == Placed("cert_serial", fields.signed_data.start)
SigIdKnown  == /\ Placed("sig_id", fields.cert_serial.end) /\ Placed("sig_oid", fields.sig_id.start)
               /\ fields.sig_oid.end <= fields.sig_id.end
KeyIdKnown  == /\ Placed("pub_key_id", fields.sig_id.end)
               /\ Placed("pub_key_oid", fields.pub_key_id.start)
               /\ fields.pub_key_oid.end <= fields.pub_key_id.end
KeyKnown    == Placed("pub_key", fields.pub_key_id.end)
ExtnsKnown  == \A x \in {"skid", "akid"} :
                  fields[x] = Region(IDX_NONE, IDX_NONE) \/ Placed(x, fields.pub_key.end)
SigKnown    == /\ fields.sig \in Extent /\ end.tbs <= fields.sig.start
               /\ fields.sig.start <= fields.sig.end /\ fields.sig.end = cert.size

Known ==
    /\ Since(SignedAt)   => SignedKnown
    /\ Since(SerialAt)   => SerialKnown
    /\ Since(SigIdAt)    => SigIdKnown
    /\ Since(KeyIdAt)    => KeyIdKnown
    /\ Since(KeyAt)      => KeyKnown
    /\ Since(DefaultsAt) => ExtnsKnown
    /\ pc = "signature_value" => end.tbs <= idx
    /\ Parsed => SigKnown

ExtnPlaces == {"basic_constraint", "akid", "skid", "key_usage", "ext_key_usage", "key_purpose"}

AKID_OID == <<85, 29, 35>>

(***************************************************************************)
(* Without a key identifier, parse_akid changes only akid_end.  That is    *)
(* sound because no extension occurs twice: akid is as it was set by       *)
(* default.                                                                *)
(***************************************************************************)
Fresh ==
    /\ pc \in {"extension"} \cup ExtnPlaces /\ (pc = "akid" \/ ~Seen(AKID_OID)) =>
           fields.akid = Region(IDX_NONE, IDX_NONE)
    /\ pc = "akid" => Seen(AKID_OID)

Inv == cert \in Certs /\ TypeOK /\ Nested /\ ParserAssertionsHold /\ Known /\ Fresh

LEMMA InvImpliesSigned == Inv => FieldsAreSigned
  <1> SUFFICES ASSUME Inv, Parsed PROVE FieldsAreSigned
    BY DEF FieldsAreSigned
  <1>1. /\ SignedKnown /\ SerialKnown /\ SigIdKnown /\ KeyIdKnown /\ KeyKnown
        /\ ExtnsKnown /\ SigKnown /\ Reached = end.tbs
    BY DEF Inv, Known, Since, Parsed, Reached
  <1>2. cert.size \in Nat
    BY X509Assumption DEF Inv, IsFile
  <1>3. end.tbs \in Nat
    BY DEF Inv, TypeOK
  <1>4. /\ Within(fields.signed_data, Region(0, cert.size))
        /\ Within(fields.sig, Region(fields.signed_data.end, cert.size))
        /\ fields.sig.end = cert.size
    BY <1>1, <1>2, <1>3 DEF SignedKnown, SigKnown, Within, Region, Extent
  <1>5. /\ Within(fields.cert_serial, fields.signed_data)
        /\ Within(fields.sig_id, fields.signed_data)
        /\ Within(fields.pub_key_id, fields.signed_data)
        /\ Within(fields.pub_key, fields.signed_data)
        /\ Before(fields.cert_serial, fields.sig_id) /\ Before(fields.sig_id, fields.pub_key_id)
        /\ Before(fields.pub_key_id, fields.pub_key)
    BY <1>1, <1>2, <1>3 DEF SignedKnown, SerialKnown, SigIdKnown, KeyIdKnown, KeyKnown, Placed,
         Within, Before, Extent
  <1>6. Within(fields.sig_oid, fields.sig_id) /\ Within(fields.pub_key_oid, fields.pub_key_id)
    BY <1>1, <1>3 DEF SigIdKnown, KeyIdKnown, Placed, Within, Extent
  <1>7. \A x \in {"skid", "akid"} :
            \/ fields[x] = Region(IDX_NONE, IDX_NONE)
            \/ Within(fields[x], Region(fields.pub_key.end, fields.signed_data.end))
    BY <1>1 DEF ExtnsKnown, SignedKnown, Placed, Within, Region
  <1> QED  BY <1>4, <1>5, <1>6, <1>7 DEF FieldsAreSigned

LEMMA InitInv == Init => Inv
  <1> SUFFICES ASSUME Init PROVE Inv
    OBVIOUS
  <1>1. extn_oids \in Seq(Seq(Byte)) /\ Len(extn_oids) <= MaxExtn
    BY X509Assumption DEF Init
  <1>2. DOMAIN fields = Regions \cup Values /\ \A x \in Regions : fields[x] = Garbage
    BY DEF Init
  <1>3. TypeOK
    BY <1>1, <1>2 DEF Init, TypeOK, ParseCodes
  <1>4. Nested /\ ParserAssertionsHold
    BY DEF Init, Nested, ParserAssertionsHold, ItemPlaces, ListPlaces, TbsPlaces
  <1>5. Known
    BY DEF Init, Known, Since, Parsed, SignedAt, SerialAt, SigIdAt, KeyIdAt, KeyAt, DefaultsAt,
           ItemPlaces
  <1>6. Fresh
    BY DEF Init, Fresh, ExtnPlaces
  <1> QED  BY <1>3, <1>4, <1>5, <1>6 DEF Init, Inv

-----------------------------------------------------------------------------
(* A step that fails, and a step that goes on without writing a region. *)

InTbs == ItemPlaces \cup ListPlaces \cup TbsPlaces

SameRegions ==
    /\ DOMAIN fields' = DOMAIN fields
    /\ \A x \in Regions : fields'[x] = fields[x]

TypedRest ==
    /\ end' \in Ends
    /\ after' \in {"validity", "public_key_info"}
    /\ extn_oids' \in Seq(Seq(Byte)) /\ Len(extn_oids') <= MaxExtn

LEMMA FailTyped ==
    ASSUME Inv, NEW r \in Place, NEW next, ~Ok(r), Proceed(r, next), TypedRest,
           DOMAIN fields' = DOMAIN fields,
           \A x \in Regions : fields'[x] = fields[x] \/ fields'[x] \in Extent
    PROVE  Inv'
  <1>1. pc' = "returned" /\ code' \in ParseCodes \ {"PARSE_OK"} /\ idx' \in Nat /\ cert' = cert
    BY DEF Proceed, Place, Ok
  <1>2. TypeOK'
    BY <1>1 DEF Inv, TypeOK, TypedRest, Ends, Extent
  <1>3. Nested' /\ ParserAssertionsHold' /\ Fresh'
    BY <1>1 DEF Nested, ParserAssertionsHold, Fresh, ItemPlaces, ListPlaces, TbsPlaces,
                ExtnPlaces, ParseCodes
  <1>4. Known'
    BY <1>1 DEF Known, Since, Parsed, SignedAt, SerialAt, SigIdAt, KeyIdAt, KeyAt, DefaultsAt,
                ItemPlaces
  <1> QED  BY <1>1, <1>2, <1>3, <1>4 DEF Inv

LEMMA FailKeeps ==
    ASSUME Inv, NEW r \in Place, NEW next, ~Ok(r), Proceed(r, next), TypedRest, SameRegions
    PROVE  Inv'
  BY FailTyped DEF SameRegions

(***************************************************************************)
(* What was known stays known as long as the parser moves on in the signed *)
(* data.                                                                   *)
(***************************************************************************)
NoLater(next) ==
    /\ pc \in InTbs /\ next \in InTbs
    /\ next \in SerialAt   => pc \in SerialAt
    /\ next \in SigIdAt    => pc \in SigIdAt
    /\ next \in KeyIdAt    => pc \in KeyIdAt
    /\ next \in KeyAt      => pc \in KeyAt
    /\ next \notin DefaultsAt

LEMMA Moves ==
    /\ pc = "version" => NoLater("serial_number")
    /\ pc \in {"issuer", "subject"} => NoLater("relative_name")
    /\ pc = "relative_name" => \A p \in {"attribute", "validity", "public_key_info"} : NoLater(p)
    /\ pc = "attribute" => NoLater("attribute") /\ NoLater("relative_name")
    /\ pc = "validity" => NoLater("not_before")
    /\ pc = "not_before" => NoLater("not_after")
    /\ pc = "not_after" => NoLater("subject")
    /\ pc = "public_key_info" => NoLater("algorithm")
    /\ pc = "unique_ids" => NoLater("extensions")
  BY DEF NoLater, InTbs, SerialAt, SigIdAt, KeyIdAt, KeyAt, DefaultsAt,
         ItemPlaces, ListPlaces, TbsPlaces

(***************************************************************************)
(* The step to next writes the regions W, and what next needs known is     *)
(* known already and not written, or known now.                            *)
(***************************************************************************)
LEMMA WriteKeeps ==
    ASSUME Inv, NEW r \in Place, NEW next, Ok(r), Proceed(r, next), TypedRest,
           NEW W \in SUBSET (Regions \ {"signed_data"}), DOMAIN fields' = DOMAIN fields,
           \A x \in Regions \ W : fields'[x] = fields[x], \A x \in W : fields'[x] \in Extent,
           pc \in InTbs, next \in InTbs, Nested', Fresh', end'.tbs = end.tbs, idx <= idx',
           next \in SerialAt => \/ SerialKnown'
                                \/ pc \in SerialAt /\ "cert_serial" \notin W,
           next \in SigIdAt => \/ SigIdKnown'
                               \/ pc \in SigIdAt /\ W \cap {"cert_serial", "sig_id", "sig_oid"} = {},
           next \in KeyIdAt => \/ KeyIdKnown'
                               \/ /\ pc \in KeyIdAt
                                  /\ W \cap {"sig_id", "pub_key_id", "pub_key_oid"} = {},
           next \in KeyAt => \/ KeyKnown'
                             \/ pc \in KeyAt /\ W \cap {"pub_key_id", "pub_key"} = {},
           next \in DefaultsAt => \/ ExtnsKnown'
                                  \/ pc \in DefaultsAt /\ W \cap {"pub_key", "skid", "akid"} = {}
    PROVE  Inv'
  <1>1. pc' = next /\ code' = "PARSE_OK" /\ idx' \in Nat /\ cert' = cert /\ ~Parsed' /\ ~Parsed
    BY DEF Proceed, Place, Ok, InTbs, ItemPlaces, ListPlaces, TbsPlaces, Parsed
  <1>2. TypeOK'
    BY <1>1 DEF Inv, TypeOK, TypedRest, Ends, ParseCodes, InTbs, Extent
  <1>3. Reached = idx /\ Reached' = idx' /\ idx \in Nat /\ idx' \in Nat /\ idx' <= end.tbs
    BY <1>1 DEF Reached, InTbs, ItemPlaces, ListPlaces, TbsPlaces, Nested, Inv, TypeOK
  <1>4. \A x \in Regions \ W : \A from : Placed(x, from) =>
            /\ fields'[x] = fields[x] /\ fields'[x] \in Extent
            /\ from <= fields'[x].start /\ fields'[x].start <= fields'[x].end
            /\ fields'[x].end <= Reached'
    BY <1>3 DEF Placed, Extent
  <1>5. {"signed_data", "cert_serial", "sig_id", "sig_oid", "pub_key_id", "pub_key_oid",
         "pub_key", "skid", "akid"} \subseteq Regions
    BY DEF Regions
  <1>6. Since(SignedAt)' => SignedKnown'
    <2>1. pc \in SignedAt
      BY DEF InTbs, SignedAt, SerialAt, SigIdAt, KeyIdAt, KeyAt, DefaultsAt,
             ItemPlaces, ListPlaces, TbsPlaces
    <2>2. SignedKnown
      BY <2>1 DEF Inv, Known, Since
    <2> QED  BY <1>1, <1>3, <1>5, <2>2 DEF SignedKnown, Inv, TypeOK, Extent
  <1>7. Since(SerialAt)' => SerialKnown'
    <2> SUFFICES ASSUME pc \in SerialAt, "cert_serial" \notin W PROVE SerialKnown'
      BY <1>1 DEF Since
    <2>1. SerialKnown
      BY DEF Inv, Known, Since
    <2> QED  BY <1>4, <1>5, <2>1 DEF SerialKnown, Placed
  <1>8. Since(SigIdAt)' => SigIdKnown'
    <2> SUFFICES ASSUME pc \in SigIdAt, W \cap {"cert_serial", "sig_id", "sig_oid"} = {}
                 PROVE  SigIdKnown'
      BY <1>1 DEF Since
    <2>1. SigIdKnown
      BY DEF Inv, Known, Since
    <2> QED  BY <1>4, <1>5, <2>1 DEF SigIdKnown, Placed
  <1>9. Since(KeyIdAt)' => KeyIdKnown'
    <2> SUFFICES ASSUME pc \in KeyIdAt, W \cap {"sig_id", "pub_key_id", "pub_key_oid"} = {}
                 PROVE  KeyIdKnown'
      BY <1>1 DEF Since
    <2>1. KeyIdKnown
      BY DEF Inv, Known, Since
    <2> QED  BY <1>4, <1>5, <2>1 DEF KeyIdKnown, Placed
  <1>10. Since(KeyAt)' => KeyKnown'
    <2> SUFFICES ASSUME pc \in KeyAt, W \cap {"pub_key_id", "pub_key"} = {} PROVE KeyKnown'
      BY <1>1 DEF Since
    <2>1. KeyKnown
      BY DEF Inv, Known, Since
    <2> QED  BY <1>4, <1>5, <2>1 DEF KeyKnown, Placed
  <1>11. Since(DefaultsAt)' => ExtnsKnown'
    <2> SUFFICES ASSUME pc \in DefaultsAt, W \cap {"pub_key", "skid", "akid"} = {}
                 PROVE  ExtnsKnown'
      BY <1>1 DEF Since
    <2>1. ExtnsKnown
      BY DEF Inv, Known, Since
    <2> QED  BY <1>4, <1>5, <2>1 DEF ExtnsKnown, Placed, Region
  <1>12. pc' # "signature_value"
    BY <1>1 DEF InTbs, ItemPlaces, ListPlaces, TbsPlaces
  <1> QED  BY <1>1, <1>2, <1>6, <1>7, <1>8, <1>9, <1>10, <1>11, <1>12
              DEF Inv, Known, ParserAssertionsHold

LEMMA GoKeeps ==
    ASSUME Inv, NEW r \in Place, NEW next, Ok(r), Proceed(r, next), TypedRest, SameRegions,
           NoLater(next), Nested', end'.tbs = end.tbs, idx <= idx'
    PROVE  Inv'
  <1>1. Fresh'
    BY DEF NoLater, Fresh, DefaultsAt, ExtnPlaces, ItemPlaces, Proceed, Ok
  <1> QED  BY <1>1, WriteKeeps, {} \in SUBSET (Regions \ {"signed_data"}) DEF SameRegions, NoLater

-----------------------------------------------------------------------------
(* One lemma per action. *)

LEMMA Basics ==
    ASSUME Inv
    PROVE  /\ IsFile(cert) /\ cert.size \in Nat /\ cert.size <= cert.size /\ idx \in Nat /\ end \in Ends
           /\ end.cert \in Nat /\ end.tbs \in Nat /\ end.list \in Nat /\ end.item \in Nat
           /\ At(idx) \in Place /\ Ok(At(idx)) /\ At(idx).idx = idx
           /\ after \in {"validity", "public_key_info"}
           /\ extn_oids \in Seq(Seq(Byte)) /\ Len(extn_oids) <= MaxExtn
  BY X509Assumption, AtPlace DEF Inv, TypeOK, IsFile, Ends

(***************************************************************************)
(* The ends are those of the file, in the file's order, wherever the       *)
(* parser is.                                                              *)
(***************************************************************************)
LEMMA Bounds ==
    ASSUME Inv
    PROVE  /\ pc \in InTbs => idx <= end.tbs /\ end.tbs <= cert.size
           /\ pc \in ItemPlaces \cup ListPlaces => idx <= end.list /\ end.list <= end.tbs
           /\ pc \in ItemPlaces => idx <= end.item /\ end.item <= end.list
           /\ pc \in InTbs \cup CertPlaces => end.cert = cert.size
  BY DEF Inv, Nested, InTbs, ItemPlaces, ListPlaces, TbsPlaces, CertPlaces

LEMMA MoveKeeps ==
    ASSUME Inv, NEW r \in Place, NEW next, Proceed(r, next), TypedRest, SameRegions,
           NoLater(next), end'.tbs = end.tbs, end'.cert = end.cert,
           Ok(r) => idx <= r.idx /\ r.idx <= end.tbs,
           Ok(r) /\ next \in ItemPlaces \cup ListPlaces =>
               r.idx <= end'.list /\ end'.list <= end.tbs,
           Ok(r) /\ next \in ItemPlaces => r.idx <= end'.item /\ end'.item <= end'.list
    PROVE  Inv'
  <1>1. CASE ~Ok(r)
    BY <1>1, FailKeeps
  <1>2. CASE Ok(r)
    <2>1. pc' = next /\ idx' = r.idx /\ cert' = cert
      BY <1>2 DEF Proceed
    <2>2. end.cert = cert.size /\ end.tbs <= cert.size /\ r.idx <= cert.size
      BY <1>2, Bounds, Basics DEF NoLater, Place
    <2>3. Nested'
      BY <1>2, <2>1, <2>2 DEF Nested
    <2> QED  BY <1>2, <2>1, <2>3, GoKeeps
  <1> QED  BY <1>1, <1>2

LEMMA CertificateKeeps == Inv /\ Certificate => Inv'
  <1> SUFFICES ASSUME Inv, Certificate PROVE Inv'
    OBVIOUS
  <1> DEFINE seq == parse_data_element(cert, DER_SEQUENCE, At(idx), cert.size)
             whole == Require(seq, seq.end = cert.size, "TRAILING_DATA")
  <1>1. Reads(seq, At(idx), cert.size)
    BY Basics, ParseElement
  <1>2. /\ pc = "certificate" /\ Proceed(whole, "tbs_certificate")
        /\ end' = [end EXCEPT !.cert = seq.end] /\ UNCHANGED <<after, extn_oids, fields>>
    BY DEF Certificate
  <1> HIDE DEF seq
  <1>3. /\ whole \in Place /\ whole.idx = seq.idx
        /\ Ok(whole) => Ok(seq) /\ seq.end = cert.size
    BY <1>1 DEF Reads, Require, Place, Ok, ParseCodes
  <1> HIDE DEF whole
  <1>4. TypedRest /\ SameRegions
    BY <1>1, <1>2, Basics DEF TypedRest, SameRegions, Ends, Reads, Place
  <1>5. CASE ~Ok(whole)
    BY <1>2, <1>3, <1>4, <1>5, FailKeeps
  <1>6. CASE Ok(whole)
    <2>1. /\ pc' = "tbs_certificate" /\ code' = "PARSE_OK" /\ cert' = cert /\ idx' \in Nat
          /\ idx' <= cert.size /\ end'.cert = cert.size
      BY <1>1, <1>2, <1>3, <1>6, Basics DEF Proceed, Ok, Reads, Place, Ends
    <2>2. TypeOK'
      BY <1>4, <2>1 DEF Inv, TypeOK, SameRegions, TypedRest, Ends, CertPlaces, ParseCodes
    <2>3. Nested' /\ ParserAssertionsHold' /\ Fresh'
      BY <2>1 DEF Nested, ParserAssertionsHold, Fresh, ExtnPlaces, ItemPlaces, ListPlaces, TbsPlaces
    <2>4. Known'
      BY <2>1 DEF Known, Since, Parsed, SignedAt, SerialAt, SigIdAt, KeyIdAt, KeyAt, DefaultsAt,
                  ItemPlaces
    <2> QED  BY <2>1, <2>2, <2>3, <2>4 DEF Inv
  <1> QED  BY <1>5, <1>6

LEMMA TBSCertificateKeeps == Inv /\ TBSCertificate => Inv'
  <1> SUFFICES ASSUME Inv, TBSCertificate PROVE Inv'
    OBVIOUS
  <1> DEFINE seq == parse_data_element(cert, DER_SEQUENCE, At(idx), end.cert)
  <1>1. /\ pc = "tbs_certificate" /\ Proceed(seq, "version")
        /\ end' = [end EXCEPT !.tbs = seq.end] /\ UNCHANGED <<after, extn_oids>>
        /\ Store(seq, [fields EXCEPT !.signed_data = Region(idx, seq.end)])
    BY DEF TBSCertificate
  <1>2. end.cert = cert.size
    BY <1>1, Bounds DEF CertPlaces
  <1>3. Reads(seq, At(idx), cert.size)
    BY <1>2, Basics, ParseElement
  <1> HIDE DEF seq
  <1>4. TypedRest
    BY <1>1, <1>3, Basics DEF TypedRest, Ends, Reads, Place
  <1>5. CASE ~Ok(seq)
    <2>1. SameRegions
      BY <1>1, <1>5 DEF Store, SameRegions
    <2> QED  BY <1>1, <1>3, <1>4, <1>5, <2>1, FailKeeps DEF Reads
  <1>6. CASE Ok(seq)
    <2>1. /\ pc' = "version" /\ code' = "PARSE_OK" /\ cert' = cert /\ idx' = seq.idx
          /\ idx' \in Nat /\ idx < idx' /\ end'.tbs = seq.end /\ idx' <= end'.tbs
          /\ end'.tbs <= cert.size /\ end'.cert = cert.size /\ Reached' = idx'
          /\ idx' <= cert.size
      BY <1>1, <1>2, <1>3, <1>6, Basics DEF Proceed, Ok, Reads, Place, Ends, Reached
    <2>2. /\ DOMAIN fields' = DOMAIN fields
          /\ fields'.signed_data = Region(idx, seq.end)
          /\ \A x \in Regions \ {"signed_data"} : fields'[x] = fields[x]
      BY <1>1, <1>6 DEF Store, Inv, TypeOK, Regions, Values
    <2>3. Region(idx, seq.end) \in Extent
      BY <1>3, Basics DEF Region, Extent, Reads, Place
    <2>4. TypeOK'
      BY <1>4, <2>1, <2>2, <2>3 DEF Inv, TypeOK, TypedRest, Ends, Extent, TbsPlaces, ParseCodes
    <2>5. Nested' /\ ParserAssertionsHold' /\ Fresh'
      BY <2>1, Basics DEF Nested, ParserAssertionsHold, Fresh, ExtnPlaces, ItemPlaces, ListPlaces, TbsPlaces
    <2>6. SignedKnown'
      BY <2>1, <2>2, <2>3, Basics DEF SignedKnown, Region
    <2>7. Known'
      BY <2>1, <2>6 DEF Known, Since, Parsed, SerialAt, SigIdAt, KeyIdAt, KeyAt, DefaultsAt,
                        ItemPlaces
    <2> QED  BY <2>1, <2>4, <2>5, <2>7 DEF Inv
  <1> QED  BY <1>5, <1>6

LEMMA VersionKeeps == Inv /\ Version => Inv'
  <1> SUFFICES ASSUME Inv, Version PROVE Inv'
    OBVIOUS
  <1> DEFINE explicit == parse_data_element(cert, DER_EXPLICIT_0, At(idx), end.tbs)
             version == parse_data_element(cert, DER_INTEGER, explicit, explicit.end)
             accepted == Require(version, version.end - version.idx = 1 /\ cert.byte[version.idx] = 2,
                                 "INVALID_VERSION")
             whole == Require(accepted, version.end = explicit.end, "TRAILING_DATA")
             r == Past(whole)
  <1>1. /\ pc = "version" /\ Proceed(r, "serial_number")
        /\ UNCHANGED <<end, after, extn_oids, fields>>
    BY DEF Version
  <1>2. idx <= end.tbs /\ end.tbs <= cert.size
    BY <1>1, Bounds DEF InTbs, TbsPlaces
  <1>3. Reads(explicit, At(idx), end.tbs)
    BY <1>2, Basics, ParseElement
  <1> HIDE DEF explicit
  <1>4. Reads(version, explicit, explicit.end)
    BY <1>2, <1>3, Basics, ParseElement DEF Reads, Place
  <1> HIDE DEF version
  <1>5. whole \in Place /\ whole.idx = version.idx /\ whole.end = version.end
        /\ (Ok(whole) => Ok(version))
    BY <1>4 DEF Reads, Require, Place, Ok, ParseCodes
  <1> HIDE DEF whole
  <1>6. r \in Place /\ (Ok(r) => idx <= r.idx /\ r.idx <= end.tbs)
    BY <1>2, <1>3, <1>4, <1>5, PastKeeps, Basics DEF Reads, Place, Ok, IDX_NONE
  <1> HIDE DEF r
  <1>7. TypedRest /\ SameRegions
    BY <1>1, Basics DEF TypedRest, SameRegions
  <1>8. NoLater("serial_number") /\ "serial_number" \notin ItemPlaces \cup ListPlaces
    BY <1>1, Moves DEF ItemPlaces, ListPlaces
  <1> QED  BY <1>1, <1>6, <1>7, <1>8, MoveKeeps

(***************************************************************************)
(* The sequence at idx becomes the list.                                   *)
(***************************************************************************)
LEMMA OpenList ==
    ASSUME Inv, NEW next \in ListPlaces, NoLater(next), pc \in TbsPlaces,
           \E seq \in {parse_data_element(cert, DER_SEQUENCE, At(idx), end.tbs)} :
              Proceed(seq, next) /\ end' = [end EXCEPT !.list = seq.end],
           after' \in {"validity", "public_key_info"}, UNCHANGED <<extn_oids, fields>>
    PROVE  Inv'
  <1> DEFINE seq == parse_data_element(cert, DER_SEQUENCE, At(idx), end.tbs)
  <1>1. Proceed(seq, next) /\ end' = [end EXCEPT !.list = seq.end]
    OBVIOUS
  <1>2. idx <= end.tbs /\ end.tbs <= cert.size
    BY Bounds DEF InTbs
  <1>3. Reads(seq, At(idx), end.tbs)
    BY <1>2, Basics, ParseElement
  <1> HIDE DEF seq
  <1>4. /\ seq \in Place /\ end'.list = seq.end /\ end'.tbs = end.tbs /\ end'.cert = end.cert
        /\ Ok(seq) => idx <= seq.idx /\ seq.idx <= end.tbs
                       /\ seq.idx <= end'.list /\ end'.list <= end.tbs
    BY <1>1, <1>3, Basics DEF Reads, Place, Ends
  <1>5. TypedRest /\ SameRegions
    BY <1>1, <1>4, Basics DEF TypedRest, SameRegions, Ends, Place
  <1>6. next \notin ItemPlaces
    BY DEF ListPlaces, ItemPlaces
  <1> QED  BY <1>1, <1>4, <1>5, <1>6, MoveKeeps

LEMMA ListsKeep ==
    Inv /\ (Issuer \/ Subject \/ Validity \/ SubjectPublicKeyInfo) => Inv'
  <1> SUFFICES ASSUME Inv, Issuer \/ Subject \/ Validity \/ SubjectPublicKeyInfo PROVE Inv'
    OBVIOUS
  <1>1. {"issuer", "subject", "validity", "public_key_info"} \subseteq TbsPlaces
        /\ {"relative_name", "not_before", "algorithm"} \subseteq ListPlaces
    BY DEF TbsPlaces, ListPlaces
  <1>2. CASE Issuer
    BY <1>1, <1>2, Moves, OpenList DEF Issuer, parse_name
  <1>3. CASE Subject
    BY <1>1, <1>3, Moves, OpenList DEF Subject, parse_name
  <1>4. CASE Validity
    BY <1>1, <1>4, Moves, Basics, OpenList DEF Validity
  <1>5. CASE SubjectPublicKeyInfo
    BY <1>1, <1>5, Moves, Basics, OpenList DEF SubjectPublicKeyInfo
  <1> QED  BY <1>2, <1>3, <1>4, <1>5

LEMMA RelativeNameKeeps == Inv /\ RelativeName => Inv'
  <1> SUFFICES ASSUME Inv, RelativeName PROVE Inv'
    OBVIOUS
  <1> DEFINE set == parse_data_element(cert, DER_SET, At(idx), end.list)
  <1>1. /\ pc = "relative_name" /\ Proceed(set, "attribute")
        /\ end' = [end EXCEPT !.item = set.end] /\ UNCHANGED <<after, extn_oids, fields>>
    BY DEF RelativeName
  <1>2. idx <= end.list /\ end.list <= end.tbs /\ end.tbs <= cert.size /\ end.list <= cert.size
    BY <1>1, Bounds, Basics DEF InTbs, ListPlaces
  <1>3. Reads(set, At(idx), end.list)
    BY <1>2, Basics, ParseElement
  <1> HIDE DEF set
  <1>4. /\ set \in Place /\ end'.item = set.end
        /\ end'.list = end.list /\ end'.tbs = end.tbs /\ end'.cert = end.cert
        /\ Ok(set) => /\ idx <= set.idx /\ set.idx <= end.tbs /\ set.idx <= end.list
                      /\ set.idx <= end'.item /\ end'.item <= end.list
    BY <1>1, <1>2, <1>3, Basics DEF Reads, Place, Ends
  <1>5. TypedRest /\ SameRegions /\ NoLater("attribute")
    BY <1>1, <1>4, Basics, Moves DEF TypedRest, SameRegions, Ends, Place
  <1> QED  BY <1>1, <1>2, <1>4, <1>5, MoveKeeps

LEMMA AttributeKeeps == Inv /\ Attribute => Inv'
  <1> SUFFICES ASSUME Inv, Attribute PROVE Inv'
    OBVIOUS
  <1> DEFINE seq == parse_data_element(cert, DER_SEQUENCE, At(idx), end.item)
             type == parse_data_element(cert, DER_OID, seq, seq.end)
             value == parse_any(cert, Past(type), seq.end)
             full == Require(value, value.end = seq.end, "TRAILING_DATA")
             whole == Past(full)
             again == seq.end < end.item
             r == Require(whole, again \/ whole.idx = end.item, "ASSERTION_FAILED")
  <1>1. /\ pc = "attribute" /\ Proceed(r, IF again THEN "attribute" ELSE "relative_name")
        /\ UNCHANGED <<end, after, extn_oids, fields>>
    BY DEF Attribute
  <1>2. /\ idx <= end.item /\ end.item <= end.list /\ end.list <= end.tbs
        /\ end.tbs <= cert.size /\ end.item <= cert.size /\ end.item <= end.tbs
    BY <1>1, Bounds, Basics DEF InTbs, ItemPlaces
  <1>3. Reads(seq, At(idx), end.item)
    BY <1>2, Basics, ParseElement
  <1> HIDE DEF seq
  <1>4. Reads(type, seq, seq.end)
    BY <1>2, <1>3, Basics, ParseElement DEF Reads, Place
  <1> HIDE DEF type
  <1>5. Past(type) \in Place /\ (Ok(Past(type)) => Ok(type) /\ Past(type).idx = type.end)
    BY <1>4, PastKeeps DEF Reads, Place, Ok, IDX_NONE
  <1>6. Reads(value, Past(type), seq.end)
    <2>1. seq.end \in Nat /\ (Ok(Past(type)) => seq.end <= cert.size)
      BY <1>2, <1>3, <1>4, <1>5, Basics DEF Reads, Place
    <2> QED  BY <1>5, <2>1, Basics, ParseAny
  <1> HIDE DEF value
  <1>7. /\ full \in Place /\ full.end = value.end
        /\ Ok(full) => Ok(value) /\ value.end = seq.end
    BY <1>6 DEF Reads, Require, Place, Ok, ParseCodes
  <1> HIDE DEF full
  <1>8. /\ whole \in Place
        /\ Ok(whole) => /\ whole.idx = seq.end /\ Ok(seq) /\ idx <= whole.idx
                        /\ seq.end <= end.item
    BY <1>3, <1>4, <1>5, <1>6, <1>7, PastKeeps, Basics DEF Reads, Place, Ok, IDX_NONE
  <1> HIDE DEF whole
  <1>9. r = whole
    BY <1>3, <1>8, Basics DEF Require, Place, Ok, Reads
  <1>10. TypedRest /\ SameRegions /\ NoLater("attribute") /\ NoLater("relative_name")
    BY <1>1, Basics, Moves DEF TypedRest, SameRegions
  <1>11. Ok(whole) => whole.idx <= end.item /\ whole.idx <= end.list /\ whole.idx <= end.tbs
    BY <1>2, <1>8, Basics DEF Place
  <1>12. Proceed(whole, "attribute") \/ Proceed(whole, "relative_name")
    BY <1>1, <1>9
  <1> HIDE DEF r
  <1> QED  BY <1>1, <1>2, <1>8, <1>10, <1>11, <1>12, MoveKeeps

LEMMA NameEndsKeeps == Inv /\ NameEnds => Inv'
  <1> SUFFICES ASSUME Inv, NameEnds PROVE Inv'
    OBVIOUS
  <1>1. /\ pc = "relative_name" /\ idx >= end.list
        /\ Proceed(Require(At(idx), idx = end.list, "ASSERTION_FAILED"), after)
        /\ UNCHANGED <<end, after, extn_oids, fields>>
    BY DEF NameEnds
  <1>2. idx <= end.list /\ end.list <= end.tbs
    BY <1>1, Bounds DEF ListPlaces
  <1>3. Require(At(idx), idx = end.list, "ASSERTION_FAILED") = At(idx)
    BY <1>1, <1>2, Basics DEF Require, At
  <1>4. TypedRest /\ SameRegions /\ NoLater(after) /\ after \notin ItemPlaces \cup ListPlaces
    BY <1>1, Basics, Moves DEF TypedRest, SameRegions, ItemPlaces, ListPlaces
  <1>5. idx <= idx /\ idx <= end.tbs
    BY <1>2, Basics
  <1> QED  BY <1>1, <1>2, <1>3, <1>4, <1>5, Basics, MoveKeeps

LEMMA CheckTimeKeeps ==
    ASSUME NEW time \in Place, NEW general, NEW member
    PROVE  LET whole == CheckTime(time, general, member)
           IN  whole \in Place /\ whole.end = time.end /\ (Ok(whole) => Ok(time))
  <1> DEFINE size  == IF general THEN 15 ELSE 13
             sized == Require(time, time.end = time.idx + size, "INVALID_VALIDITY_TIME")
             read  == Require(sized, AreDigits(time.idx, size - 1) /\ cert.byte[time.end - 1] = 90,
                              "INVALID_VALIDITY_TIME")
             date  == Require(read, IsDate(time.idx, general), "INVALID_VALIDITY_TIME")
             whole == Require(date, member = "not_after" => time.end = end.list, "TRAILING_DATA")
  <1> HIDE DEF size
  <1>1. sized \in Place /\ sized.end = time.end /\ (Ok(sized) => Ok(time))
    BY DEF Require, Place, Ok, ParseCodes
  <1> HIDE DEF sized
  <1>2. read \in Place /\ read.end = time.end /\ (Ok(read) => Ok(time))
    BY <1>1 DEF Require, Place, Ok, ParseCodes
  <1> HIDE DEF read
  <1>3. date \in Place /\ date.end = time.end /\ (Ok(date) => Ok(time))
    BY <1>2 DEF Require, Place, Ok, ParseCodes
  <1> HIDE DEF date
  <1>4. whole \in Place /\ whole.end = time.end /\ (Ok(whole) => Ok(time))
    BY <1>3 DEF Require, Place, Ok, ParseCodes
  <1>5. CheckTime(time, general, member) = whole
    BY DEF CheckTime, size, sized, read, date
  <1> QED  BY <1>4, <1>5

LEMMA TimeKeeps ==
    ASSUME Inv, NEW member \in Values, NEW next, NoLater(next), pc \in ListPlaces,
           next \notin ItemPlaces, parse_time(member, next)
    PROVE  Inv'
  <1> DEFINE utc == parse_optional_data(cert, DER_UTCTIME, At(idx), end.list)
             gen == parse_data_element(cert, DER_GENERALIZEDTIME, utc, end.list)
             time == IF Present(utc) THEN utc ELSE gen
             whole == CheckTime(time, ~Present(utc), member)
             r == Past(whole)
             new == [fields EXCEPT ![member] = timegm(BrokenDown(time.idx, ~Present(utc)))]
  <1>1. Proceed(r, next) /\ Store(whole, new) /\ UNCHANGED <<end, after, extn_oids>>
    BY DEF parse_time
  <1>2. idx <= end.list /\ end.list <= end.tbs /\ end.list <= cert.size
    BY Bounds, Basics DEF InTbs
  <1>3. Skips(utc, At(idx), end.list)
    BY <1>2, Basics, ParseOptional
  <1>4. SameRegions
    <2>1. fields' = fields \/ fields' = new
      BY <1>1 DEF Store
    <2>2. member \notin Regions
      BY DEF Regions, Values
    <2> HIDE DEF whole, time
    <2> QED  BY <2>1, <2>2 DEF SameRegions, Inv, TypeOK
  <1> HIDE DEF utc, new
  <1>5. Reads(gen, utc, end.list)
    BY <1>2, <1>3, Basics, ParseElement DEF Skips
  <1> HIDE DEF gen
  <1>6. time \in Place /\ (Ok(time) => idx < time.idx /\ time.idx <= time.end /\ time.end <= end.list)
    BY <1>3, <1>5, Basics DEF Skips, Reads, Place, Present, IDX_NONE
  <1> HIDE DEF time
  <1>7. whole \in Place /\ whole.end = time.end /\ (Ok(whole) => Ok(time))
    BY <1>6, CheckTimeKeeps
  <1> HIDE DEF whole
  <1>8. r \in Place /\ (Ok(r) => Ok(time)) /\ (Ok(r) => r.idx = time.end \/ time.end = 0)
    BY <1>7, PastKeeps DEF Ok, IDX_NONE
  <1>9. Ok(r) => idx <= r.idx /\ r.idx <= end.list /\ r.idx <= end.tbs
    BY <1>2, <1>6, <1>8, Basics DEF Place
  <1>10. TypedRest
    BY <1>1, Basics DEF TypedRest
  <1> HIDE DEF r
  <1> QED  BY <1>1, <1>2, <1>4, <1>8, <1>9, <1>10, MoveKeeps

LEMMA TimesKeep == Inv /\ (NotBefore \/ NotAfter) => Inv'
  <1> SUFFICES ASSUME Inv, NotBefore \/ NotAfter PROVE Inv'
    OBVIOUS
  <1>1. /\ "not_before" \in Values /\ "not_after" \in Values
        /\ "not_before" \in ListPlaces /\ "not_after" \in ListPlaces
        /\ "not_after" \notin ItemPlaces /\ "subject" \notin ItemPlaces
    BY DEF Values, ListPlaces, ItemPlaces
  <1>2. CASE NotBefore
    BY <1>1, <1>2, Moves, TimeKeeps DEF NotBefore
  <1>3. CASE NotAfter
    BY <1>1, <1>3, Moves, TimeKeeps DEF NotAfter
  <1> QED  BY <1>2, <1>3

LEMMA UniqueIDsKeeps == Inv /\ UniqueIDs => Inv'
  <1> SUFFICES ASSUME Inv, UniqueIDs PROVE Inv'
    OBVIOUS
  <1> DEFINE i == parse_optional_data(cert, DER_IMPLICIT_1, At(idx), end.tbs)
             issuer == Past(i)
             s == parse_optional_data(cert, DER_IMPLICIT_2, issuer, end.tbs)
             subject == Past(s)
  <1>1. /\ pc = "unique_ids" /\ Proceed(subject, "extensions")
        /\ UNCHANGED <<end, after, extn_oids, fields>>
    BY DEF UniqueIDs
  <1>2. idx <= end.tbs /\ end.tbs <= cert.size
    BY <1>1, Bounds DEF InTbs, TbsPlaces
  <1>3. Skips(i, At(idx), end.tbs)
    BY <1>2, Basics, ParseOptional
  <1> HIDE DEF i
  <1>4. issuer \in Place /\ (Ok(issuer) => idx <= issuer.idx /\ issuer.idx <= end.tbs)
    BY <1>2, <1>3, PastKeeps, Basics DEF Skips, Place, Ok, IDX_NONE
  <1> HIDE DEF issuer
  <1>5. Skips(s, issuer, end.tbs)
    BY <1>2, <1>4, Basics, ParseOptional
  <1> HIDE DEF s
  <1>6. subject \in Place /\ (Ok(subject) => idx <= subject.idx /\ subject.idx <= end.tbs)
    BY <1>2, <1>4, <1>5, PastKeeps, Basics DEF Skips, Place, Ok, IDX_NONE
  <1> HIDE DEF subject
  <1>7. TypedRest /\ SameRegions
    BY <1>1, Basics DEF TypedRest, SameRegions
  <1>8. NoLater("extensions") /\ "extensions" \notin ItemPlaces \cup ListPlaces
    BY <1>1, Moves DEF ItemPlaces, ListPlaces
  <1> QED  BY <1>1, <1>6, <1>7, <1>8, MoveKeeps

-----------------------------------------------------------------------------
(* The actions that write a region. *)

LEMMA SerialNumberKeeps == Inv /\ SerialNumber => Inv'
  <1> SUFFICES ASSUME Inv, SerialNumber PROVE Inv'
    OBVIOUS
  <1> DEFINE serial == parse_data_element(cert, DER_INTEGER, At(idx), end.tbs)
             r == Past(serial)
             new == [fields EXCEPT !.cert_serial = Region(serial.idx, serial.end)]
  <1>1. /\ pc = "serial_number" /\ Proceed(r, "signature") /\ Store(serial, new)
        /\ UNCHANGED <<end, after, extn_oids>>
    BY DEF SerialNumber
  <1>2. pc \in InTbs /\ "signature" \in TbsPlaces /\ "signature" \in InTbs
    BY <1>1 DEF InTbs, TbsPlaces
  <1>3. idx <= end.tbs /\ end.tbs <= cert.size /\ end.cert = cert.size
    BY <1>2, Bounds
  <1>4. Reads(serial, At(idx), end.tbs)
    BY <1>3, Basics, ParseElement
  <1> HIDE DEF serial
  <1>5. TypedRest
    BY <1>1, Basics DEF TypedRest
  <1>6. r \in Place /\ (Ok(r) <=> Ok(serial)) /\ (Ok(r) => r.idx = serial.end)
    BY <1>4, PastKeeps DEF Reads, Place, Ok, IDX_NONE
  <1> HIDE DEF r
  <1>7. CASE ~Ok(r)
    BY <1>1, <1>5, <1>6, <1>7, FailKeeps DEF Store, SameRegions
  <1>8. CASE Ok(r)
    <2>1. /\ pc' = "signature" /\ idx' = serial.end /\ cert' = cert
      BY <1>1, <1>6, <1>8 DEF Proceed
    <2>2. /\ serial.idx \in Nat /\ serial.end \in Nat /\ idx <= serial.idx
          /\ serial.idx <= serial.end /\ serial.end <= end.tbs
          /\ idx <= serial.end /\ serial.end <= cert.size
      BY <1>3, <1>4, <1>6, <1>8, Basics DEF Reads, Place
    <2>3. Nested'
      BY <1>1, <1>3, <2>1, <2>2 DEF Nested, ItemPlaces, ListPlaces
    <2>4. /\ DOMAIN fields' = DOMAIN fields
          /\ fields'.cert_serial = [start |-> serial.idx, end |-> serial.end]
          /\ \A x \in Regions \ {"cert_serial"} : fields'[x] = fields[x]
      BY <1>1, <1>6, <1>8 DEF Store, Inv, TypeOK, Regions, Values, Region
    <2>5. fields'.cert_serial \in Extent
      BY <2>2, <2>4 DEF Extent
    <2>6. SerialKnown'
      <3>1. SignedKnown /\ Reached = idx /\ Reached' = serial.end
        BY <1>1, <2>1 DEF Inv, Known, Since, SignedAt, Reached
      <3>2. fields'.signed_data = fields.signed_data
        BY <2>4 DEF Regions
      <3>3. fields.signed_data.start \in Nat /\ fields.signed_data.start <= idx
        BY <3>1 DEF SignedKnown, Extent
      <3>4. fields.signed_data.start <= serial.idx
        BY <2>2, <3>3, Basics
      <3> QED  BY <2>2, <2>4, <2>5, <3>1, <3>2, <3>4 DEF SerialKnown, Placed
    <2>7. /\ {"cert_serial"} \in SUBSET (Regions \ {"signed_data"})
          /\ "signature" \notin SigIdAt /\ "signature" \notin KeyIdAt /\ "signature" \notin KeyAt
          /\ "signature" \notin DefaultsAt
      BY DEF Regions, SigIdAt, KeyIdAt, KeyAt, DefaultsAt, ItemPlaces
    <2>8. Fresh'
      BY <2>1 DEF Fresh, ExtnPlaces
    <2> QED  BY <1>1, <1>2, <1>5, <1>6, <1>8, <2>1, <2>2, <2>3, <2>4, <2>5, <2>6, <2>7, <2>8,
                WriteKeeps
  <1> QED  BY <1>7, <1>8

(***************************************************************************)
(* parse_alg_id takes an element of its parent and notes it and its oid.   *)
(***************************************************************************)
AlgIdRead(r, p, id, oid) ==
    /\ TypedRest /\ end' = end
    /\ DOMAIN fields' = DOMAIN fields
    /\ \A x \in Regions \ {id, oid} : fields'[x] = fields[x]
    /\ ~Ok(r) => SameRegions
    /\ Ok(r) => /\ fields'[id] \in Extent /\ fields'[oid] \in Extent
                /\ fields'[id].start = idx /\ fields'[id].end = r.idx
                /\ idx < r.idx /\ r.idx <= p
                /\ idx <= fields'[oid].start /\ fields'[oid].start <= fields'[oid].end
                /\ fields'[oid].end <= r.idx

LEMMA AlgIdReads ==
    ASSUME Inv, NEW p \in Nat, p <= cert.size, NEW next,
           NEW id \in Regions, NEW oid \in Regions, id # oid, parse_alg_id(p, id, oid, next)
    PROVE  \E r \in Place : Proceed(r, next) /\ AlgIdRead(r, p, id, oid)
  <1> DEFINE seq == parse_data_element(cert, DER_SEQUENCE, At(idx), p)
             alg == parse_data_element(cert, DER_OID, seq, seq.end)
             r == Leave(alg, seq.end)
             new == [fields EXCEPT ![id] = Region(idx, seq.end), ![oid] = Region(alg.idx, alg.end)]
  <1>1. Proceed(r, next) /\ Store(alg, new) /\ UNCHANGED <<end, after, extn_oids>>
    BY DEF parse_alg_id
  <1>2. Reads(seq, At(idx), p)
    BY Basics, ParseElement
  <1> HIDE DEF seq
  <1>3. seq.end \in Nat /\ (Ok(seq) => seq.end <= cert.size)
    BY <1>2, Basics DEF Reads, Place
  <1>4. Reads(alg, seq, seq.end)
    BY <1>2, <1>3, Basics, ParseElement DEF Reads
  <1> HIDE DEF alg
  <1>5. r \in Place /\ (Ok(r) <=> Ok(alg)) /\ (Ok(r) => r.idx = seq.end)
    BY <1>3, <1>4, LeaveKeeps DEF Reads, Ok
  <1>6. TypedRest
    BY <1>1, Basics DEF TypedRest
  <1>7. CASE ~Ok(r)
    <2>1. fields' = fields
      BY <1>1, <1>5, <1>7 DEF Store
    <2> HIDE DEF r
    <2> QED  BY <1>1, <1>5, <1>6, <1>7, <2>1 DEF SameRegions, AlgIdRead
  <1>8. CASE Ok(r)
    <2>1. /\ idx < seq.end /\ seq.end <= p /\ seq.end \in Nat /\ idx <= alg.idx
          /\ alg.idx <= alg.end /\ alg.end <= seq.end /\ alg.idx \in Nat /\ alg.end \in Nat
      BY <1>2, <1>3, <1>4, <1>5, <1>8, Basics DEF Reads, Place
    <2>2. /\ DOMAIN fields' = DOMAIN fields
          /\ fields'[id] = [start |-> idx, end |-> seq.end]
          /\ fields'[oid] = [start |-> alg.idx, end |-> alg.end]
          /\ \A x \in Regions \ {id, oid} : fields'[x] = fields[x]
      BY <1>1, <1>5, <1>8 DEF Store, Inv, TypeOK, Region
    <2>3. fields'[id] \in Extent /\ fields'[oid] \in Extent
      BY <2>1, <2>2, Basics DEF Extent
    <2> HIDE DEF r
    <2> QED  BY <1>1, <1>5, <1>6, <1>8, <2>1, <2>2, <2>3 DEF AlgIdRead
  <1> QED  BY <1>7, <1>8

LEMMA SignatureKeeps == Inv /\ Signature => Inv'
  <1> SUFFICES ASSUME Inv, Signature PROVE Inv'
    OBVIOUS
  <1>1. pc = "signature" /\ parse_alg_id(end.tbs, "sig_id", "sig_oid", "issuer")
    BY DEF Signature
  <1>2. /\ pc \in InTbs /\ "issuer" \in InTbs /\ "sig_id" \in Regions /\ "sig_oid" \in Regions
        /\ {"sig_id", "sig_oid"} \in SUBSET (Regions \ {"signed_data"})
    BY <1>1 DEF InTbs, TbsPlaces, Regions
  <1>3. idx <= end.tbs /\ end.tbs <= cert.size /\ end.cert = cert.size
    BY <1>2, Bounds
  <1>. PICK r \in Place : Proceed(r, "issuer") /\ AlgIdRead(r, end.tbs, "sig_id", "sig_oid")
    BY <1>1, <1>2, <1>3, Basics, AlgIdReads
  <1>4. /\ r \in Place /\ Proceed(r, "issuer") /\ TypedRest /\ end' = end
        /\ DOMAIN fields' = DOMAIN fields
        /\ \A x \in Regions \ {"sig_id", "sig_oid"} : fields'[x] = fields[x]
        /\ ~Ok(r) => SameRegions
        /\ Ok(r) => /\ fields'.sig_id \in Extent /\ fields'.sig_oid \in Extent
                    /\ fields'.sig_id.start = idx /\ fields'.sig_id.end = r.idx
                    /\ idx < r.idx /\ r.idx <= end.tbs
                    /\ idx <= fields'.sig_oid.start /\ fields'.sig_oid.start <= fields'.sig_oid.end
                    /\ fields'.sig_oid.end <= r.idx
    BY DEF AlgIdRead
  <1>5. CASE ~Ok(r)
    BY <1>4, <1>5, FailKeeps
  <1>6. CASE Ok(r)
    <2>1. pc' = "issuer" /\ idx' = r.idx /\ cert' = cert
      BY <1>4, <1>6 DEF Proceed
    <2>2. Nested'
      BY <1>3, <1>4, <1>6, <2>1, Basics DEF Nested, ItemPlaces, ListPlaces, Place
    <2>3. SigIdKnown'
      <3>1. SerialKnown /\ Reached = idx /\ Reached' = r.idx
        BY <1>1, <2>1 DEF Inv, Known, Since, SerialAt, Reached
      <3>2. fields'.cert_serial = fields.cert_serial
        BY <1>4 DEF Regions
      <3>3. fields.cert_serial.end <= idx
        BY <3>1 DEF SerialKnown, Placed
      <3> QED  BY <1>4, <1>6, <3>1, <3>2, <3>3, Basics DEF SigIdKnown, Placed, Place
    <2>4. /\ "issuer" \notin KeyIdAt /\ "issuer" \notin KeyAt /\ "issuer" \notin DefaultsAt
          /\ pc \in SerialAt /\ "cert_serial" \notin {"sig_id", "sig_oid"}
      BY <1>1 DEF SerialAt, KeyIdAt, KeyAt, DefaultsAt, ItemPlaces
    <2>5. idx <= idx' /\ end'.tbs = end.tbs
      BY <1>4, <1>6, <2>1, Basics DEF Place
    <2>6. Fresh'
      BY <2>1 DEF Fresh, ExtnPlaces
    <2> QED  BY <1>2, <1>4, <1>6, <2>2, <2>3, <2>4, <2>5, <2>6, WriteKeeps
  <1> QED  BY <1>5, <1>6

LEMMA AlgorithmKeeps == Inv /\ Algorithm => Inv'
  <1> SUFFICES ASSUME Inv, Algorithm PROVE Inv'
    OBVIOUS
  <1>1. pc = "algorithm" /\ parse_alg_id(end.list, "pub_key_id", "pub_key_oid", "public_key")
    BY DEF Algorithm
  <1>2. /\ pc \in InTbs /\ "public_key" \in InTbs /\ pc \in ListPlaces
        /\ "pub_key_id" \in Regions /\ "pub_key_oid" \in Regions
        /\ {"pub_key_id", "pub_key_oid"} \in SUBSET (Regions \ {"signed_data"})
    BY <1>1 DEF InTbs, ListPlaces, Regions
  <1>3. /\ idx <= end.list /\ end.list <= end.tbs /\ end.tbs <= cert.size /\ end.cert = cert.size
        /\ end.list <= cert.size
    BY <1>2, Bounds, Basics
  <1>. PICK r \in Place : Proceed(r, "public_key") /\ AlgIdRead(r, end.list, "pub_key_id", "pub_key_oid")
    BY <1>1, <1>2, <1>3, Basics, AlgIdReads
  <1>4. /\ r \in Place /\ Proceed(r, "public_key") /\ TypedRest /\ end' = end
        /\ DOMAIN fields' = DOMAIN fields
        /\ \A x \in Regions \ {"pub_key_id", "pub_key_oid"} : fields'[x] = fields[x]
        /\ ~Ok(r) => SameRegions
        /\ Ok(r) => /\ fields'.pub_key_id \in Extent /\ fields'.pub_key_oid \in Extent
                    /\ fields'.pub_key_id.start = idx /\ fields'.pub_key_id.end = r.idx
                    /\ idx < r.idx /\ r.idx <= end.list
                    /\ idx <= fields'.pub_key_oid.start
                    /\ fields'.pub_key_oid.start <= fields'.pub_key_oid.end
                    /\ fields'.pub_key_oid.end <= r.idx
    BY DEF AlgIdRead
  <1>5. CASE ~Ok(r)
    BY <1>4, <1>5, FailKeeps
  <1>6. CASE Ok(r)
    <2>1. pc' = "public_key" /\ idx' = r.idx /\ cert' = cert
      BY <1>4, <1>6 DEF Proceed
    <2>2. Nested'
      BY <1>3, <1>4, <1>6, <2>1, Basics DEF Nested, ItemPlaces, Place
    <2>3. KeyIdKnown'
      <3>1. SigIdKnown /\ Reached = idx /\ Reached' = r.idx
        BY <1>1, <2>1 DEF Inv, Known, Since, SigIdAt, Reached
      <3>2. fields'.sig_id = fields.sig_id
        BY <1>4 DEF Regions
      <3>3. fields.sig_id.end <= idx
        BY <3>1 DEF SigIdKnown, Placed
      <3> QED  BY <1>4, <1>6, <3>1, <3>2, <3>3, Basics DEF KeyIdKnown, Placed, Place
    <2>4. /\ "public_key" \notin KeyAt /\ "public_key" \notin DefaultsAt
          /\ pc \in SerialAt /\ "cert_serial" \notin {"pub_key_id", "pub_key_oid"}
          /\ pc \in SigIdAt
          /\ {"pub_key_id", "pub_key_oid"} \cap {"cert_serial", "sig_id", "sig_oid"} = {}
      BY <1>1 DEF SerialAt, SigIdAt, KeyAt, DefaultsAt, ItemPlaces
    <2>5. idx <= idx' /\ end'.tbs = end.tbs
      BY <1>4, <1>6, <2>1, Basics DEF Place
    <2>6. Fresh'
      BY <2>1 DEF Fresh, ExtnPlaces
    <2> QED  BY <1>2, <1>4, <1>6, <2>2, <2>3, <2>4, <2>5, <2>6, WriteKeeps
  <1> QED  BY <1>5, <1>6

(***************************************************************************)
(* A bit string ends where its parent does.                                *)
(***************************************************************************)
BitStringRead(r, p, member) ==
    /\ TypedRest /\ end' = end
    /\ DOMAIN fields' = DOMAIN fields
    /\ \A x \in Regions \ {member} : fields'[x] = fields[x]
    /\ ~Ok(r) => SameRegions
    /\ Ok(r) => /\ fields'[member] \in Extent
                /\ idx < fields'[member].start /\ fields'[member].start <= fields'[member].end
                /\ fields'[member].end = p /\ r.idx = p

LEMMA BitStringReads ==
    ASSUME Inv, NEW p \in Nat, p <= cert.size, NEW next, NEW member \in Regions,
           BitString(p, member, next)
    PROVE  \E r \in Place : Proceed(r, next) /\ BitStringRead(r, p, member)
  <1> DEFINE bits == parse_bitstring_no_unused(cert, At(idx), p)
             whole == Require(bits, bits.end = p, "TRAILING_DATA")
             r == Past(whole)
             new == [fields EXCEPT ![member] = Region(bits.idx, bits.end)]
  <1>1. Proceed(r, next) /\ Store(whole, new) /\ UNCHANGED <<end, after, extn_oids>>
    BY DEF BitString
  <1>2. Reads(bits, At(idx), p)
    BY Basics, ParseBits
  <1> HIDE DEF bits
  <1>3. /\ whole \in Place /\ whole.end = bits.end
        /\ Ok(whole) => Ok(bits) /\ bits.end = p
    BY <1>2 DEF Reads, Require, Place, Ok, ParseCodes
  <1> HIDE DEF whole
  <1>4. /\ bits.idx \in Nat /\ bits.end \in Nat
        /\ Ok(whole) => idx < bits.idx /\ bits.idx <= bits.end /\ 0 < bits.end
    BY <1>2, <1>3, Basics DEF Reads, Place
  <1>5. r \in Place /\ (Ok(r) <=> Ok(whole)) /\ (Ok(r) => r.idx = p)
    BY <1>3, <1>4, PastKeeps DEF Place, Ok, IDX_NONE
  <1>6. TypedRest
    BY <1>1, Basics DEF TypedRest
  <1> HIDE DEF r
  <1>7. CASE ~Ok(r)
    <2>1. fields' = fields
      BY <1>1, <1>5, <1>7 DEF Store
    <2> QED  BY <1>1, <1>5, <1>6, <1>7, <2>1 DEF SameRegions, BitStringRead
  <1>8. CASE Ok(r)
    <2>1. /\ DOMAIN fields' = DOMAIN fields
          /\ fields'[member] = [start |-> bits.idx, end |-> bits.end]
          /\ \A x \in Regions \ {member} : fields'[x] = fields[x]
      BY <1>1, <1>5, <1>8 DEF Store, Inv, TypeOK, Region
    <2>2. fields'[member] \in Extent
      BY <1>4, <2>1 DEF Extent
    <2> QED  BY <1>1, <1>3, <1>4, <1>5, <1>6, <1>8, <2>1, <2>2 DEF BitStringRead
  <1> QED  BY <1>7, <1>8

LEMMA SubjectPublicKeyKeeps == Inv /\ SubjectPublicKey => Inv'
  <1> SUFFICES ASSUME Inv, SubjectPublicKey PROVE Inv'
    OBVIOUS
  <1>1. pc = "public_key" /\ BitString(end.list, "pub_key", "unique_ids")
    BY DEF SubjectPublicKey
  <1>2. /\ pc \in InTbs /\ "unique_ids" \in InTbs /\ pc \in ListPlaces /\ "pub_key" \in Regions
        /\ {"pub_key"} \in SUBSET (Regions \ {"signed_data"})
    BY <1>1 DEF InTbs, ListPlaces, TbsPlaces, Regions
  <1>3. /\ idx <= end.list /\ end.list <= end.tbs /\ end.tbs <= cert.size /\ end.cert = cert.size
        /\ end.list <= cert.size
    BY <1>2, Bounds, Basics
  <1>. PICK r \in Place : Proceed(r, "unique_ids") /\ BitStringRead(r, end.list, "pub_key")
    BY <1>1, <1>2, <1>3, Basics, BitStringReads
  <1>4. /\ r \in Place /\ Proceed(r, "unique_ids") /\ TypedRest /\ end' = end
        /\ DOMAIN fields' = DOMAIN fields
        /\ \A x \in Regions \ {"pub_key"} : fields'[x] = fields[x]
        /\ ~Ok(r) => SameRegions
        /\ Ok(r) => /\ fields'.pub_key \in Extent /\ idx < fields'.pub_key.start
                    /\ fields'.pub_key.start <= fields'.pub_key.end
                    /\ fields'.pub_key.end = end.list /\ r.idx = end.list
    BY DEF BitStringRead
  <1>5. CASE ~Ok(r)
    BY <1>4, <1>5, FailKeeps
  <1>6. CASE Ok(r)
    <2>1. pc' = "unique_ids" /\ idx' = end.list /\ cert' = cert
      BY <1>4, <1>6 DEF Proceed
    <2>2. Nested'
      BY <1>3, <1>4, <2>1 DEF Nested, ItemPlaces, ListPlaces
    <2>3. KeyKnown'
      <3>1. KeyIdKnown /\ Reached = idx /\ Reached' = end.list
        BY <1>1, <2>1 DEF Inv, Known, Since, KeyIdAt, Reached
      <3>2. fields'.pub_key_id = fields.pub_key_id
        BY <1>4 DEF Regions
      <3>3. fields.pub_key_id.end <= idx /\ fields.pub_key_id.end \in Nat
        BY <3>1 DEF KeyIdKnown, Placed, Extent
      <3>4. fields'.pub_key.start \in Nat /\ end.list <= end.list
        BY <1>4, <1>6, Basics DEF Extent
      <3> QED  BY <1>4, <1>6, <3>1, <3>2, <3>3, <3>4, Basics DEF KeyKnown, Placed
    <2>4. /\ "unique_ids" \notin DefaultsAt
          /\ pc \in SerialAt /\ "cert_serial" \notin {"pub_key"}
          /\ pc \in SigIdAt /\ {"pub_key"} \cap {"cert_serial", "sig_id", "sig_oid"} = {}
          /\ pc \in KeyIdAt /\ {"pub_key"} \cap {"sig_id", "pub_key_id", "pub_key_oid"} = {}
      BY <1>1 DEF SerialAt, SigIdAt, KeyIdAt, DefaultsAt, ItemPlaces
    <2>5. idx <= idx' /\ end'.tbs = end.tbs
      BY <1>3, <1>4, <2>1
    <2>6. Fresh'
      BY <2>1 DEF Fresh, ExtnPlaces
    <2> QED  BY <1>2, <1>4, <1>6, <2>2, <2>3, <2>4, <2>5, <2>6, WriteKeeps
  <1> QED  BY <1>5, <1>6

-----------------------------------------------------------------------------
(* The signature algorithm and the signature, after the signed data. *)

LEMMA Leaving ==
    ASSUME Inv, pc \in {"end_of_tbs", "signature_value"}, Reached = end.tbs, Reached' = end.tbs,
           end'.tbs = end.tbs, cert' = cert,
           \A x \in Regions \ {"sig"} : fields'[x] = fields[x]
    PROVE  /\ SignedKnown' /\ SerialKnown' /\ SigIdKnown' /\ KeyIdKnown' /\ KeyKnown'
           /\ ExtnsKnown'
  <1>1. /\ SignedKnown /\ SerialKnown /\ SigIdKnown /\ KeyIdKnown /\ KeyKnown /\ ExtnsKnown
    BY DEF Inv, Known, Since, SignedAt, SerialAt, SigIdAt, KeyIdAt, KeyAt, DefaultsAt
  <1>2. \A x \in {"signed_data", "cert_serial", "sig_id", "sig_oid", "pub_key_id", "pub_key_oid",
                  "pub_key", "skid", "akid"} : fields'[x] = fields[x]
    BY DEF Regions
  <1>3. SignedKnown'
    BY <1>1, <1>2 DEF SignedKnown
  <1>4. SerialKnown' /\ SigIdKnown' /\ KeyIdKnown' /\ KeyKnown'
    BY <1>1, <1>2 DEF SerialKnown, SigIdKnown, KeyIdKnown, KeyKnown, Placed
  <1>5. ExtnsKnown'
    BY <1>1, <1>2 DEF ExtnsKnown, Placed, Region
  <1> QED  BY <1>3, <1>4, <1>5

LEMMA SignatureAlgorithmKeeps == Inv /\ SignatureAlgorithm => Inv'
  <1> SUFFICES ASSUME Inv, SignatureAlgorithm PROVE Inv'
    OBVIOUS
  <1> DEFINE size  == fields.sig_id.end - fields.sig_id.start
             whole == Require(At(idx), idx = end.tbs, "TRAILING_DATA")
             room  == Require(whole, idx + size < end.cert, "UNEXPECTED_END_OF_DATA")
             alike == Bytes(fields.sig_id.start, fields.sig_id.end) = Bytes(idx, idx + size)
             same  == Require(room, alike, "MISMATCHED_SIG_ID")
             r     == Leave(same, idx + size)
  <1>1. /\ pc = "end_of_tbs" /\ Proceed(r, "signature_value")
        /\ UNCHANGED <<end, after, extn_oids, fields>>
    BY DEF SignatureAlgorithm
  <1>2. /\ idx <= end.tbs /\ end.tbs <= cert.size /\ end.cert = cert.size
    BY <1>1, Bounds DEF InTbs, TbsPlaces
  <1>3. size \in Nat
    <2>1. SigIdKnown
      BY <1>1 DEF Inv, Known, Since, SigIdAt, KeyIdAt, KeyAt, DefaultsAt
    <2> QED  BY <2>1 DEF SigIdKnown, Placed, Extent
  <1> HIDE DEF size
  <1>4. whole \in Place /\ (Ok(whole) => idx = end.tbs)
    BY Basics DEF Require, Place, Ok, ParseCodes
  <1> HIDE DEF whole
  <1>5. room \in Place /\ (Ok(room) => idx = end.tbs /\ idx + size < end.cert)
    BY <1>4 DEF Require, Place, Ok, ParseCodes
  <1> HIDE DEF room, alike
  <1>6. same \in Place /\ (Ok(same) => idx = end.tbs /\ idx + size < end.cert)
    BY <1>5 DEF Require, Place, Ok, ParseCodes
  <1> HIDE DEF same
  <1>7. /\ r \in Place
        /\ Ok(r) => idx = end.tbs /\ idx + size < end.cert /\ r.idx = idx + size
    <2>1. idx + size \in Nat
      BY <1>3, Basics
    <2> QED  BY <1>6, <2>1 DEF Leave, Place, Ok
  <1> HIDE DEF r
  <1>8. TypedRest /\ SameRegions
    BY <1>1, Basics DEF TypedRest, SameRegions
  <1>9. CASE ~Ok(r)
    BY <1>1, <1>7, <1>8, <1>9, FailKeeps
  <1>10. CASE Ok(r)
    <2>1. /\ pc' = "signature_value" /\ idx' = idx + size /\ cert' = cert /\ code' = "PARSE_OK"
          /\ idx = end.tbs /\ idx' \in Nat /\ idx' <= cert.size /\ end.tbs <= idx'
      BY <1>1, <1>2, <1>3, <1>7, <1>10, Basics DEF Proceed, Ok
    <2>2. TypeOK'
      BY <1>1, <1>8, <2>1 DEF Inv, TypeOK, SameRegions, TypedRest, Ends, CertPlaces, ParseCodes
    <2>3. Nested' /\ ParserAssertionsHold' /\ Fresh'
      BY <1>1, <1>2, <2>1 DEF Nested, ParserAssertionsHold, Fresh, ExtnPlaces, ItemPlaces, ListPlaces, TbsPlaces
    <2>4. Reached = end.tbs /\ Reached' = end.tbs
      BY <1>1, <2>1 DEF Reached
    <2>5. Known'
      BY <1>1, <2>1, <2>4, Leaving DEF Known, Parsed
    <2> QED  BY <2>1, <2>2, <2>3, <2>5 DEF Inv
  <1> QED  BY <1>9, <1>10

LEMMA SignatureValueKeeps == Inv /\ SignatureValue => Inv'
  <1> SUFFICES ASSUME Inv, SignatureValue PROVE Inv'
    OBVIOUS
  <1>1. pc = "signature_value" /\ BitString(end.cert, "sig", "returned")
    BY DEF SignatureValue
  <1>2. end.cert = cert.size /\ end.tbs <= idx /\ "sig" \in Regions
    BY <1>1, Bounds DEF Inv, Known, CertPlaces, Regions
  <1>. PICK r \in Place : Proceed(r, "returned") /\ BitStringRead(r, end.cert, "sig")
    BY <1>1, <1>2, Basics, BitStringReads
  <1>3. /\ TypedRest /\ end' = end /\ DOMAIN fields' = DOMAIN fields
        /\ \A x \in Regions \ {"sig"} : fields'[x] = fields[x]
        /\ ~Ok(r) => SameRegions
        /\ Ok(r) => /\ fields'.sig \in Extent /\ idx < fields'.sig.start
                    /\ fields'.sig.start <= fields'.sig.end /\ fields'.sig.end = end.cert
    BY DEF BitStringRead
  <1>4. CASE ~Ok(r)
    BY <1>3, <1>4, FailKeeps
  <1>5. CASE Ok(r)
    <2>1. pc' = "returned" /\ code' = "PARSE_OK" /\ idx' \in Nat /\ cert' = cert
      BY <1>5 DEF Proceed, Place, Ok
    <2>2. TypeOK'
      BY <1>3, <1>5, <2>1 DEF Inv, TypeOK, TypedRest, Ends, Extent, ParseCodes
    <2>3. Nested' /\ ParserAssertionsHold' /\ Fresh'
      BY <2>1 DEF Nested, ParserAssertionsHold, Fresh, ExtnPlaces, ItemPlaces, ListPlaces, TbsPlaces
    <2>4. SigKnown'
      <3>1. fields'.sig.start \in Nat
        BY <1>3, <1>5 DEF Extent
      <3> QED  BY <1>2, <1>3, <1>5, <2>1, <3>1, Basics DEF SigKnown
    <2>5. Reached = end.tbs /\ Reached' = end.tbs
      BY <1>1, <1>3, <2>1 DEF Reached
    <2>6. Known'
      BY <1>1, <1>3, <2>1, <2>4, <2>5, Leaving DEF Known
    <2> QED  BY <2>1, <2>2, <2>3, <2>6 DEF Inv
  <1> QED  BY <1>4, <1>5

-----------------------------------------------------------------------------
(* The extensions. *)

InExtns == {"extension"} \cup ExtnPlaces

LEMMA ExtnKeeps ==
    ASSUME Inv, NEW r \in Place, NEW next, Proceed(r, next), TypedRest,
           NEW W \in SUBSET {"skid", "akid"}, DOMAIN fields' = DOMAIN fields,
           \A x \in Regions \ W : fields'[x] = fields[x],
           \A x \in W : fields'[x] = fields[x] \/ fields'[x] \in Extent,
           Ok(r) => /\ \A x \in W : fields'[x] \in Extent
                    /\ W # {} => ExtnsKnown'
                    /\ Fresh',
           pc \in InExtns, next \in InExtns \cup {"end_of_tbs"},
           end'.tbs = end.tbs, end'.cert = end.cert, end'.list = end.list,
           Ok(r) => idx <= r.idx /\ r.idx <= end.list,
           Ok(r) /\ next \in ExtnPlaces => r.idx <= end'.item /\ end'.item <= end.list
    PROVE  Inv'
  <1>1. CASE ~Ok(r)
    <2>1. \A x \in Regions : fields'[x] = fields[x] \/ fields'[x] \in Extent
      OBVIOUS
    <2> QED  BY <1>1, <2>1, FailTyped
  <1>2. CASE Ok(r)
    <2>1. /\ pc' = next /\ idx' = r.idx /\ cert' = cert /\ pc \in InTbs /\ next \in InTbs
          /\ pc \in ItemPlaces \cup ListPlaces
      BY <1>2 DEF Proceed, InExtns, InTbs, ExtnPlaces, ItemPlaces, ListPlaces, TbsPlaces
    <2>2. /\ end.cert = cert.size /\ end.tbs <= cert.size /\ end.list <= end.tbs
          /\ r.idx <= end.tbs /\ r.idx <= cert.size
      BY <1>2, <2>1, Bounds, Basics DEF Place
    <2>3. Nested'
      BY <1>2, <2>1, <2>2 DEF Nested, InExtns, InTbs, ExtnPlaces, ItemPlaces
    <2>4. /\ W \in SUBSET (Regions \ {"signed_data"}) /\ "cert_serial" \notin W
          /\ W \cap {"cert_serial", "sig_id", "sig_oid"} = {}
          /\ W \cap {"sig_id", "pub_key_id", "pub_key_oid"} = {}
          /\ W \cap {"pub_key_id", "pub_key"} = {}
      BY DEF Regions
    <2>5. pc \in SerialAt /\ pc \in SigIdAt /\ pc \in KeyIdAt /\ pc \in KeyAt /\ pc \in DefaultsAt
      BY DEF SerialAt, SigIdAt, KeyIdAt, KeyAt, DefaultsAt, InExtns, ExtnPlaces, ItemPlaces
    <2>6. ExtnsKnown' \/ W \cap {"pub_key", "skid", "akid"} = {}
      BY <1>2
    <2>7. idx <= idx'
      BY <1>2, <2>1
    <2> QED  BY <1>2, <2>1, <2>3, <2>4, <2>5, <2>6, <2>7, WriteKeeps
  <1> QED  BY <1>1, <1>2

(***************************************************************************)
(* No region is written, and the extensions seen are the same.             *)
(***************************************************************************)
LEMMA ExtnStepKeeps ==
    ASSUME Inv, NEW r \in Place, NEW next, Proceed(r, next), SameRegions,
           UNCHANGED <<end, after, extn_oids>>,
           pc \in InExtns, next \in (InExtns \ {"akid"}) \cup {"end_of_tbs"},
           Ok(r) => idx <= r.idx /\ r.idx <= end.list,
           Ok(r) /\ next \in ExtnPlaces => r.idx <= end.item /\ end.item <= end.list
    PROVE  Inv'
  <1>1. TypedRest
    BY Basics DEF TypedRest
  <1>2. Ok(r) => Fresh'
    <2> SUFFICES ASSUME Ok(r), pc' \in InExtns, pc' = "akid" \/ ~Seen(AKID_OID)'
                 PROVE  fields'.akid = Region(IDX_NONE, IDX_NONE)
      BY DEF Fresh, InExtns, Region, ExtnPlaces, Proceed
    <2>1. pc' # "akid" /\ ~Seen(AKID_OID)
      BY DEF Proceed, Seen, InExtns
    <2>2. fields.akid = Region(IDX_NONE, IDX_NONE)
      BY <2>1 DEF Inv, Fresh, InExtns
    <2>3. fields'.akid = fields.akid
      BY DEF SameRegions, Regions
    <2> QED  BY <2>2, <2>3
  <1>3. next \in InExtns \cup {"end_of_tbs"} /\ {} \in SUBSET {"skid", "akid"}
    OBVIOUS
  <1> QED  BY <1>1, <1>2, <1>3, ExtnKeeps DEF SameRegions

LEMMA ExtensionsEndKeeps == Inv /\ ExtensionsEnd => Inv'
  <1> SUFFICES ASSUME Inv, ExtensionsEnd PROVE Inv'
    OBVIOUS
  <1>1. /\ pc = "extension" /\ idx >= end.list
        /\ Proceed(Require(At(idx), idx = end.list, "ASSERTION_FAILED"), "end_of_tbs")
        /\ UNCHANGED <<end, after, extn_oids, fields>>
    BY DEF ExtensionsEnd
  <1>2. idx <= end.list
    BY <1>1, Bounds DEF ListPlaces
  <1>3. Require(At(idx), idx = end.list, "ASSERTION_FAILED") = At(idx)
    BY <1>1, <1>2, Basics DEF Require, At
  <1>4. /\ SameRegions /\ pc \in InExtns /\ idx <= idx
        /\ "end_of_tbs" \in (InExtns \ {"akid"}) \cup {"end_of_tbs"} /\ "end_of_tbs" \notin ExtnPlaces
    BY <1>1, Basics DEF SameRegions, InExtns, ExtnPlaces
  <1> QED  BY <1>1, <1>2, <1>3, <1>4, Basics, ExtnStepKeeps

(***************************************************************************)
(* A step takes some of the file or goes to a later stage.                 *)
(***************************************************************************)
LEMMA ProceedAdvances ==
    ASSUME NEW r, NEW next, Proceed(r, next),
           Ok(r) => \/ r.idx > idx
                    \/ r.idx = idx /\ Stage(next) > Stage(pc)
    PROVE  Advance
  BY DEF Proceed, Advance

LEMMA ParsedAdvances ==
    ASSUME Inv, pc \in ExtnPlaces, NEW r \in Place, NEW new, ExtnParsed(r, new)
    PROVE  Advance
  <1> DEFINE l == Leave(r, end.item)
  <1>1. Proceed(l, "extension")
    BY DEF ExtnParsed
  <1>2. Ok(l) => l.idx = end.item
    BY LeaveKeeps, Basics DEF Ok
  <1> HIDE DEF l
  <1>3. Ok(l) => l.idx > idx \/ l.idx = idx
    BY <1>2, Bounds, Basics DEF ExtnPlaces, ItemPlaces
  <1>4. Stage("extension") > Stage(pc)
    BY DEF Stage, ExtnPlaces
  <1> QED  BY <1>1, <1>3, <1>4, ProceedAdvances

(***************************************************************************)
(* An extension that sets no region.                                       *)
(***************************************************************************)
LEMMA ParsedKeeps ==
    ASSUME Inv, NEW r \in Place, NEW new, pc \in ExtnPlaces, ExtnParsed(r, new),
           DOMAIN new = DOMAIN fields, \A x \in Regions : new[x] = fields[x]
    PROVE  Inv' /\ Advance
  <1> DEFINE l == Leave(r, end.item)
  <1>1. /\ Proceed(l, "extension") /\ UNCHANGED <<end, after, extn_oids>>
        /\ fields' = new \/ fields' = fields
    BY DEF ExtnParsed, Store
  <1>2. l \in Place /\ (Ok(l) => l.idx = end.item)
    BY LeaveKeeps, Basics DEF Ok
  <1> HIDE DEF l
  <1>3. idx <= end.item /\ end.item <= end.list
    BY Bounds DEF ExtnPlaces, ItemPlaces
  <1>4. /\ SameRegions /\ pc \in InExtns
        /\ "extension" \in (InExtns \ {"akid"}) \cup {"end_of_tbs"} /\ "extension" \notin ExtnPlaces
    BY <1>1 DEF SameRegions, InExtns, ExtnPlaces
  <1>11. Inv'
    BY <1>1, <1>2, <1>3, <1>4, ExtnStepKeeps
  <1> QED  BY <1>11, ParsedAdvances

LEMMA ItemBounds ==
    ASSUME Inv, pc \in ExtnPlaces
    PROVE  /\ idx <= end.item /\ end.item <= end.list /\ end.list <= end.tbs
           /\ end.item <= cert.size /\ pc \in InExtns
  BY Bounds, Basics DEF ExtnPlaces, ItemPlaces, InTbs, InExtns

LEMMA CheckPathLenKeeps ==
    ASSUME NEW path \in Place
    PROVE  CheckPathLen(path) \in Place
  <1> DEFINE nonempty == Require(path, Present(path) => path.idx < path.end,
                                 "UNEXPECTED_END_OF_DATA")
             natural  == Require(nonempty, Present(path) => /\ cert.byte[path.idx] < 128
                                                            /\ path.end - path.idx <= 4,
                                 "INVALID_INTEGER")
             whole    == Require(natural, Past(natural).idx = end.item, "TRAILING_DATA")
  <1>1. nonempty \in Place
    BY DEF Require, Place, ParseCodes
  <1> HIDE DEF nonempty
  <1>2. natural \in Place
    BY <1>1 DEF Require, Place, ParseCodes
  <1> HIDE DEF natural
  <1>3. whole \in Place
    BY <1>2 DEF Require, Place, ParseCodes
  <1>4. CheckPathLen(path) = whole
    BY DEF CheckPathLen, nonempty, natural
  <1> QED  BY <1>3, <1>4

LEMMA BasicConstraintKeeps == Inv /\ parse_basic_constraint => Inv' /\ Advance
  <1> SUFFICES ASSUME Inv, parse_basic_constraint PROVE Inv' /\ Advance
    OBVIOUS
  <1> DEFINE seq == parse_data_element(cert, DER_SEQUENCE, At(idx), end.item)
             ca == parse_default_bool(cert, seq, seq.end)
             opt == parse_optional_data(cert, DER_INTEGER, ca, seq.end)
             path == IF Present(ca) THEN opt ELSE ca
             whole == CheckPathLen(path)
             plen(len) == IF ~Present(ca) THEN len ELSE IF ~Present(path) THEN MAX_UINT32
                          ELSE PathLen(len, path.idx, path.end)
             new == [fields EXCEPT !.key_cert_sign = Present(ca), !.path_len_constraint = plen(@)]
  <1>1. pc = "basic_constraint" /\ ExtnParsed(whole, new)
    BY DEF parse_basic_constraint
  <1>2. idx <= end.item /\ end.item <= cert.size /\ pc \in ExtnPlaces
    BY <1>1, ItemBounds DEF ExtnPlaces
  <1> HIDE DEF plen
  <1>3. Reads(seq, At(idx), end.item)
    BY <1>2, Basics, ParseElement
  <1> HIDE DEF seq
  <1>4. seq.end \in Nat /\ (Ok(seq) => seq.end <= cert.size)
    BY <1>2, <1>3, Basics DEF Reads, Place
  <1>5. Skips(ca, seq, seq.end)
    BY <1>3, <1>4, Basics, ParseBool DEF Reads
  <1> HIDE DEF ca
  <1>6. Skips(opt, ca, seq.end)
    BY <1>4, <1>5, Basics, ParseOptional DEF Skips
  <1> HIDE DEF opt
  <1>7. path \in Place
    BY <1>5, <1>6 DEF Skips
  <1> HIDE DEF path
  <1>10. whole \in Place
    BY <1>7, CheckPathLenKeeps
  <1> HIDE DEF whole
  <1>11. DOMAIN new = DOMAIN fields /\ \A x \in Regions : new[x] = fields[x]
    BY DEF Inv, TypeOK, Regions, Values
  <1> HIDE DEF new
  <1> QED  BY <1>1, <1>2, <1>10, <1>11, ParsedKeeps

LEMMA KeyUsageKeeps == Inv /\ parse_key_usage => Inv' /\ Advance
  <1> SUFFICES ASSUME Inv, parse_key_usage PROVE Inv' /\ Advance
    OBVIOUS
  <1> DEFINE bits == parse_data_element(cert, DER_BITSTRING, At(idx), end.item)
             some == Require(bits, bits.end - bits.idx > 1, "UNEXPECTED_END_OF_DATA")
             whole == Require(some, bits.end = end.item /\ bits.end - bits.idx <= 3, "TRAILING_DATA")
             named == Require(whole, LastBitSet(cert.byte[bits.idx], cert.byte[bits.end - 1]),
                              "INVALID_BITSTRING")
             second == IF bits.idx + 2 < bits.end THEN SecondByte(cert.byte[bits.idx + 2]) ELSE {}
             flags == fields.key_usage_flags \cup Bits(cert.byte[bits.idx + 1]) \cup second
             new == [fields EXCEPT !.has_key_usage = TRUE, !.key_usage_flags = flags]
  <1>1. pc = "key_usage" /\ ExtnParsed(named, new)
    BY DEF parse_key_usage
  <1>2. idx <= end.item /\ end.item <= cert.size /\ pc \in ExtnPlaces
    BY <1>1, ItemBounds DEF ExtnPlaces
  <1> HIDE DEF flags
  <1>3. bits \in Place
    BY <1>2, Basics, ParseElement DEF Reads
  <1> HIDE DEF bits
  <1>4. some \in Place
    BY <1>3 DEF Require, Place, ParseCodes
  <1> HIDE DEF some
  <1>5. whole \in Place
    BY <1>4 DEF Require, Place, ParseCodes
  <1> HIDE DEF whole
  <1>6. named \in Place
    BY <1>5 DEF Require, Place, ParseCodes
  <1> HIDE DEF named
  <1>7. DOMAIN new = DOMAIN fields /\ \A x \in Regions : new[x] = fields[x]
    BY DEF Inv, TypeOK, Regions, Values
  <1> HIDE DEF new
  <1> QED  BY <1>1, <1>2, <1>6, <1>7, ParsedKeeps

LEMMA ExtKeyUsageKeeps == Inv /\ parse_ext_key_usage => Inv'
  <1> SUFFICES ASSUME Inv, parse_ext_key_usage PROVE Inv'
    OBVIOUS
  <1> DEFINE seq == parse_data_element(cert, DER_SEQUENCE, At(idx), end.item)
             whole == Require(seq, seq.end = end.item, "TRAILING_DATA")
  <1>1. /\ pc = "ext_key_usage" /\ Proceed(whole, "key_purpose")
        /\ UNCHANGED <<end, after, extn_oids, fields>>
    BY DEF parse_ext_key_usage
  <1>2. idx <= end.item /\ end.item <= end.list /\ end.item <= cert.size /\ pc \in InExtns
    BY <1>1, ItemBounds DEF ExtnPlaces
  <1>3. Reads(seq, At(idx), end.item)
    BY <1>2, Basics, ParseElement
  <1> HIDE DEF seq
  <1>4. /\ whole \in Place
        /\ Ok(whole) => idx <= whole.idx /\ whole.idx <= end.item /\ whole.idx <= end.list
    <2>1. whole \in Place /\ whole.idx = seq.idx /\ (Ok(whole) => Ok(seq))
      BY <1>3 DEF Reads, Require, Place, Ok, ParseCodes
    <2> HIDE DEF whole
    <2> QED  BY <1>2, <1>3, <2>1, Basics DEF Reads, Place
  <1> HIDE DEF whole
  <1>5. SameRegions /\ "key_purpose" \in (InExtns \ {"akid"}) \cup {"end_of_tbs"}
    BY <1>1 DEF SameRegions, InExtns, ExtnPlaces
  <1> QED  BY <1>1, <1>2, <1>4, <1>5, ExtnStepKeeps

LEMMA KeyPurposeKeeps == Inv /\ KeyPurpose => Inv'
  <1> SUFFICES ASSUME Inv, KeyPurpose PROVE Inv'
    OBVIOUS
  <1> DEFINE oid == parse_data_element(cert, DER_OID, At(idx), end.item)
             r == Past(oid)
             flags == fields.key_usage_flags \cup PurposeFlags(Bytes(oid.idx, oid.end))
             new == [fields EXCEPT !.key_usage_flags = flags]
  <1>1. /\ pc = "key_purpose" /\ Proceed(r, "key_purpose") /\ Store(oid, new)
        /\ UNCHANGED <<end, after, extn_oids>>
    BY DEF KeyPurpose
  <1>2. idx <= end.item /\ end.item <= end.list /\ end.item <= cert.size /\ pc \in InExtns
    BY <1>1, ItemBounds DEF ExtnPlaces
  <1> HIDE DEF flags
  <1>3. Reads(oid, At(idx), end.item)
    BY <1>2, Basics, ParseElement
  <1> HIDE DEF oid
  <1>4. r \in Place /\ (Ok(r) => idx <= r.idx /\ r.idx <= end.item /\ r.idx <= end.list)
    <2>1. r \in Place /\ (Ok(r) => Ok(oid) /\ r.idx = oid.end)
      BY <1>3, PastKeeps DEF Reads, Place, Ok, IDX_NONE
    <2> HIDE DEF r
    <2> QED  BY <1>2, <1>3, <2>1, Basics DEF Reads, Place
  <1> HIDE DEF r
  <1>5. SameRegions /\ "key_purpose" \in (InExtns \ {"akid"}) \cup {"end_of_tbs"}
    BY <1>1 DEF SameRegions, Store, InExtns, ExtnPlaces, Inv, TypeOK, Regions, Values
  <1> QED  BY <1>1, <1>2, <1>4, <1>5, ExtnStepKeeps

LEMMA KeyPurposesEndKeeps == Inv /\ KeyPurposesEnd => Inv' /\ Advance
  <1> SUFFICES ASSUME Inv, KeyPurposesEnd PROVE Inv' /\ Advance
    OBVIOUS
  <1> DEFINE new == [fields EXCEPT !.has_ext_key_usage = TRUE]
  <1>1. /\ pc = "key_purpose" /\ idx >= end.item
        /\ ExtnParsed(Require(At(idx), idx = end.item, "ASSERTION_FAILED"), new)
    BY DEF KeyPurposesEnd
  <1>2. idx <= end.item /\ pc \in ExtnPlaces
    BY <1>1, ItemBounds DEF ExtnPlaces
  <1>3. Require(At(idx), idx = end.item, "ASSERTION_FAILED") = At(idx)
    BY <1>1, <1>2, Basics DEF Require, At
  <1>4. DOMAIN new = DOMAIN fields /\ \A x \in Regions : new[x] = fields[x]
    BY DEF Inv, TypeOK, Regions, Values
  <1> HIDE DEF new
  <1> QED  BY <1>1, <1>2, <1>3, <1>4, Basics, ParsedKeeps

(***************************************************************************)
(* An extension that sets the region x, of its own bytes if at all.        *)
(***************************************************************************)
LEMMA IdentifierKeeps ==
    ASSUME Inv, NEW r \in Place, NEW x \in {"skid", "akid"}, NEW v, pc \in ExtnPlaces,
           ExtnParsed(r, [fields EXCEPT ![x] = v]),
           Ok(r) => \/ v = Region(IDX_NONE, IDX_NONE)
                    \/ v \in Extent /\ idx <= v.start /\ v.start <= v.end /\ v.end <= end.item,
           x = "skid" => pc = "skid", x = "akid" => Seen(AKID_OID)
    PROVE  Inv' /\ Advance
  <1> DEFINE l == Leave(r, end.item)
             new == [fields EXCEPT ![x] = v]
  <1>1. /\ Proceed(l, "extension") /\ UNCHANGED <<end, after, extn_oids>> /\ Store(r, new)
    BY DEF ExtnParsed
  <1>2. l \in Place /\ (Ok(l) <=> Ok(r)) /\ (Ok(l) => l.idx = end.item)
    BY LeaveKeeps, Basics DEF Ok
  <1> HIDE DEF l
  <1>3. /\ idx <= end.item /\ end.item <= end.list /\ pc \in InExtns
        /\ "extension" \in InExtns \cup {"end_of_tbs"} /\ "extension" \notin ExtnPlaces
    BY ItemBounds DEF InExtns, ExtnPlaces
  <1>4. TypedRest
    BY <1>1, Basics DEF TypedRest
  <1>5. /\ {x} \in SUBSET {"skid", "akid"} /\ x \in Regions /\ "pub_key" \in Regions \ {x}
    BY DEF Regions
  <1>6. /\ DOMAIN fields' = DOMAIN fields /\ \A y \in Regions \ {x} : fields'[y] = fields[y]
        /\ fields'[x] = IF Ok(l) THEN v ELSE fields[x]
    BY <1>1, <1>2, <1>5 DEF Store, Inv, TypeOK
  <1>7. Ok(l) => fields'[x] \in Extent
    BY <1>2, <1>6 DEF Extent, Region, IDX_NONE
  <1>8. \A y \in {x} : fields'[y] = fields[y] \/ fields'[y] \in Extent
    BY <1>6, <1>7
  <1>9. ASSUME Ok(l) PROVE ExtnsKnown'
    <2>1. /\ ExtnsKnown /\ KeyKnown /\ Reached = idx
      BY DEF Inv, Known, Since, KeyAt, DefaultsAt, ItemPlaces, ExtnPlaces, Reached
    <2>2. Reached' = end.item /\ fields'.pub_key = fields.pub_key
      BY <1>1, <1>2, <1>5, <1>6, <1>9 DEF Proceed, Reached
    <2>3. fields.pub_key.end <= idx /\ fields.pub_key.end \in Nat
      BY <2>1 DEF KeyKnown, Placed, Extent
    <2>4. SUFFICES ASSUME NEW y \in {"skid", "akid"}
                   PROVE  fields'[y] = Region(IDX_NONE, IDX_NONE) \/ Placed(y, fields.pub_key.end)'
      BY <2>2 DEF ExtnsKnown, Region, Placed
    <2>5. CASE y = x
      <3>1. fields'[y] = v
        BY <1>6, <1>9, <2>5
      <3>2. CASE v = Region(IDX_NONE, IDX_NONE)
        BY <3>1, <3>2
      <3>3. CASE v # Region(IDX_NONE, IDX_NONE)
        <4>1. v \in Extent /\ idx <= v.start /\ v.start <= v.end /\ v.end <= end.item
          BY <1>2, <1>9, <3>3
        <4>2. fields.pub_key.end <= v.start
          BY <2>3, <4>1, Basics DEF Extent
        <4> QED  BY <2>2, <3>1, <4>1, <4>2 DEF Placed
      <3> QED  BY <3>2, <3>3
    <2>6. CASE y # x
      <3>1. fields'[y] = fields[y]
        BY <1>6, <2>6 DEF Regions
      <3>2. CASE fields[y] = Region(IDX_NONE, IDX_NONE)
        BY <3>1, <3>2
      <3>3. CASE fields[y] # Region(IDX_NONE, IDX_NONE)
        <4>1. Placed(y, fields.pub_key.end)
          BY <2>1, <3>3 DEF ExtnsKnown
        <4>2. fields[y].end <= end.item
          BY <1>3, <2>1, <4>1, Basics DEF Placed, Extent
        <4> QED  BY <2>2, <3>1, <4>1, <4>2 DEF Placed
      <3> QED  BY <3>2, <3>3
    <2> QED  BY <2>5, <2>6
  <1>10. ASSUME Ok(l) PROVE Fresh'
    <2>1. pc' = "extension" /\ (Seen(AKID_OID)' <=> Seen(AKID_OID))
      BY <1>1, <1>10 DEF Proceed, Seen
    <2>2. CASE x = "akid"
      BY <2>1, <2>2 DEF Fresh
    <2>3. CASE x = "skid"
      <3>1. fields'.akid = fields.akid
        BY <1>6, <2>3 DEF Regions
      <3> QED  BY <1>3, <2>1, <2>3, <3>1 DEF Fresh, Inv, InExtns, Region
    <2> QED  BY <2>2, <2>3
  <1>11. Inv'
    BY <1>1, <1>2, <1>3, <1>4, <1>5, <1>6, <1>7, <1>8, <1>9, <1>10, ExtnKeeps
  <1> QED  BY <1>11, ParsedAdvances

LEMMA SkidKeeps == Inv /\ parse_skid => Inv' /\ Advance
  <1> SUFFICES ASSUME Inv, parse_skid PROVE Inv' /\ Advance
    OBVIOUS
  <1> DEFINE id == parse_data_element(cert, DER_OCTET_STRING, At(idx), end.item)
             whole == Require(id, id.end = end.item, "TRAILING_DATA")
             v == Region(id.idx, id.end)
  <1>1. pc = "skid" /\ ExtnParsed(whole, [fields EXCEPT !.skid = v])
    BY DEF parse_skid
  <1>2. idx <= end.item /\ end.item <= cert.size /\ pc \in ExtnPlaces
    BY <1>1, ItemBounds DEF ExtnPlaces
  <1>3. Reads(id, At(idx), end.item)
    BY <1>2, Basics, ParseElement
  <1> HIDE DEF id
  <1>4. whole \in Place /\ (Ok(whole) => Ok(id))
    BY <1>3 DEF Reads, Require, Place, Ok, ParseCodes
  <1> HIDE DEF whole
  <1>5. Ok(whole) => v \in Extent /\ idx <= v.start /\ v.start <= v.end /\ v.end <= end.item
    BY <1>3, <1>4, Basics DEF Reads, Place, Region, Extent
  <1> HIDE DEF v
  <1> QED  BY <1>1, <1>2, <1>4, <1>5, IdentifierKeeps

LEMMA AkidKeeps == Inv /\ parse_akid => Inv' /\ Advance
  <1> SUFFICES ASSUME Inv, parse_akid PROVE Inv' /\ Advance
    OBVIOUS
  <1> DEFINE seq == parse_data_element(cert, DER_SEQUENCE, At(idx), end.item)
             full == Require(seq, seq.end = end.item, "TRAILING_DATA")
             id == parse_optional_data(cert, DER_IMPLICIT_0, full, seq.end)
             issuer == parse_optional_data(cert, DER_CONSTRUCTED + DER_IMPLICIT_1, Past(id), seq.end)
             serial == parse_optional_data(cert, DER_IMPLICIT_2, Past(issuer), seq.end)
             whole == Require(serial, Past(serial).idx = end.item, "TRAILING_DATA")
             v == KeyIdentifier(fields.akid, id)
  <1>1. pc = "akid" /\ ExtnParsed(whole, [fields EXCEPT !.akid = v])
    BY DEF parse_akid
  <1>2. idx <= end.item /\ end.item <= cert.size /\ pc \in ExtnPlaces
    BY <1>1, ItemBounds DEF ExtnPlaces
  <1>3. Reads(seq, At(idx), end.item)
    BY <1>2, Basics, ParseElement
  <1> HIDE DEF seq
  <1>4. seq.end \in Nat /\ (Ok(seq) => seq.end <= cert.size /\ seq.end <= end.item)
    BY <1>2, <1>3, Basics DEF Reads, Place
  <1>5. full \in Place /\ full.idx = seq.idx /\ (Ok(full) => Ok(seq))
    BY <1>3 DEF Reads, Require, Place, Ok, ParseCodes
  <1> HIDE DEF full
  <1>6. Skips(id, full, seq.end)
    BY <1>4, <1>5, Basics, ParseOptional
  <1> HIDE DEF id
  <1>7. Past(id) \in Place /\ (Ok(Past(id)) => Ok(id) /\ Ok(seq))
    BY <1>5, <1>6, PastKeeps DEF Skips, Ok
  <1>8. Skips(issuer, Past(id), seq.end)
    BY <1>4, <1>7, Basics, ParseOptional
  <1> HIDE DEF issuer
  <1>9. Past(issuer) \in Place /\ (Ok(Past(issuer)) => Ok(id) /\ Ok(seq))
    BY <1>7, <1>8, PastKeeps DEF Skips, Ok
  <1>10. Skips(serial, Past(issuer), seq.end)
    BY <1>4, <1>9, Basics, ParseOptional
  <1> HIDE DEF serial
  <1>11. whole \in Place /\ (Ok(whole) => Ok(id) /\ Ok(seq))
    BY <1>9, <1>10 DEF Skips, Require, Place, Ok, ParseCodes
  <1> HIDE DEF whole
  <1>12. fields.akid = Region(IDX_NONE, IDX_NONE) /\ Seen(AKID_OID)
    BY <1>1, <1>2 DEF Inv, Fresh
  <1>13. Ok(whole) =>
            \/ v = Region(IDX_NONE, IDX_NONE)
            \/ v \in Extent /\ idx <= v.start /\ v.start <= v.end /\ v.end <= end.item
    BY <1>3, <1>4, <1>5, <1>6, <1>11, <1>12, Basics
       DEF Reads, Skips, Place, Region, Extent, KeyIdentifier, Present, IDX_NONE
  <1> HIDE DEF v
  <1> QED  BY <1>1, <1>2, <1>11, <1>12, <1>13, IdentifierKeeps

LEMMA ExtensionsKeeps == Inv /\ Extensions => Inv'
  <1> SUFFICES ASSUME Inv, Extensions PROVE Inv'
    OBVIOUS
  <1> DEFINE explicit == parse_optional_data(cert, DER_EXPLICIT_3, At(idx), end.tbs)
             seq == parse_data_element(cert, DER_SEQUENCE, explicit, explicit.end)
             whole == Require(seq, seq.end = explicit.end, "TRAILING_DATA")
             none == Ok(explicit) /\ ~Present(explicit)
             new == assign_default_extensions(fields)
  <1>1. /\ pc = "extensions" /\ Store(explicit, new) /\ UNCHANGED <<after, extn_oids>>
        /\ none => Proceed(explicit, "end_of_tbs") /\ UNCHANGED end
        /\ ~none => Proceed(whole, "extension") /\ end' = [end EXCEPT !.list = seq.end]
    BY DEF Extensions
  <1>2. /\ idx <= end.tbs /\ end.tbs <= cert.size /\ end.cert = cert.size /\ pc \in InTbs
        /\ "extension" \in InTbs /\ "end_of_tbs" \in InTbs /\ "extension" \in DefaultsAt
    BY <1>1, Bounds DEF InTbs, TbsPlaces, ListPlaces, DefaultsAt
  <1> DEFINE W == {"skid", "akid"}
  <1>3. /\ DOMAIN new = DOMAIN fields /\ \A x \in Regions \ W : new[x] = fields[x]
        /\ new.skid = Region(IDX_NONE, IDX_NONE) /\ new.akid = Region(IDX_NONE, IDX_NONE)
    BY DEF assign_default_extensions, Inv, TypeOK, Regions, Values
  <1>4. Region(IDX_NONE, IDX_NONE) \in Extent
    BY DEF Region, IDX_NONE, Extent
  <1>5. Skips(explicit, At(idx), end.tbs)
    BY <1>2, Basics, ParseOptional
  <1> HIDE DEF explicit, new
  <1>6. explicit.end \in Nat /\ (Ok(explicit) => explicit.end <= cert.size)
    BY <1>2, <1>5, Basics DEF Skips, Place, IDX_NONE
  <1>7. Reads(seq, explicit, explicit.end)
    BY <1>5, <1>6, Basics, ParseElement DEF Skips
  <1> HIDE DEF seq
  <1>8. whole \in Place /\ whole.idx = seq.idx /\ (Ok(whole) => Ok(seq))
    BY <1>7 DEF Reads, Require, Place, Ok, ParseCodes
  <1> HIDE DEF whole
  <1>9. TypedRest /\ end'.tbs = end.tbs /\ end'.cert = end.cert
    BY <1>1, <1>7, Basics DEF TypedRest, Ends, Reads, Place
  <1>10. /\ DOMAIN fields' = DOMAIN fields /\ \A x \in Regions \ W : fields'[x] = fields[x]
         /\ Ok(explicit) => \A x \in W : fields'[x] = Region(IDX_NONE, IDX_NONE)
         /\ \A x \in Regions : fields'[x] = fields[x] \/ fields'[x] \in Extent
    BY <1>1, <1>3, <1>4 DEF Store, Regions
  <1> DEFINE r == IF none THEN explicit ELSE whole
             next == IF none THEN "end_of_tbs" ELSE "extension"
  <1>11. r \in Place /\ Proceed(r, next)
    BY <1>1, <1>5, <1>8 DEF Skips
  <1>12. CASE ~Ok(r)
    <2> HIDE DEF r, next
    <2> QED  BY <1>9, <1>10, <1>11, <1>12, FailTyped
  <1>13. CASE Ok(r)
    <2>1. Ok(explicit) /\ idx <= r.idx /\ r.idx <= end.tbs
      BY <1>2, <1>5, <1>7, <1>8, <1>13, Basics DEF Skips, Reads, Place, Present, IDX_NONE
    <2>2. next = "extension" => r.idx <= end'.list /\ end'.list <= end.tbs
      <3>1. SUFFICES ASSUME ~none PROVE seq.idx <= seq.end /\ seq.end <= end.tbs /\ end'.list = seq.end
        BY <1>8
      <3> QED  BY <1>1, <1>2, <1>5, <1>7, <1>8, <1>13, <3>1, Basics
                  DEF Skips, Reads, Place, Ends, IDX_NONE
    <2>3. pc' = next /\ idx' = r.idx /\ cert' = cert
      BY <1>11, <1>13 DEF Proceed
    <2> HIDE DEF r
    <2>4. Nested'
      <3>1. r.idx <= cert.size
        BY <1>2, <1>11, <2>1, Basics DEF Place
      <3> QED  BY <1>2, <1>9, <2>1, <2>2, <2>3, <3>1 DEF Nested, ItemPlaces, ListPlaces
    <2>5. Fresh' /\ ExtnsKnown'
      BY <1>10, <2>1, <2>3 DEF Fresh, ExtnsKnown, Region
    <2>6. /\ W \in SUBSET (Regions \ {"signed_data"}) /\ \A x \in W : fields'[x] \in Extent
          /\ "cert_serial" \notin W /\ W \cap {"cert_serial", "sig_id", "sig_oid"} = {}
          /\ W \cap {"sig_id", "pub_key_id", "pub_key_oid"} = {}
          /\ W \cap {"pub_key_id", "pub_key"} = {}
          /\ next \in InTbs
      BY <1>2, <1>4, <1>10, <2>1 DEF Regions
    <2>7. pc \in SerialAt /\ pc \in SigIdAt /\ pc \in KeyIdAt /\ pc \in KeyAt
      BY <1>1 DEF SerialAt, SigIdAt, KeyIdAt, KeyAt
    <2> HIDE DEF next, W
    <2> QED  BY <1>2, <1>9, <1>10, <1>11, <1>13, <2>1, <2>3, <2>4, <2>5, <2>6, <2>7, WriteKeeps
  <1> QED  BY <1>12, <1>13

LEMMA CheckExtnKeeps ==
    ASSUME NEW value \in Place, NEW seq_end, NEW oid, NEW critical
    PROVE  LET known == CheckExtn(value, seq_end, oid, critical)
           IN  /\ known \in Place /\ known.idx = value.idx /\ known.end = value.end
               /\ Ok(known) => Ok(value) /\ ~Seen(oid)
  <1> DEFINE whole == Require(value, value.end = seq_end, "TRAILING_DATA")
             new == Require(whole, ~Seen(oid), "DUPLICATE_EXTNS")
             apt == Require(new, AsMandated(oid, critical), "INVALID_CRITICALITY")
             known == Require(apt, critical => Supported(oid), "UNRECOGNIZED_CRITICAL_EXTN")
  <1>1. whole \in Place /\ whole.idx = value.idx /\ whole.end = value.end
        /\ (Ok(whole) => Ok(value))
    BY DEF Require, Place, Ok, ParseCodes
  <1> HIDE DEF whole
  <1>2. new \in Place /\ new.idx = value.idx /\ new.end = value.end
        /\ (Ok(new) => Ok(value) /\ ~Seen(oid))
    BY <1>1 DEF Require, Place, Ok, ParseCodes
  <1> HIDE DEF new
  <1>3. apt \in Place /\ apt.idx = value.idx /\ apt.end = value.end
        /\ (Ok(apt) => Ok(value) /\ ~Seen(oid))
    BY <1>2 DEF Require, Place, Ok, ParseCodes
  <1> HIDE DEF apt
  <1>4. known \in Place /\ known.idx = value.idx /\ known.end = value.end
        /\ (Ok(known) => Ok(value) /\ ~Seen(oid))
    BY <1>3 DEF Require, Place, Ok, ParseCodes
  <1>5. CheckExtn(value, seq_end, oid, critical) = known
    BY DEF CheckExtn, whole, new, apt
  <1> QED  BY <1>4, <1>5

LEMMA ParseExtn ==
    ASSUME NEW oid, Supported(oid)
    PROVE  /\ parse_extn(oid) \in ExtnPlaces
           /\ parse_extn(oid) = "akid" => oid = AKID_OID
  <1> DEFINE e == CHOOSE x \in SupportedExtns : x.oid = oid
  <1>1. e \in SupportedExtns /\ e.oid = oid
    BY DEF Supported
  <1>2. parse_extn(oid) = e.parse
    BY DEF parse_extn
  <1> HIDE DEF e
  <1>3. \A x \in SupportedExtns :
            x.parse \in ExtnPlaces /\ (x.parse = "akid" => x.oid = AKID_OID)
    <2> SUFFICES ASSUME NEW x \in SupportedExtns
                 PROVE  x.parse \in ExtnPlaces /\ (x.parse = "akid" => x.oid = AKID_OID)
      OBVIOUS
    <2>1. CASE x = [oid |-> <<85, 29, 35>>, critical |-> {FALSE}, parse |-> "akid"]
      BY <2>1 DEF ExtnPlaces, AKID_OID
    <2>2. CASE x = [oid |-> <<85, 29, 19>>, critical |-> {TRUE}, parse |-> "basic_constraint"]
      BY <2>2 DEF ExtnPlaces
    <2>3. CASE x = [oid |-> <<85, 29, 14>>, critical |-> {FALSE}, parse |-> "skid"]
      BY <2>3 DEF ExtnPlaces
    <2>4. CASE x = [oid |-> <<85, 29, 15>>, critical |-> {FALSE, TRUE}, parse |-> "key_usage"]
      BY <2>4 DEF ExtnPlaces
    <2>5. CASE x = [oid |-> <<85, 29, 37>>, critical |-> {FALSE, TRUE}, parse |-> "ext_key_usage"]
      BY <2>5 DEF ExtnPlaces
    <2> QED  BY <2>1, <2>2, <2>3, <2>4, <2>5, Zenon DEF SupportedExtns
  <1> QED  BY <1>1, <1>2, <1>3

LEMMA BytesOfFile ==
    ASSUME Inv, NEW i \in Nat, NEW j \in Nat, j <= cert.size
    PROVE  Bytes(i, j) \in Seq(Byte)
  <1>1. \A k \in 1 .. j - i : cert.byte[i + k - 1] \in Byte
    <2> SUFFICES ASSUME NEW k \in 1 .. j - i PROVE cert.byte[i + k - 1] \in Byte
      OBVIOUS
    <2>1. cert.byte \in [0 .. cert.size - 1 -> Byte]
      BY Basics DEF IsFile
    <2>2. i + k - 1 \in 0 .. cert.size - 1
      BY Basics
    <2> QED  BY <2>1, <2>2
  <1>2. CASE i <= j
    <2>1. j - i \in Nat
      BY <1>2
    <2>2. Bytes(i, j) \in [1 .. j - i -> Byte]
      BY <1>1 DEF Bytes
    <2> QED  BY <2>1, <2>2
  <1>3. CASE j < i
    <2>1. 1 .. j - i = 1 .. 0
      BY <1>3
    <2>2. Bytes(i, j) \in [1 .. 0 -> Byte]
      BY <1>1, <2>1 DEF Bytes
    <2> QED  BY <2>2
  <1> QED  BY <1>2, <1>3

(***************************************************************************)
(* The header of an extension: what it is, that it is new, and where its   *)
(* value is.                                                               *)
(***************************************************************************)
LEMMA ExtensionReads ==
    ASSUME Inv, Extension
    PROVE  /\ pc = "extension" /\ UNCHANGED <<after, fields>> /\ TypedRest
           /\ end'.tbs = end.tbs /\ end'.cert = end.cert /\ end'.list = end.list
           /\ \E r, next, oid :
                 /\ r \in Place /\ next \in InExtns /\ Proceed(r, next)
                 /\ Ok(r) => /\ idx < r.idx /\ r.idx <= end.list
                             /\ ~Seen(oid) /\ oid \in Seq(Byte)
                             /\ extn_oids' = Append(extn_oids, oid)
                 /\ next # "extension" => Supported(oid) /\ next = parse_extn(oid)
                 /\ Ok(r) /\ next \in ExtnPlaces => r.idx <= end'.item /\ end'.item <= end.list
  <1> DEFINE room == Require(At(idx), Room, "EXCEEDS_MAX_EXTNS")
             seq == parse_data_element(cert, DER_SEQUENCE, room, end.list)
             extnID == parse_data_element(cert, DER_OID, seq, seq.end)
             crit == parse_default_bool(cert, Past(extnID), seq.end)
             value == parse_data_element(cert, DER_OCTET_STRING, crit, seq.end)
             oid == Bytes(extnID.idx, extnID.end)
             known == CheckExtn(value, seq.end, oid, Present(crit))
             sup == Ok(known) /\ Supported(oid)
  <1>1. /\ pc = "extension" /\ UNCHANGED <<after, fields>>
        /\ sup => Proceed(known, parse_extn(oid))
        /\ ~sup => Proceed(Past(known), "extension")
        /\ end' = [end EXCEPT !.item = value.end]
        /\ extn_oids' = IF Ok(known) THEN Append(extn_oids, oid) ELSE extn_oids
    <2> DEFINE Then(v, o, k) ==
                   /\ IF Ok(k) /\ Supported(o) THEN Proceed(k, parse_extn(o))
                                               ELSE Proceed(Past(k), "extension")
                   /\ end' = [end EXCEPT !.item = v.end]
                   /\ extn_oids' = IF Ok(k) THEN Append(extn_oids, o) ELSE extn_oids
    <2>1. \E r \in {Require(At(idx), Room, "EXCEEDS_MAX_EXTNS")} :
          \E s \in {parse_data_element(cert, DER_SEQUENCE, r, end.list)} :
          \E x \in {parse_data_element(cert, DER_OID, s, s.end)} :
          \E c \in {parse_default_bool(cert, Past(x), s.end)} :
          \E v \in {parse_data_element(cert, DER_OCTET_STRING, c, s.end)} :
          \E o \in {Bytes(x.idx, x.end)} :
          \E k \in {CheckExtn(v, s.end, o, Present(c))} : Then(v, o, k)
      BY DEF Extension
    <2>2. Then(value, oid, known)
      <3> HIDE DEF Then
      <3>1. known = CheckExtn(value, seq.end, oid, Present(crit))
        OBVIOUS
      <3> HIDE DEF known
      <3>2. oid = Bytes(extnID.idx, extnID.end)
        OBVIOUS
      <3> HIDE DEF oid
      <3>3. value = parse_data_element(cert, DER_OCTET_STRING, crit, seq.end)
        OBVIOUS
      <3> HIDE DEF value
      <3>4. crit = parse_default_bool(cert, Past(extnID), seq.end)
        OBVIOUS
      <3> HIDE DEF crit
      <3>5. extnID = parse_data_element(cert, DER_OID, seq, seq.end)
        OBVIOUS
      <3> HIDE DEF extnID
      <3>6. seq = parse_data_element(cert, DER_SEQUENCE, room, end.list)
        OBVIOUS
      <3> HIDE DEF seq
      <3>7. room = Require(At(idx), Room, "EXCEEDS_MAX_EXTNS")
        OBVIOUS
      <3> HIDE DEF room
      <3> QED  BY <2>1, <3>1, <3>2, <3>3, <3>4, <3>5, <3>6, <3>7
    <2>3. pc = "extension" /\ UNCHANGED <<after, fields>>
      BY DEF Extension
    <2> QED  BY <2>2, <2>3
  <1>2. idx <= end.list /\ end.list <= end.tbs /\ end.list <= cert.size /\ pc \in InExtns
    BY <1>1, Bounds, Basics DEF InTbs, ListPlaces, InExtns
  <1>3. room \in Place /\ room.idx = idx /\ (Ok(room) => Room)
    BY Basics DEF Require, Place, Ok, ParseCodes
  <1> HIDE DEF room
  <1>4. Reads(seq, room, end.list)
    BY <1>2, <1>3, Basics, ParseElement
  <1> HIDE DEF seq
  <1>5. seq.end \in Nat /\ (Ok(seq) => seq.end <= cert.size /\ Room)
    BY <1>2, <1>3, <1>4, Basics DEF Reads, Place
  <1>6. Reads(extnID, seq, seq.end)
    BY <1>4, <1>5, Basics, ParseElement DEF Reads
  <1> HIDE DEF extnID
  <1>7. /\ Past(extnID) \in Place
        /\ Ok(Past(extnID)) => Ok(extnID) /\ Ok(seq) /\ idx <= Past(extnID).idx
    <2>1. /\ Past(extnID) \in Place
          /\ Ok(Past(extnID)) => Ok(extnID) /\ Past(extnID).idx = extnID.end
      BY <1>6, PastKeeps DEF Reads, Place, Ok, IDX_NONE
    <2>2. Ok(extnID) => Ok(seq) /\ idx < extnID.end
      BY <1>3, <1>4, <1>6, Basics DEF Reads, Place
    <2> QED  BY <1>6, <2>1, <2>2, Basics DEF Reads, Place
  <1>8. Skips(crit, Past(extnID), seq.end)
    BY <1>5, <1>7, Basics, ParseBool
  <1> HIDE DEF crit
  <1>9. crit \in Place /\ (Ok(crit) => Ok(extnID) /\ Ok(seq) /\ idx <= crit.idx)
    BY <1>7, <1>8, Basics DEF Skips, Place
  <1>10. Reads(value, crit, seq.end)
    BY <1>5, <1>9, Basics, ParseElement
  <1> HIDE DEF value, oid
  <1>11. /\ known \in Place /\ known.idx = value.idx /\ known.end = value.end
         /\ Ok(known) => Ok(value) /\ ~Seen(oid)
    BY <1>10, CheckExtnKeeps DEF Reads
  <1> HIDE DEF known
  <1>12. Ok(known) => /\ idx < known.idx /\ known.idx <= known.end /\ known.end <= end.list
                      /\ known.idx <= end.list /\ idx < known.end
                      /\ Ok(extnID) /\ Ok(seq) /\ known.end # 0
    <2>1. Ok(known) => /\ Ok(crit) /\ Ok(extnID) /\ Ok(seq) /\ idx <= crit.idx
                       /\ crit.idx < value.idx /\ value.idx <= value.end /\ value.end <= seq.end
                       /\ seq.end <= end.list
      BY <1>4, <1>9, <1>10, <1>11 DEF Reads
    <2> QED  BY <1>5, <1>9, <1>10, <1>11, <2>1, Basics DEF Reads, Place
  <1>13. Ok(known) => oid \in Seq(Byte)
    <2>1. Ok(known) => extnID.end <= cert.size
      BY <1>5, <1>6, <1>12, Basics DEF Reads, Place
    <2> QED  BY <1>6, <2>1, BytesOfFile DEF Reads, Place, oid
  <1>14. TypedRest /\ end'.item = value.end
         /\ end'.tbs = end.tbs /\ end'.cert = end.cert /\ end'.list = end.list
    <2>1. Ok(known) => Len(extn_oids) < MaxExtn
      BY <1>5, <1>12 DEF Room
    <2>2. extn_oids' \in Seq(Seq(Byte)) /\ Len(extn_oids') <= MaxExtn
      BY <1>1, <1>13, <2>1, Basics, X509Assumption
    <2> QED  BY <1>1, <1>10, <2>2, Basics DEF TypedRest, Ends, Reads, Place
  <1> DEFINE r == IF sup THEN known ELSE Past(known)
             next == IF sup THEN parse_extn(oid) ELSE "extension"
  <1>15. /\ r \in Place /\ Proceed(r, next) /\ (Ok(r) <=> Ok(known))
         /\ Ok(r) => idx < r.idx /\ r.idx <= end.list
         /\ Ok(r) /\ next \in ExtnPlaces => r.idx <= end'.item /\ end'.item <= end.list
         /\ next \in InExtns /\ (next # "extension" => Supported(oid) /\ next = parse_extn(oid))
    <2>1. CASE sup
      BY <1>1, <1>11, <1>12, <1>14, <2>1, ParseExtn DEF InExtns
    <2>2. CASE ~sup
      <3>1. /\ Past(known) \in Place /\ (Ok(Past(known)) <=> Ok(known))
            /\ Ok(known) => Past(known).idx = known.end
        BY <1>11, <1>12, PastKeeps DEF Ok, IDX_NONE
      <3> QED  BY <1>1, <1>12, <2>2, <3>1 DEF InExtns, ExtnPlaces
    <2> QED  BY <2>1, <2>2
  <1>16. Ok(r) => /\ ~Seen(oid) /\ oid \in Seq(Byte)
                  /\ extn_oids' = Append(extn_oids, oid)
    BY <1>1, <1>11, <1>13, <1>15
  <1>17. pc = "extension" /\ UNCHANGED <<after, fields>>
    BY <1>1
  <1> HIDE DEF r, next
  <1> QED  BY <1>14, <1>15, <1>16, <1>17

(***************************************************************************)
(* An extension once seen stays seen.                                      *)
(***************************************************************************)
LEMMA SeenGrows ==
    ASSUME Inv, NEW oid \in Seq(Byte), extn_oids' = Append(extn_oids, oid)
    PROVE  \A x : Seen(x)' <=> Seen(x) \/ x = oid
  <1>1. /\ Len(extn_oids) \in Nat /\ DOMAIN extn_oids = 1 .. Len(extn_oids)
        /\ DOMAIN extn_oids' = 1 .. Len(extn_oids) + 1
        /\ extn_oids'[Len(extn_oids) + 1] = oid
        /\ \A k \in 1 .. Len(extn_oids) : extn_oids'[k] = extn_oids[k]
    BY Basics
  <1>2. /\ Len(extn_oids) + 1 \in DOMAIN extn_oids' /\ DOMAIN extn_oids \subseteq DOMAIN extn_oids'
        /\ \A k \in DOMAIN extn_oids' : k \in DOMAIN extn_oids \/ k = Len(extn_oids) + 1
    BY <1>1
  <1> QED  BY <1>1, <1>2 DEF Seen

LEMMA ExtensionKeeps == Inv /\ Extension => Inv'
  <1> SUFFICES ASSUME Inv, Extension PROVE Inv'
    OBVIOUS
  <1>1. /\ pc = "extension" /\ UNCHANGED <<after, fields>> /\ TypedRest
        /\ end'.tbs = end.tbs /\ end'.cert = end.cert /\ end'.list = end.list
    BY ExtensionReads
  <1>2. PICK r, next, oid :
            /\ r \in Place /\ next \in InExtns /\ Proceed(r, next)
            /\ Ok(r) => /\ idx < r.idx /\ r.idx <= end.list
                        /\ ~Seen(oid) /\ oid \in Seq(Byte)
                        /\ extn_oids' = Append(extn_oids, oid)
            /\ next # "extension" => Supported(oid) /\ next = parse_extn(oid)
            /\ Ok(r) /\ next \in ExtnPlaces => r.idx <= end'.item /\ end'.item <= end.list
    BY ExtensionReads
  <1>3. Ok(r) => Fresh'
    <2> SUFFICES ASSUME Ok(r) PROVE Fresh'
      OBVIOUS
    <2>1. pc' = next
      BY <1>2 DEF Proceed
    <2>2. next = "akid" => oid = AKID_OID
      BY <1>2, ParseExtn
    <2>3. Seen(AKID_OID)' <=> Seen(AKID_OID) \/ AKID_OID = oid
      BY <1>2, SeenGrows
    <2>4. ~Seen(AKID_OID) => fields.akid = Region(IDX_NONE, IDX_NONE)
      BY <1>1 DEF Inv, Fresh
    <2>5. oid = AKID_OID => ~Seen(AKID_OID)
      BY <1>2
    <2> QED  BY <1>1, <2>1, <2>2, <2>3, <2>4, <2>5 DEF Fresh, Region
  <1>4. /\ DOMAIN fields' = DOMAIN fields /\ {} \in SUBSET {"skid", "akid"}
        /\ \A x \in Regions : fields'[x] = fields[x]
        /\ pc \in InExtns /\ next \in InExtns \cup {"end_of_tbs"}
    BY <1>1, <1>2 DEF InExtns
  <1>5. Ok(r) => idx <= r.idx /\ r.idx <= end.list
    BY <1>2, Basics DEF Place
  <1> QED  BY <1>1, <1>2, <1>3, <1>4, <1>5, ExtnKeeps

-----------------------------------------------------------------------------

LEMMA NextInv == Inv /\ [Next]_vars => Inv'
  <1> SUFFICES ASSUME Inv, [Next]_vars PROVE Inv'
    OBVIOUS
  <1>1. CASE UNCHANGED vars
    BY <1>1 DEF vars, Inv, TypeOK, Nested, ParserAssertionsHold, Known, Fresh, Seen, Since, Parsed,
                SignedKnown, SerialKnown, SigIdKnown, KeyIdKnown, KeyKnown, ExtnsKnown, SigKnown,
                Placed, Reached
  <1>2. CASE Next
    BY <1>2, CertificateKeeps, TBSCertificateKeeps, VersionKeeps, SerialNumberKeeps, SignatureKeeps,
       ListsKeep, RelativeNameKeeps, AttributeKeeps, NameEndsKeeps, TimesKeep, AlgorithmKeeps,
       SubjectPublicKeyKeeps, UniqueIDsKeeps, ExtensionsKeeps, ExtensionKeeps, ExtensionsEndKeeps,
       BasicConstraintKeeps, AkidKeeps, SkidKeeps, KeyUsageKeeps, ExtKeyUsageKeeps, KeyPurposeKeeps,
       KeyPurposesEndKeeps, SignatureAlgorithmKeeps, SignatureValueKeeps
       DEF Next
  <1> QED  BY <1>1, <1>2

LEMMA Invariant == Spec => []Inv
  BY InitInv, NextInv, PTL DEF Spec

(***************************************************************************)
(* In every file the parser keeps to its types; the list of the extensions *)
(* seen never outgrows its MAX_EXTN entries (x509.c:847).                  *)
(***************************************************************************)
THEOREM TypeCorrect == Spec => []TypeOK
  <1>1. Inv => TypeOK
    BY DEF Inv
  <1> QED  BY <1>1, Invariant, PTL

(***************************************************************************)
(* Whatever lengths a file of whatever size claims, the parser stays in    *)
(* the element that it is in, and that in its parents: it reads no byte    *)
(* outside the file.                                                       *)
(***************************************************************************)
THEOREM ElementsAreNested == Spec => []Nested
  <1>1. Inv => Nested
    BY DEF Inv
  <1> QED  BY <1>1, Invariant, PTL

(***************************************************************************)
(* No file makes an assertion of parse_x509 fail (x509.c:428, :641, :643,  *)
(* :929).                                                                  *)
(***************************************************************************)
THEOREM NoAssertionFails == Spec => []ParserAssertionsHold
  <1>1. Inv => ParserAssertionsHold
    BY DEF Inv
  <1> QED  BY <1>1, Invariant, PTL

(***************************************************************************)
(* All that parse_x509 hands the server to judge a certificate by was      *)
(* under the signature, in the order of the standard; the signature itself *)
(* is the end of the file.                                                 *)
(***************************************************************************)
THEOREM JudgedBySignedData == Spec => []FieldsAreSigned
  BY InvImpliesSigned, Invariant, PTL

-----------------------------------------------------------------------------
(* Every step takes some of the file or goes to a later stage. *)

(***************************************************************************)
(* The parser opens the element at idx, or passes over it.                 *)
(***************************************************************************)
LEMMA TakeAdvances ==
    ASSUME Inv, NEW e, NEW p, Reads(e, At(idx), p), NEW r \in Place, NEW next, Proceed(r, next),
           Ok(r) => Ok(e) /\ r.idx \in {e.idx, e.end}
    PROVE  Advance
  <1>1. Ok(e) => idx < e.idx /\ idx < e.end
    BY Basics DEF Reads, Place
  <1> QED  BY <1>1, Basics, ProceedAdvances DEF Reads, Place

LEMMA HeadersAdvance ==
    ASSUME Inv, Certificate \/ TBSCertificate \/ SerialNumber \/ RelativeName
    PROVE  Advance
  <1>1. CASE Certificate
    <2> DEFINE seq == parse_data_element(cert, DER_SEQUENCE, At(idx), cert.size)
               whole == Require(seq, seq.end = cert.size, "TRAILING_DATA")
    <2>1. Proceed(whole, "tbs_certificate")
      BY <1>1 DEF Certificate
    <2>2. Reads(seq, At(idx), cert.size)
      BY Basics, ParseElement
    <2> HIDE DEF seq
    <2>3. whole \in Place /\ (Ok(whole) => Ok(seq) /\ whole.idx = seq.idx)
      BY <2>2 DEF Reads, Require, Place, Ok, ParseCodes
    <2> HIDE DEF whole
    <2> QED  BY <2>1, <2>2, <2>3, TakeAdvances
  <1>2. CASE TBSCertificate
    <2> DEFINE seq == parse_data_element(cert, DER_SEQUENCE, At(idx), end.cert)
    <2>1. pc = "tbs_certificate" /\ Proceed(seq, "version")
      BY <1>2 DEF TBSCertificate
    <2>2. Reads(seq, At(idx), end.cert)
      BY <2>1, Basics, Bounds, ParseElement DEF CertPlaces
    <2> HIDE DEF seq
    <2> QED  BY <2>1, <2>2, TakeAdvances DEF Reads
  <1>3. CASE SerialNumber
    <2> DEFINE serial == parse_data_element(cert, DER_INTEGER, At(idx), end.tbs)
    <2>1. pc = "serial_number" /\ Proceed(Past(serial), "signature")
      BY <1>3 DEF SerialNumber
    <2>2. Reads(serial, At(idx), end.tbs)
      BY <2>1, Basics, Bounds, ParseElement DEF InTbs, TbsPlaces
    <2> HIDE DEF serial
    <2>3. Past(serial) \in Place /\ (Ok(Past(serial)) => Ok(serial) /\ Past(serial).idx \in {serial.idx, serial.end})
      BY <2>2, PastKeeps DEF Reads, Ok
    <2> QED  BY <2>1, <2>2, <2>3, TakeAdvances
  <1>4. CASE RelativeName
    <2> DEFINE set == parse_data_element(cert, DER_SET, At(idx), end.list)
    <2>1. pc = "relative_name" /\ Proceed(set, "attribute")
      BY <1>4 DEF RelativeName
    <2>2. Reads(set, At(idx), end.list)
      <3>1. end.list <= cert.size
        BY <2>1, Basics, Bounds DEF InTbs, ListPlaces
      <3> QED  BY <3>1, Basics, ParseElement
    <2> HIDE DEF set
    <2> QED  BY <2>1, <2>2, TakeAdvances DEF Reads
  <1> QED  BY <1>1, <1>2, <1>3, <1>4

(***************************************************************************)
(* Version: an element within an element.                                  *)
(***************************************************************************)
LEMMA VersionAdvances ==
    ASSUME Inv, Version PROVE Advance
  <1> DEFINE explicit == parse_data_element(cert, DER_EXPLICIT_0, At(idx), end.tbs)
             version == parse_data_element(cert, DER_INTEGER, explicit, explicit.end)
             accepted == Require(version, version.end - version.idx = 1 /\ cert.byte[version.idx] = 2,
                                 "INVALID_VERSION")
             whole == Require(accepted, version.end = explicit.end, "TRAILING_DATA")
             r == Past(whole)
  <1>1. pc = "version" /\ Proceed(r, "serial_number")
    BY DEF Version
  <1>2. idx <= end.tbs /\ end.tbs <= cert.size
    BY <1>1, Bounds DEF InTbs, TbsPlaces
  <1>3. Reads(explicit, At(idx), end.tbs)
    BY <1>2, Basics, ParseElement
  <1> HIDE DEF explicit
  <1>4. Reads(version, explicit, explicit.end)
    BY <1>2, <1>3, Basics, ParseElement DEF Reads, Place
  <1> HIDE DEF version
  <1>5. whole \in Place /\ whole.idx = version.idx /\ whole.end = version.end
        /\ (Ok(whole) => Ok(version))
    BY <1>4 DEF Reads, Require, Place, Ok, ParseCodes
  <1> HIDE DEF whole
  <1>6. Ok(r) => r.idx > idx
    <2>1. Ok(r) => Ok(version) /\ r.idx \in {version.idx, version.end}
      BY <1>5, PastKeeps DEF Ok
    <2> HIDE DEF r
    <2>2. Ok(version) => idx < version.idx /\ idx < version.end
      BY <1>3, <1>4, Basics DEF Reads, Place
    <2> QED  BY <1>4, <2>1, <2>2, Basics DEF Reads, Place
  <1> HIDE DEF r
  <1> QED  BY <1>1, <1>6, ProceedAdvances

LEMMA ListsAdvance ==
    ASSUME Inv, Issuer \/ Subject \/ Validity \/ SubjectPublicKeyInfo
    PROVE  Advance
  <1> DEFINE seq == parse_data_element(cert, DER_SEQUENCE, At(idx), end.tbs)
  <1>1. pc \in TbsPlaces /\ \E next : Proceed(seq, next)
    BY DEF Issuer, Subject, Validity, SubjectPublicKeyInfo, parse_name, TbsPlaces
  <1>2. Reads(seq, At(idx), end.tbs)
    BY <1>1, Basics, Bounds, ParseElement DEF InTbs
  <1> HIDE DEF seq
  <1> QED  BY <1>1, <1>2, TakeAdvances DEF Reads

LEMMA AttributeAdvances ==
    ASSUME Inv, Attribute PROVE Advance
  <1> DEFINE seq == parse_data_element(cert, DER_SEQUENCE, At(idx), end.item)
             type == parse_data_element(cert, DER_OID, seq, seq.end)
             value == parse_any(cert, Past(type), seq.end)
             full == Require(value, value.end = seq.end, "TRAILING_DATA")
             whole == Past(full)
             again == seq.end < end.item
             r == Require(whole, again \/ whole.idx = end.item, "ASSERTION_FAILED")
  <1>1. pc = "attribute" /\ Proceed(r, IF again THEN "attribute" ELSE "relative_name")
    BY DEF Attribute
  <1>2. end.item <= cert.size
    BY <1>1, Bounds, Basics DEF InTbs, ItemPlaces
  <1>3. Reads(seq, At(idx), end.item)
    BY <1>2, Basics, ParseElement
  <1> HIDE DEF seq
  <1>4. Reads(type, seq, seq.end)
    BY <1>2, <1>3, Basics, ParseElement DEF Reads, Place
  <1> HIDE DEF type
  <1>5. Past(type) \in Place /\ (Ok(Past(type)) => Ok(type) /\ Past(type).idx = type.end)
    BY <1>4, PastKeeps DEF Reads, Place, Ok, IDX_NONE
  <1>6. Reads(value, Past(type), seq.end)
    <2>1. seq.end \in Nat /\ (Ok(Past(type)) => seq.end <= cert.size)
      BY <1>2, <1>3, <1>4, <1>5, Basics DEF Reads, Place
    <2> QED  BY <1>5, <2>1, Basics, ParseAny
  <1> HIDE DEF value
  <1>7. /\ full \in Place /\ full.end = value.end
        /\ Ok(full) => Ok(value) /\ value.end = seq.end
    BY <1>6 DEF Reads, Require, Place, Ok, ParseCodes
  <1> HIDE DEF full
  <1>8. whole \in Place /\ (Ok(whole) => whole.idx > idx)
    <2>1. Ok(value) => Ok(seq) /\ idx < seq.end /\ seq.end # 0
      BY <1>3, <1>4, <1>5, <1>6, Basics DEF Reads, Place
    <2>2. whole \in Place /\ (Ok(whole) => Ok(value) /\ whole.idx = seq.end)
      BY <1>7, <2>1, PastKeeps DEF Ok, IDX_NONE
    <2> HIDE DEF whole
    <2> QED  BY <1>3, <2>1, <2>2, Basics DEF Reads, Place
  <1> HIDE DEF whole
  <1>9. Ok(r) => r.idx > idx
    BY <1>8 DEF Require, Place, Ok
  <1> HIDE DEF r
  <1> QED  BY <1>1, <1>9, ProceedAdvances

(***************************************************************************)
(* The end of a list is found without reading, but leads on.               *)
(***************************************************************************)
LEMMA EndsAdvance ==
    ASSUME Inv, NameEnds \/ ExtensionsEnd PROVE Advance
  <1>1. CASE NameEnds
    <2> DEFINE r == Require(At(idx), idx = end.list, "ASSERTION_FAILED")
    <2>1. pc = "relative_name" /\ Proceed(r, after)
      BY <1>1 DEF NameEnds
    <2>2. Ok(r) => r.idx = idx
      BY Basics DEF Require, Ok
    <2>3. Stage(after) > Stage(pc)
      BY <2>1, Basics DEF Stage
    <2> HIDE DEF r
    <2> QED  BY <2>1, <2>2, <2>3, ProceedAdvances
  <1>2. CASE ExtensionsEnd
    <2> DEFINE r == Require(At(idx), idx = end.list, "ASSERTION_FAILED")
    <2>1. pc = "extension" /\ Proceed(r, "end_of_tbs")
      BY <1>2 DEF ExtensionsEnd
    <2>2. Ok(r) => r.idx = idx
      BY Basics DEF Require, Ok
    <2>3. Stage("end_of_tbs") > Stage(pc)
      BY <2>1 DEF Stage
    <2> HIDE DEF r
    <2> QED  BY <2>1, <2>2, <2>3, ProceedAdvances
  <1> QED  BY <1>1, <1>2

LEMMA TimeAdvances ==
    ASSUME Inv, NEW member, NEW next, pc \in ListPlaces, parse_time(member, next)
    PROVE  Advance
  <1> DEFINE utc == parse_optional_data(cert, DER_UTCTIME, At(idx), end.list)
             gen == parse_data_element(cert, DER_GENERALIZEDTIME, utc, end.list)
             time == IF Present(utc) THEN utc ELSE gen
             whole == CheckTime(time, ~Present(utc), member)
             r == Past(whole)
  <1>1. Proceed(r, next)
    BY DEF parse_time
  <1>2. end.list <= cert.size
    BY Bounds, Basics DEF InTbs
  <1>3. Skips(utc, At(idx), end.list)
    BY <1>2, Basics, ParseOptional
  <1> HIDE DEF utc
  <1>4. Reads(gen, utc, end.list)
    BY <1>2, <1>3, Basics, ParseElement DEF Skips
  <1> HIDE DEF gen
  <1>5. time \in Place /\ (Ok(time) => idx < time.idx /\ time.idx <= time.end)
    BY <1>3, <1>4, Basics DEF Skips, Reads, Place, Present, IDX_NONE
  <1> HIDE DEF time
  <1>6. whole \in Place /\ whole.end = time.end /\ (Ok(whole) => Ok(time))
    BY <1>5, CheckTimeKeeps
  <1> HIDE DEF whole
  <1>7. Ok(r) => r.idx = time.end /\ Ok(time)
    BY <1>5, <1>6, PastKeeps, Basics DEF Place, Ok, IDX_NONE
  <1>8. Ok(r) => r.idx > idx
    BY <1>5, <1>7, Basics DEF Place
  <1> HIDE DEF r
  <1> QED  BY <1>1, <1>8, ProceedAdvances

LEMMA KeysAdvance ==
    ASSUME Inv, Signature \/ Algorithm \/ SubjectPublicKey \/ SignatureValue
    PROVE  Advance
  <1>1. /\ "sig_id" \in Regions /\ "sig_oid" \in Regions /\ "sig" \in Regions
        /\ "pub_key_id" \in Regions /\ "pub_key_oid" \in Regions /\ "pub_key" \in Regions
    BY DEF Regions
  <1>2. CASE Signature
    <2>1. pc = "signature" /\ parse_alg_id(end.tbs, "sig_id", "sig_oid", "issuer")
      BY <1>2 DEF Signature
    <2>2. end.tbs <= cert.size
      BY <2>1, Bounds DEF InTbs, TbsPlaces
    <2>3. PICK r \in Place : Proceed(r, "issuer") /\ AlgIdRead(r, end.tbs, "sig_id", "sig_oid")
      BY <1>1, <2>1, <2>2, Basics, AlgIdReads
    <2> QED  BY <2>3, Basics, ProceedAdvances DEF AlgIdRead, Place
  <1>3. CASE Algorithm
    <2>1. pc = "algorithm" /\ parse_alg_id(end.list, "pub_key_id", "pub_key_oid", "public_key")
      BY <1>3 DEF Algorithm
    <2>2. end.list <= cert.size
      BY <2>1, Bounds, Basics DEF InTbs, ListPlaces
    <2>3. PICK r \in Place : /\ Proceed(r, "public_key")
                             /\ AlgIdRead(r, end.list, "pub_key_id", "pub_key_oid")
      BY <1>1, <2>1, <2>2, Basics, AlgIdReads
    <2> QED  BY <2>3, Basics, ProceedAdvances DEF AlgIdRead, Place
  <1>4. ASSUME NEW p \in Nat, NEW member \in Regions, NEW next, NEW r \in Place,
               Proceed(r, next), BitStringRead(r, p, member)
        PROVE  Advance
    <2>1. Ok(r) => r.idx > idx
      BY <1>4, Basics DEF BitStringRead, Extent
    <2> QED  BY <1>4, <2>1, ProceedAdvances
  <1>5. CASE SubjectPublicKey
    <2>1. pc = "public_key" /\ BitString(end.list, "pub_key", "unique_ids")
      BY <1>5 DEF SubjectPublicKey
    <2>2. end.list <= cert.size
      BY <2>1, Bounds, Basics DEF InTbs, ListPlaces
    <2> QED  BY <1>1, <1>4, <2>1, <2>2, Basics, BitStringReads
  <1>6. CASE SignatureValue
    <2>1. pc = "signature_value" /\ BitString(end.cert, "sig", "returned")
      BY <1>6 DEF SignatureValue
    <2>2. end.cert <= cert.size
      BY <2>1, Bounds, Basics DEF CertPlaces
    <2> QED  BY <1>1, <1>4, <2>1, <2>2, Basics, BitStringReads
  <1> QED  BY <1>2, <1>3, <1>5, <1>6

(***************************************************************************)
(* Optional elements may be absent.                                        *)
(***************************************************************************)
LEMMA UniqueIDsAdvance ==
    ASSUME Inv, UniqueIDs PROVE Advance
  <1> DEFINE i == parse_optional_data(cert, DER_IMPLICIT_1, At(idx), end.tbs)
             issuer == Past(i)
             s == parse_optional_data(cert, DER_IMPLICIT_2, issuer, end.tbs)
             subject == Past(s)
  <1>1. pc = "unique_ids" /\ Proceed(subject, "extensions")
    BY DEF UniqueIDs
  <1>2. idx <= end.tbs /\ end.tbs <= cert.size
    BY <1>1, Bounds DEF InTbs, TbsPlaces
  <1>3. Skips(i, At(idx), end.tbs)
    BY <1>2, Basics, ParseOptional
  <1> HIDE DEF i
  <1>4. issuer \in Place /\ (Ok(issuer) => issuer.idx >= idx)
    BY <1>3, PastKeeps, Basics DEF Skips, Place, Ok, IDX_NONE
  <1> HIDE DEF issuer
  <1>5. Skips(s, issuer, end.tbs)
    BY <1>2, <1>4, Basics, ParseOptional
  <1> HIDE DEF s
  <1>6. Ok(subject) => subject.idx > idx \/ subject.idx = idx
    BY <1>4, <1>5, PastKeeps, Basics DEF Skips, Place, Ok, IDX_NONE
  <1> HIDE DEF subject
  <1>7. Stage("extensions") > Stage(pc)
    BY <1>1 DEF Stage
  <1> QED  BY <1>1, <1>6, <1>7, ProceedAdvances

LEMMA ExtensionsAdvance ==
    ASSUME Inv, Extensions PROVE Advance
  <1> DEFINE explicit == parse_optional_data(cert, DER_EXPLICIT_3, At(idx), end.tbs)
             seq == parse_data_element(cert, DER_SEQUENCE, explicit, explicit.end)
             whole == Require(seq, seq.end = explicit.end, "TRAILING_DATA")
             none == Ok(explicit) /\ ~Present(explicit)
  <1>1. /\ pc = "extensions"
        /\ none => Proceed(explicit, "end_of_tbs")
        /\ ~none => Proceed(whole, "extension")
    BY DEF Extensions
  <1>2. end.tbs <= cert.size
    BY <1>1, Bounds DEF InTbs, TbsPlaces
  <1>3. Skips(explicit, At(idx), end.tbs)
    BY <1>2, Basics, ParseOptional
  <1> HIDE DEF explicit
  <1>4. explicit.end \in Nat /\ (Ok(explicit) => explicit.end <= cert.size)
    BY <1>2, <1>3, Basics DEF Skips, Place, IDX_NONE
  <1>5. Reads(seq, explicit, explicit.end)
    BY <1>3, <1>4, Basics, ParseElement DEF Skips
  <1> HIDE DEF seq
  <1>6. whole \in Place /\ whole.idx = seq.idx /\ (Ok(whole) => Ok(seq))
    BY <1>5 DEF Reads, Require, Place, Ok, ParseCodes
  <1> HIDE DEF whole
  <1>7. CASE none
    <2>1. explicit.idx = idx
      BY <1>3, <1>7, Basics DEF Skips, Present
    <2>2. Stage("end_of_tbs") > Stage(pc)
      BY <1>1 DEF Stage
    <2> QED  BY <1>1, <1>7, <2>1, <2>2, ProceedAdvances
  <1>8. CASE ~none
    <2>1. Ok(whole) => whole.idx > idx
      BY <1>3, <1>5, <1>6, Basics DEF Skips, Reads, Place
    <2> QED  BY <1>1, <1>8, <2>1, ProceedAdvances
  <1> QED  BY <1>7, <1>8

LEMMA ExtensionAdvances ==
    ASSUME Inv, Extension PROVE Advance
  <1>1. PICK r, next : r \in Place /\ Proceed(r, next) /\ (Ok(r) => idx < r.idx)
    BY ExtensionReads
  <1> QED  BY <1>1, Basics, ProceedAdvances DEF Place

LEMMA PurposesAdvance ==
    ASSUME Inv, parse_ext_key_usage \/ KeyPurpose PROVE Advance
  <1>1. CASE parse_ext_key_usage
    <2> DEFINE seq == parse_data_element(cert, DER_SEQUENCE, At(idx), end.item)
               whole == Require(seq, seq.end = end.item, "TRAILING_DATA")
    <2>1. pc = "ext_key_usage" /\ Proceed(whole, "key_purpose")
      BY <1>1 DEF parse_ext_key_usage
    <2>2. Reads(seq, At(idx), end.item)
      BY <2>1, Basics, ItemBounds, ParseElement DEF ExtnPlaces
    <2> HIDE DEF seq
    <2>3. whole \in Place /\ (Ok(whole) => Ok(seq) /\ whole.idx = seq.idx)
      BY <2>2 DEF Reads, Require, Place, Ok, ParseCodes
    <2> HIDE DEF whole
    <2> QED  BY <2>1, <2>2, <2>3, TakeAdvances
  <1>2. CASE KeyPurpose
    <2> DEFINE oid == parse_data_element(cert, DER_OID, At(idx), end.item)
    <2>1. pc = "key_purpose" /\ Proceed(Past(oid), "key_purpose")
      BY <1>2 DEF KeyPurpose
    <2>2. Reads(oid, At(idx), end.item)
      BY <2>1, Basics, ItemBounds, ParseElement DEF ExtnPlaces
    <2> HIDE DEF oid
    <2>3. /\ Past(oid) \in Place
          /\ Ok(Past(oid)) => Ok(oid) /\ Past(oid).idx \in {oid.idx, oid.end}
      BY <2>2, PastKeeps DEF Reads, Ok
    <2> QED  BY <2>1, <2>2, <2>3, TakeAdvances
  <1> QED  BY <1>1, <1>2

LEMMA SignatureAlgorithmAdvances ==
    ASSUME Inv, SignatureAlgorithm PROVE Advance
  <1> DEFINE size  == fields.sig_id.end - fields.sig_id.start
             whole == Require(At(idx), idx = end.tbs, "TRAILING_DATA")
             room  == Require(whole, idx + size < end.cert, "UNEXPECTED_END_OF_DATA")
             alike == Bytes(fields.sig_id.start, fields.sig_id.end) = Bytes(idx, idx + size)
             same  == Require(room, alike, "MISMATCHED_SIG_ID")
             r     == Leave(same, idx + size)
  <1>1. pc = "end_of_tbs" /\ Proceed(r, "signature_value")
    BY DEF SignatureAlgorithm
  <1>2. size \in Nat /\ idx + size \in Nat
    <2>1. SigIdKnown
      BY <1>1 DEF Inv, Known, Since, SigIdAt, KeyIdAt, KeyAt, DefaultsAt
    <2> QED  BY <2>1, Basics DEF SigIdKnown, Placed, Extent
  <1> HIDE DEF size
  <1>3. whole \in Place
    BY Basics DEF Require, Place, ParseCodes
  <1> HIDE DEF whole
  <1>4. room \in Place
    BY <1>3 DEF Require, Place, ParseCodes
  <1> HIDE DEF room, alike
  <1>5. same \in Place
    BY <1>4 DEF Require, Place, ParseCodes
  <1> HIDE DEF same
  <1>6. Ok(r) => r.idx = idx + size
    BY <1>2, <1>5, LeaveKeeps DEF Ok
  <1> HIDE DEF r
  <1>7. Stage("signature_value") > Stage(pc)
    BY <1>1 DEF Stage
  <1>8. Ok(r) => r.idx > idx \/ r.idx = idx
    BY <1>2, <1>6, Basics
  <1> QED  BY <1>1, <1>7, <1>8, ProceedAdvances

LEMMA NextAdvances == Inv /\ [Next]_vars => [Advance]_vars
  <1> SUFFICES ASSUME Inv, Next PROVE Advance
    OBVIOUS
  <1>1. "not_before" \in ListPlaces /\ "not_after" \in ListPlaces
    BY DEF ListPlaces
  <1>2. NotBefore \/ NotAfter => Advance
    BY <1>1, TimeAdvances DEF NotBefore, NotAfter
  <1> QED  BY <1>2, HeadersAdvance, VersionAdvances, ListsAdvance, AttributeAdvances, EndsAdvance,
              KeysAdvance, UniqueIDsAdvance, ExtensionsAdvance, ExtensionAdvances,
              BasicConstraintKeeps, AkidKeeps, SkidKeeps, KeyUsageKeeps, KeyPurposesEndKeeps,
              PurposesAdvance, SignatureAlgorithmAdvances
           DEF Next

(***************************************************************************)
(* For every file, each step of the parser before the last takes bytes of  *)
(* the file or goes to a later stage.  With ElementsAreNested this bounds  *)
(* the steps of parse_x509 by four for each byte of the file and four more:*)
(* no file keeps the server from starting by a loop that stands still      *)
(* (x509.c:388, :595, :609, :846).                                         *)
(***************************************************************************)
THEOREM ParserAdvances == Spec => Advances
  BY Invariant, NextAdvances, PTL DEF Spec, Advances

=============================================================================
