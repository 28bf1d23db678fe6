-------------------------- MODULE X509Fields_proofs --------------------------
(***************************************************************************)
(* parse_x509 assigns every member of ret_fields, and the flags and the    *)
(* path length only as their own extensions say.                           *)
(***************************************************************************)
EXTENDS X509_proofs

(***************************************************************************)
(* A time_t: a day since the epoch, and a second of that day.              *)
(***************************************************************************)
SecondsOfDay == {n \in Nat : n < 86400}

Moment == [day : Nat, sec : SecondsOfDay]

(***************************************************************************)
(* Where the times of the validity are known.  A name is read both before  *)
(* and after it; where the parser goes on after the name tells which.      *)
(***************************************************************************)
ValidAt == KeyIdAt \cup {"subject", "public_key_info", "algorithm"}

InSubject(p, a) == p \in {"relative_name", "attribute"} /\ a = "public_key_info"

Dated ==
    /\ Since(ValidAt \cup {"not_after"}) \/ InSubject(pc, after) => fields.not_before \in Moment
    /\ Since(ValidAt) \/ InSubject(pc, after) => fields.not_after \in Moment

(***************************************************************************)
(* Once the defaults are assigned, what the extensions set.                *)
(***************************************************************************)
Settled ==
    Since(DefaultsAt) =>
        /\ fields.key_cert_sign \in BOOLEAN /\ fields.has_key_usage \in BOOLEAN
        /\ fields.has_ext_key_usage \in BOOLEAN
        /\ fields.path_len_constraint \in Int
        /\ fields.key_usage_flags \in SUBSET Nat

(***************************************************************************)
(* The flags of the purposes come before has_ext_key_usage: it is only set *)
(* when all of them are read.                                              *)
(***************************************************************************)
Flagged ==
    Since(DefaultsAt) =>
        /\ \A k \in fields.key_usage_flags : k < 16 => fields.has_key_usage = TRUE
        /\ \A k \in fields.key_usage_flags :
               k >= 16 => fields.has_ext_key_usage = TRUE \/ pc = "key_purpose"
        /\ fields.key_cert_sign = FALSE => fields.path_len_constraint = 0

BC_OID == <<85, 29, 19>>

(***************************************************************************)
(* Without CA:TRUE parse_basic_constraint leaves the path length alone.    *)
(* That is sound because no extension occurs twice: it is as it was set by *)
(* default.                                                                *)
(***************************************************************************)
Unset ==
    /\ pc \in InExtns /\ (pc = "basic_constraint" \/ ~Seen(BC_OID)) =>
           fields.path_len_constraint = 0
    /\ pc = "basic_constraint" => Seen(BC_OID)

FInv == Dated /\ Settled /\ Flagged /\ Unset

-----------------------------------------------------------------------------
(* A step that writes no value, and where such steps lead. *)

Goes(next) ==
    \/ pc' = "returned" /\ code' # "PARSE_OK"
    \/ pc' = next /\ code' = "PARSE_OK"

SameValues == \A x \in Values : fields'[x] = fields[x]

LEMMA ProceedGoes ==
    ASSUME NEW r, NEW next, Proceed(r, next)
    PROVE  Goes(next) /\ (code' = "PARSE_OK" <=> Ok(r))
  BY DEF Proceed, Goes, Ok

LEMMA StoreSame ==
    ASSUME Inv, NEW r, NEW new, Store(r, new), \A x \in Values : new[x] = fields[x]
    PROVE  SameValues
  BY DEF Store, SameValues

(***************************************************************************)
(* After a failure nothing is promised of ret_fields.                      *)
(***************************************************************************)
LEMMA FailedKeeps == pc' = "returned" /\ code' # "PARSE_OK" => FInv'
  BY DEF FInv, Dated, Settled, Flagged, Unset, Since, Parsed, InSubject, ValidAt, KeyIdAt, KeyAt,
         DefaultsAt, ItemPlaces, InExtns, ExtnPlaces

LEMMA ValuesNamed ==
    /\ "not_before" \in Values /\ "not_after" \in Values /\ "key_cert_sign" \in Values
    /\ "path_len_constraint" \in Values /\ "has_key_usage" \in Values
    /\ "has_ext_key_usage" \in Values /\ "key_usage_flags" \in Values
  BY DEF Values

(***************************************************************************)
(* Up to the extensions.                                                   *)
(***************************************************************************)
LEMMA HeadKeeps ==
    ASSUME FInv, NEW next, Goes(next), SameValues, next \notin DefaultsAt \cup {"returned"},
           next \in ValidAt \cup {"not_after"} \/ InSubject(next, after') =>
               pc \in ValidAt \cup {"not_after"} \/ InSubject(pc, after),
           next \in ValidAt \/ InSubject(next, after') => pc \in ValidAt \/ InSubject(pc, after)
    PROVE  FInv'
  <1>1. CASE code' # "PARSE_OK"
    BY <1>1, FailedKeeps DEF Goes
  <1>2. CASE code' = "PARSE_OK"
    <2>1. pc' = next /\ pc' \notin DefaultsAt /\ ~Parsed'
      BY <1>2 DEF Goes, Parsed
    <2>2. InExtns \subseteq DefaultsAt
      BY DEF InExtns, ExtnPlaces, DefaultsAt, ItemPlaces
    <2>3. Settled' /\ Flagged' /\ Unset'
      BY <2>1, <2>2 DEF Settled, Flagged, Unset, Since, InExtns, ExtnPlaces
    <2>4. Dated'
      BY <2>1, ValuesNamed DEF FInv, Dated, Since, SameValues, InSubject
    <2> QED  BY <2>3, <2>4 DEF FInv
  <1> QED  BY <1>1, <1>2

(***************************************************************************)
(* From the extensions on.                                                 *)
(***************************************************************************)
LEMMA TailKeeps ==
    ASSUME FInv, NEW next, Goes(next), SameValues, UNCHANGED extn_oids,
           pc \in DefaultsAt \ {"key_purpose"},
           next \in (DefaultsAt \ {"basic_constraint"}) \cup {"returned"},
           next \in InExtns => pc \in InExtns
    PROVE  FInv'
  <1>1. CASE code' # "PARSE_OK"
    BY <1>1, FailedKeeps DEF Goes
  <1>2. CASE code' = "PARSE_OK"
    <2>1. pc' = next /\ pc' # "basic_constraint" /\ pc # "key_purpose"
      BY <1>2 DEF Goes, DefaultsAt, ItemPlaces
    <2>2. pc \in ValidAt
      BY DEF ValidAt, KeyIdAt, KeyAt
    <2>3. Dated'
      BY <2>2, ValuesNamed DEF FInv, Dated, Since, SameValues
    <2>4. Settled'
      BY ValuesNamed DEF FInv, Settled, Since, SameValues
    <2>5. Flagged'
      BY <2>1, ValuesNamed DEF FInv, Flagged, Since, SameValues
    <2>6. Unset'
      <3>1. Seen(BC_OID)' <=> Seen(BC_OID)
        BY DEF Seen
      <3> QED  BY <2>1, <3>1, ValuesNamed DEF FInv, Unset, SameValues
    <2> QED  BY <2>3, <2>4, <2>5, <2>6 DEF FInv
  <1> QED  BY <1>1, <1>2


-----------------------------------------------------------------------------
(* The actions that write no value. *)

LEMMA Headers ==
    /\ Certificate => Goes("tbs_certificate") /\ UNCHANGED <<after, fields>>
    /\ Version => Goes("serial_number") /\ UNCHANGED <<after, fields>>
    /\ Validity => Goes("not_before") /\ UNCHANGED <<after, fields>>
    /\ SubjectPublicKeyInfo => Goes("algorithm") /\ UNCHANGED <<after, fields>>
    /\ UniqueIDs => Goes("extensions") /\ UNCHANGED <<after, fields>>
    /\ RelativeName => Goes("attribute") /\ UNCHANGED <<after, fields>>
    /\ NameEnds => Goes(after) /\ UNCHANGED <<after, fields>>
    /\ Issuer => Goes("relative_name") /\ after' = "validity" /\ UNCHANGED fields
    /\ Subject => Goes("relative_name") /\ after' = "public_key_info" /\ UNCHANGED fields
  <1>1. Certificate => Goes("tbs_certificate") /\ UNCHANGED <<after, fields>>
    BY ProceedGoes DEF Certificate
  <1>2. Version => Goes("serial_number") /\ UNCHANGED <<after, fields>>
    BY ProceedGoes DEF Version
  <1>3. Validity => Goes("not_before") /\ UNCHANGED <<after, fields>>
    BY ProceedGoes DEF Validity
  <1>4. SubjectPublicKeyInfo => Goes("algorithm") /\ UNCHANGED <<after, fields>>
    BY ProceedGoes DEF SubjectPublicKeyInfo
  <1>5. UniqueIDs => Goes("extensions") /\ UNCHANGED <<after, fields>>
    BY ProceedGoes DEF UniqueIDs
  <1>6. RelativeName => Goes("attribute") /\ UNCHANGED <<after, fields>>
    BY ProceedGoes DEF RelativeName
  <1>7. NameEnds => Goes(after) /\ UNCHANGED <<after, fields>>
    BY ProceedGoes DEF NameEnds
  <1>8. Issuer => Goes("relative_name") /\ after' = "validity" /\ UNCHANGED fields
    BY ProceedGoes DEF Issuer, parse_name
  <1>9. Subject => Goes("relative_name") /\ after' = "public_key_info" /\ UNCHANGED fields
    BY ProceedGoes DEF Subject, parse_name
  <1> QED  BY <1>1, <1>2, <1>3, <1>4, <1>5, <1>6, <1>7, <1>8, <1>9

LEMMA AttributeGoes ==
    Attribute => /\ Goes("attribute") \/ Goes("relative_name")
                 /\ UNCHANGED <<after, fields>>
  <1> SUFFICES ASSUME Attribute
               PROVE  /\ Goes("attribute") \/ Goes("relative_name")
                      /\ UNCHANGED <<after, fields>>
    OBVIOUS
  <1>1. UNCHANGED <<after, fields>>
    BY DEF Attribute
  <1>2. PICK r, next : Proceed(r, next) /\ next \in {"attribute", "relative_name"}
    BY DEF Attribute
  <1>3. Goes(next)
    BY <1>2, ProceedGoes
  <1> QED  BY <1>1, <1>2, <1>3

LEMMA RegionsOnly ==
    ASSUME Inv, NEW x \in Regions, NEW v, NEW r, Store(r, [fields EXCEPT ![x] = v])
    PROVE  SameValues
  <1>1. \A y \in Values : [fields EXCEPT ![x] = v][y] = fields[y]
    BY DEF Inv, TypeOK, Regions, Values
  <1> QED  BY <1>1 DEF Store, SameValues

LEMMA AlgIdGoes ==
    ASSUME Inv, NEW p, NEW id \in Regions, NEW oid \in Regions, NEW next,
           parse_alg_id(p, id, oid, next)
    PROVE  Goes(next) /\ SameValues /\ UNCHANGED after
  <1>1. PICK r, alg, s, t :
            /\ Proceed(r, next) /\ Store(alg, [fields EXCEPT ![id] = s, ![oid] = t])
            /\ UNCHANGED after
    BY DEF parse_alg_id
  <1>2. \A y \in Values : [fields EXCEPT ![id] = s, ![oid] = t][y] = fields[y]
    BY DEF Inv, TypeOK, Regions, Values
  <1> QED  BY <1>1, <1>2, ProceedGoes, StoreSame

LEMMA BitStringGoes ==
    ASSUME Inv, NEW p, NEW member \in Regions, NEW next, BitString(p, member, next)
    PROVE  Goes(next) /\ SameValues /\ UNCHANGED <<after, extn_oids>>
  <1>1. PICK r, w, s :
            /\ Proceed(r, next) /\ Store(w, [fields EXCEPT ![member] = s])
            /\ UNCHANGED <<after, extn_oids>>
    BY DEF BitString
  <1> QED  BY <1>1, ProceedGoes, RegionsOnly

LEMMA Written ==
    ASSUME Inv
    PROVE  /\ TBSCertificate => Goes("version") /\ SameValues
           /\ SerialNumber => Goes("signature") /\ SameValues
           /\ Signature => Goes("issuer") /\ SameValues
           /\ Algorithm => Goes("public_key") /\ SameValues
           /\ SubjectPublicKey => Goes("unique_ids") /\ SameValues
           /\ SignatureValue => Goes("returned") /\ SameValues /\ UNCHANGED extn_oids
  <1>1. /\ "signed_data" \in Regions /\ "cert_serial" \in Regions /\ "sig" \in Regions
        /\ "sig_id" \in Regions /\ "sig_oid" \in Regions /\ "pub_key" \in Regions
        /\ "pub_key_id" \in Regions /\ "pub_key_oid" \in Regions
    BY DEF Regions
  <1>2. TBSCertificate => Goes("version") /\ SameValues
    <2> SUFFICES ASSUME TBSCertificate PROVE Goes("version") /\ SameValues
      OBVIOUS
    <2>1. PICK r, s : Proceed(r, "version") /\ Store(r, [fields EXCEPT !["signed_data"] = s])
      BY DEF TBSCertificate
    <2> QED  BY <1>1, <2>1, ProceedGoes, RegionsOnly
  <1>3. SerialNumber => Goes("signature") /\ SameValues
    <2> SUFFICES ASSUME SerialNumber PROVE Goes("signature") /\ SameValues
      OBVIOUS
    <2>1. PICK r, e, s : Proceed(r, "signature") /\ Store(e, [fields EXCEPT !["cert_serial"] = s])
      BY DEF SerialNumber
    <2> QED  BY <1>1, <2>1, ProceedGoes, RegionsOnly
  <1>4. Signature => Goes("issuer") /\ SameValues
    BY <1>1, AlgIdGoes DEF Signature
  <1>5. Algorithm => Goes("public_key") /\ SameValues
    BY <1>1, AlgIdGoes DEF Algorithm
  <1>6. SubjectPublicKey => Goes("unique_ids") /\ SameValues
    BY <1>1, BitStringGoes DEF SubjectPublicKey
  <1>7. SignatureValue => Goes("returned") /\ SameValues /\ UNCHANGED extn_oids
    BY <1>1, BitStringGoes DEF SignatureValue
  <1> QED  BY <1>2, <1>3, <1>4, <1>5, <1>6, <1>7


-----------------------------------------------------------------------------
(* The times of the validity. *)

LEMMA ByteAt ==
    ASSUME Inv, NEW k \in Nat, k < cert.size
    PROVE  cert.byte[k] \in Int
  <1>1. cert.byte \in [0 .. cert.size - 1 -> Byte] /\ cert.size \in Nat
    BY Basics DEF IsFile
  <1>2. k \in 0 .. cert.size - 1
    BY <1>1
  <1>3. cert.byte[k] \in Byte
    BY <1>1, <1>2
  <1> QED  BY <1>3 DEF Byte

LEMMA TwoDigitsNumber ==
    ASSUME NEW s \in Nat, NEW n \in Nat, AreDigits(s, n), NEW k \in s .. s + n - 2
    PROVE  TwoDigits(k) \in 0 .. 99
  <1>1. cert.byte[k] \in 48 .. 57 /\ cert.byte[k + 1] \in 48 .. 57
    BY DEF AreDigits
  <1> QED  BY <1>1 DEF TwoDigits

(***************************************************************************)
(* What timegm makes of digits that state a date is a moment.              *)
(***************************************************************************)
LEMMA TimeIsMoment ==
    ASSUME Inv, NEW s \in Nat, NEW general \in BOOLEAN,
           AreDigits(s, (IF general THEN 15 ELSE 13) - 1), IsDate(s, general)
    PROVE  timegm(BrokenDown(s, general)) \in Moment
  <1> DEFINE tm == BrokenDown(s, general)
             rest == IF general THEN s + 4 ELSE s + 2
             n == (IF general THEN 15 ELSE 13) - 1
  <1>1. /\ n \in Nat /\ rest \in Nat /\ AreDigits(s, n)
        /\ s \in s .. s + n - 2 /\ s + 2 \in s .. s + n - 2
        /\ rest + 2 \in s .. s + n - 2 /\ rest + 4 \in s .. s + n - 2
        /\ rest + 6 \in s .. s + n - 2 /\ rest + 8 \in s .. s + n - 2
    OBVIOUS
  <1>2. /\ tm.year = IF general THEN 100 * TwoDigits(s) + TwoDigits(s + 2) ELSE UtcYear(TwoDigits(s))
        /\ tm.mon = TwoDigits(rest) - 1 /\ tm.mday = TwoDigits(rest + 2)
        /\ tm.hour = TwoDigits(rest + 4) /\ tm.min = TwoDigits(rest + 6)
        /\ tm.sec = TwoDigits(rest + 8)
    BY DEF BrokenDown
  <1>3. /\ tm.mon \in 0 .. 11 /\ tm.hour < 24 /\ tm.min < 60 /\ tm.sec < 60
        /\ timegm(tm).day >= 0
    BY DEF IsDate, Unaltered
  <1> HIDE DEF tm, rest, n
  <1>4. TwoDigits(s) \in 0 .. 99 /\ TwoDigits(s + 2) \in 0 .. 99
    BY <1>1, TwoDigitsNumber
  <1>5. /\ TwoDigits(rest + 2) \in 0 .. 99 /\ TwoDigits(rest + 4) \in 0 .. 99
        /\ TwoDigits(rest + 6) \in 0 .. 99 /\ TwoDigits(rest + 8) \in 0 .. 99
    BY <1>1, TwoDigitsNumber
  <1>6. tm.year \in Int
    BY <1>2, <1>4 DEF UtcYear
  <1>7. tm.mday \in Nat /\ tm.hour \in Nat /\ tm.min \in Nat /\ tm.sec \in Nat
    BY <1>2, <1>5
  <1>8. DaysBefore[tm.mon + 1] \in Int
    BY <1>3 DEF DaysBefore
  <1> DEFINE y == 1900 + tm.year
             leaps == ((y - 1) \div 4) - ((y - 1) \div 100) + ((y - 1) \div 400)
             today == IF Leap(y) /\ tm.mon > 1 THEN tm.mday ELSE tm.mday - 1
  <1>9. y \in Int /\ leaps \in Int
    BY <1>6
  <1>10. today \in Int
    BY <1>7
  <1>11. timegm(tm) = [day |-> 365 * (y - 1970) + leaps - 477 + DaysBefore[tm.mon + 1] + today,
                       sec |-> 3600 * tm.hour + 60 * tm.min + tm.sec]
    BY DEF timegm
  <1> HIDE DEF y, leaps, today
  <1>12. 3600 * tm.hour + 60 * tm.min + tm.sec \in SecondsOfDay
    <2>1. \A h, m, c \in Nat : h < 24 /\ m < 60 /\ c < 60
                              => 3600 * h + 60 * m + c \in SecondsOfDay
      BY DEF SecondsOfDay
    <2> QED  BY <2>1, <1>3, <1>7 DEF SecondsOfDay
  <1>13. timegm(tm).day \in Nat
    BY <1>3, <1>8, <1>9, <1>10, <1>11
  <1>14. timegm(tm) \in Moment
    <2>1. \A d, c : [day |-> d, sec |-> c].day = d
      OBVIOUS
    <2>2. \A d \in Nat, c \in SecondsOfDay : [day |-> d, sec |-> c] \in Moment
      BY DEF Moment
    <2> QED  BY <2>1, <2>2, <1>11, <1>12, <1>13
  <1> QED  BY <1>14 DEF tm

LEMMA RequireHolds ==
    ASSUME NEW p \in Place, NEW c \in BOOLEAN, NEW error \in ParseCodes, error # "PARSE_OK"
    PROVE  Require(p, c, error) \in Place /\ (Ok(Require(p, c, error)) => Ok(p) /\ c)
  BY DEF Require, Place, Ok

LEMMA CheckedTime ==
    ASSUME NEW time \in Place, NEW general, NEW member,
           Ok(CheckTime(time, general, member))
    PROVE  /\ Ok(time) /\ time.end = time.idx + (IF general THEN 15 ELSE 13)
           /\ AreDigits(time.idx, (IF general THEN 15 ELSE 13) - 1)
           /\ IsDate(time.idx, general)
  <1> DEFINE size  == IF general THEN 15 ELSE 13
             c1 == time.end = time.idx + size
             sized == Require(time, c1, "INVALID_VALIDITY_TIME")
             c2 == AreDigits(time.idx, size - 1) /\ cert.byte[time.end - 1] = 90
             read  == Require(sized, c2, "INVALID_VALIDITY_TIME")
             c3 == IsDate(time.idx, general)
             date  == Require(read, c3, "INVALID_VALIDITY_TIME")
             c4 == member = "not_after" => time.end = end.list
             whole == Require(date, c4, "TRAILING_DATA")
  <1>1. Ok(whole)
    BY DEF CheckTime
  <1>2. sized \in Place /\ (Ok(sized) => Ok(time) /\ c1)
    <2> HIDE DEF c1
    <2> QED  BY DEF Require, Place, Ok, ParseCodes
  <1> HIDE DEF sized
  <1>3. read \in Place /\ (Ok(read) => Ok(sized) /\ c2)
    <2>1. c2 \in BOOLEAN
      BY DEF AreDigits
    <2> HIDE DEF c2
    <2> QED  BY <1>2, <2>1, RequireHolds DEF ParseCodes
  <1> HIDE DEF read
  <1>4. date \in Place /\ (Ok(date) => Ok(read) /\ c3)
    <2>1. c3 \in BOOLEAN
      BY DEF IsDate, Unaltered
    <2> HIDE DEF c3
    <2> QED  BY <1>3, <2>1, RequireHolds DEF ParseCodes
  <1> HIDE DEF date, c4
  <1>5. Ok(whole) => Ok(date)
    BY <1>4 DEF Require, Place, Ok, ParseCodes
  <1> HIDE DEF whole
  <1> QED  BY <1>1, <1>2, <1>3, <1>4, <1>5

LEMMA TimeWrites ==
    ASSUME Inv, pc \in ListPlaces, NEW member \in {"not_before", "not_after"}, NEW next,
           parse_time(member, next)
    PROVE  /\ Goes(next) /\ UNCHANGED after
           /\ code' = "PARSE_OK" => /\ fields'[member] \in Moment
                                    /\ \A x \in Values \ {member} : fields'[x] = fields[x]
  <1> DEFINE utc == parse_optional_data(cert, DER_UTCTIME, At(idx), end.list)
             general == ~Present(utc)
             gen == parse_data_element(cert, DER_GENERALIZEDTIME, utc, end.list)
             time == IF Present(utc) THEN utc ELSE gen
             whole == CheckTime(time, general, member)
             r == Past(whole)
             v == timegm(BrokenDown(time.idx, general))
             new == [fields EXCEPT ![member] = v]
  <1>1. Proceed(r, next) /\ Store(whole, new) /\ UNCHANGED after
    BY DEF parse_time
  <1>2. idx <= end.list /\ end.list <= cert.size
    BY Bounds, Basics DEF InTbs
  <1>3. Skips(utc, At(idx), end.list)
    BY <1>2, Basics, ParseOptional
  <1> HIDE DEF utc
  <1>4. Reads(gen, utc, end.list)
    BY <1>2, <1>3, Basics, ParseElement DEF Skips
  <1> HIDE DEF gen
  <1>5. time \in Place /\ (Ok(time) => time.end <= end.list)
    BY <1>3, <1>4, Basics DEF Skips, Reads, Place, Present, IDX_NONE
  <1>6. general \in BOOLEAN
    BY DEF Present
  <1> HIDE DEF time, general
  <1>7. whole \in Place
    BY <1>5, CheckTimeKeeps
  <1>8. Ok(whole) => /\ Ok(time) /\ time.end = time.idx + (IF general THEN 15 ELSE 13)
                     /\ AreDigits(time.idx, (IF general THEN 15 ELSE 13) - 1)
                     /\ IsDate(time.idx, general)
    BY <1>5, CheckedTime
  <1> HIDE DEF whole
  <1>9. Ok(whole) => v \in Moment
    <2> SUFFICES ASSUME Ok(whole) PROVE v \in Moment
      OBVIOUS
    <2>1. /\ time.idx \in Nat /\ AreDigits(time.idx, (IF general THEN 15 ELSE 13) - 1)
          /\ IsDate(time.idx, general)
      BY <1>5, <1>8 DEF Place
    <2> QED  BY <1>6, <2>1, TimeIsMoment
  <1> HIDE DEF v
  <1>10. Goes(next) /\ (code' = "PARSE_OK" <=> Ok(r))
    BY <1>1, ProceedGoes
  <1>11. Ok(r) => Ok(whole)
    BY <1>7, PastKeeps DEF Ok
  <1>12. new[member] = v /\ \A x \in Values \ {member} : new[x] = fields[x]
    BY DEF Inv, TypeOK, Values
  <1> HIDE DEF new, r
  <1> QED  BY <1>1, <1>9, <1>10, <1>11, <1>12 DEF Store

LEMMA TimesSettle == Inv /\ FInv /\ (NotBefore \/ NotAfter) => FInv'
  <1> SUFFICES ASSUME Inv, FInv, NotBefore \/ NotAfter, code' = "PARSE_OK" PROVE FInv'
    <2>1. NotBefore \/ NotAfter => \E next : Goes(next)
      BY ProceedGoes DEF NotBefore, NotAfter, parse_time
    <2> QED  BY <2>1, FailedKeeps DEF Goes
  <1>1. "not_before" \in ListPlaces /\ "not_after" \in ListPlaces
    BY DEF ListPlaces
  <1>2. CASE NotBefore
    <2>1. Goes("not_after") /\ fields'.not_before \in Moment
      BY <1>1, <1>2, TimeWrites DEF NotBefore
    <2>2. pc' = "not_after"
      BY <2>1 DEF Goes
    <2> QED  BY <2>1, <2>2 DEF FInv, Dated, Settled, Flagged, Unset, Since, Parsed, InSubject, ValidAt,
                KeyIdAt, KeyAt, DefaultsAt, ItemPlaces, InExtns, ExtnPlaces
  <1>3. CASE NotAfter
    <2>1. /\ Goes("subject") /\ fields'.not_after \in Moment /\ fields'.not_before = fields.not_before
          /\ pc = "not_after"
      BY <1>1, <1>3, TimeWrites, ValuesNamed DEF NotAfter
    <2>2. pc' = "subject"
      BY <2>1 DEF Goes
    <2>3. fields.not_before \in Moment
      BY <2>1 DEF FInv, Dated, Since
    <2> QED  BY <2>1, <2>2, <2>3 DEF FInv, Dated, Settled, Flagged, Unset, Since, Parsed, InSubject,
                ValidAt, KeyIdAt, KeyAt, DefaultsAt, ItemPlaces, InExtns, ExtnPlaces
  <1> QED  BY <1>2, <1>3


-----------------------------------------------------------------------------
(* The extensions. *)

LEMMA DefaultsSettle == Inv /\ FInv /\ Extensions => FInv'
  <1> SUFFICES ASSUME Inv, FInv, Extensions PROVE FInv'
    OBVIOUS
  <1> DEFINE new == assign_default_extensions(fields)
  <1>1. PICK explicit, r, next :
            /\ Proceed(r, next) /\ next \in {"end_of_tbs", "extension"}
            /\ Ok(r) => Ok(explicit)
            /\ Store(explicit, new)
    <2> DEFINE explicit == parse_optional_data(cert, DER_EXPLICIT_3, At(idx), end.tbs)
               seq == parse_data_element(cert, DER_SEQUENCE, explicit, explicit.end)
               whole == Require(seq, seq.end = explicit.end, "TRAILING_DATA")
               none == Ok(explicit) /\ ~Present(explicit)
    <2>1. /\ Store(explicit, new)
          /\ none => Proceed(explicit, "end_of_tbs")
          /\ ~none => Proceed(whole, "extension")
      BY DEF Extensions
    <2>2. idx <= end.tbs /\ end.tbs <= cert.size
      BY Bounds DEF Extensions, InTbs, TbsPlaces
    <2>3. Skips(explicit, At(idx), end.tbs)
      BY <2>2, Basics, ParseOptional
    <2> HIDE DEF explicit, new
    <2>4. explicit.end \in Nat /\ (Ok(explicit) => explicit.end <= cert.size)
      BY <2>2, <2>3, Basics DEF Skips, Place, IDX_NONE
    <2>5. Reads(seq, explicit, explicit.end)
      BY <2>3, <2>4, Basics, ParseElement DEF Skips
    <2> HIDE DEF seq
    <2>6. Ok(whole) => Ok(explicit)
      BY <2>5 DEF Reads, Require, Place, Ok, ParseCodes
    <2> HIDE DEF whole
    <2> QED  BY <2>1, <2>6
  <1>2. /\ pc = "extensions" /\ Goes(next) /\ (code' = "PARSE_OK" => Ok(explicit))
    BY <1>1, ProceedGoes DEF Extensions
  <1>3. CASE code' # "PARSE_OK"
    BY <1>2, <1>3, FailedKeeps DEF Goes
  <1>4. CASE code' = "PARSE_OK"
    <2>1. fields' = new /\ pc' = next /\ pc' # "returned" /\ pc' # "basic_constraint"
      BY <1>1, <1>2, <1>4 DEF Store, Goes
    <2>2. /\ new.not_before = fields.not_before /\ new.not_after = fields.not_after
          /\ new.key_cert_sign = FALSE /\ new.path_len_constraint = 0
          /\ new.has_key_usage = FALSE /\ new.has_ext_key_usage = FALSE
          /\ new.key_usage_flags = {}
      BY DEF assign_default_extensions, Inv, TypeOK, Regions, Values
    <2> HIDE DEF new
    <2>3. fields.not_before \in Moment /\ fields.not_after \in Moment
      BY <1>2 DEF FInv, Dated, Since, ValidAt, KeyIdAt, KeyAt
    <2>4. Dated'
      BY <2>1, <2>2, <2>3 DEF Dated
    <2>5. Settled'
      <3>1. new.path_len_constraint \in Int /\ new.key_usage_flags \in SUBSET Nat
        BY <2>2
      <3>2. FALSE \in BOOLEAN
        OBVIOUS
      <3> QED  BY <2>1, <2>2, <3>1, <3>2, Zenon DEF Settled
    <2>6. Flagged'
      BY <2>1, <2>2 DEF Flagged
    <2>7. Unset'
      BY <2>1, <2>2 DEF Unset
    <2> QED  BY <2>4, <2>5, <2>6, <2>7 DEF FInv
  <1> QED  BY <1>3, <1>4

LEMMA PassesUnread ==
    /\ ExtensionsEnd => Goes("end_of_tbs") /\ UNCHANGED <<extn_oids, fields>>
    /\ SignatureAlgorithm => Goes("signature_value") /\ UNCHANGED <<extn_oids, fields>>
    /\ parse_ext_key_usage => Goes("key_purpose") /\ UNCHANGED <<extn_oids, fields>>
  <1>1. ExtensionsEnd => Goes("end_of_tbs") /\ UNCHANGED <<extn_oids, fields>>
    BY ProceedGoes DEF ExtensionsEnd
  <1>2. SignatureAlgorithm => Goes("signature_value") /\ UNCHANGED <<extn_oids, fields>>
    BY ProceedGoes DEF SignatureAlgorithm
  <1>3. parse_ext_key_usage => Goes("key_purpose") /\ UNCHANGED <<extn_oids, fields>>
    BY ProceedGoes DEF parse_ext_key_usage
  <1> QED  BY <1>1, <1>2, <1>3

LEMMA IdentifiersGo ==
    ASSUME Inv, parse_akid \/ parse_skid
    PROVE  Goes("extension") /\ SameValues /\ UNCHANGED extn_oids /\ pc \in {"akid", "skid"}
  <1>1. PICK r, x, v : /\ ExtnParsed(r, [fields EXCEPT ![x] = v]) /\ x \in {"akid", "skid"}
                       /\ pc \in {"akid", "skid"}
    <2>1. CASE parse_akid
      BY <2>1 DEF parse_akid
    <2>2. CASE parse_skid
      BY <2>2 DEF parse_skid
    <2> QED  BY <2>1, <2>2
  <1>2. x \in Regions
    BY <1>1 DEF Regions
  <1>3. /\ Proceed(Leave(r, end.item), "extension") /\ Store(r, [fields EXCEPT ![x] = v])
        /\ UNCHANGED extn_oids
    BY <1>1 DEF ExtnParsed
  <1> QED  BY <1>1, <1>2, <1>3, ProceedGoes, RegionsOnly

(***************************************************************************)
(* An extension that sets values: which it sets when it is well-formed.    *)
(***************************************************************************)
LEMMA ExtnWrites ==
    ASSUME NEW r, NEW new, ExtnParsed(r, new)
    PROVE  /\ Goes("extension") /\ UNCHANGED extn_oids
           /\ code' = "PARSE_OK" => Ok(r) /\ fields' = new
  <1> DEFINE l == Leave(r, end.item)
  <1>1. Proceed(l, "extension") /\ Store(r, new) /\ UNCHANGED extn_oids
    BY DEF ExtnParsed
  <1>2. Ok(l) => Ok(r)
    BY DEF Leave
  <1> HIDE DEF l
  <1> QED  BY <1>1, <1>2, ProceedGoes DEF Store

LEMMA FromExtnToNext ==
    ASSUME FInv, pc \in ExtnPlaces
    PROVE  /\ fields.not_before \in Moment /\ fields.not_after \in Moment
           /\ fields.key_cert_sign \in BOOLEAN /\ fields.has_key_usage \in BOOLEAN
           /\ fields.has_ext_key_usage \in BOOLEAN
           /\ fields.path_len_constraint \in Int
           /\ fields.key_usage_flags \in SUBSET Nat
  <1>1. pc \in DefaultsAt /\ pc \in ValidAt
    BY DEF ExtnPlaces, ValidAt, KeyIdAt, KeyAt, DefaultsAt, ItemPlaces
  <1> QED  BY <1>1 DEF FInv, Dated, Settled, Since

LEMMA KeyUsageSettles == Inv /\ FInv /\ parse_key_usage => FInv'
  <1> SUFFICES ASSUME Inv, FInv, parse_key_usage PROVE FInv'
    OBVIOUS
  <1>1. PICK r, b, S :
            /\ ExtnParsed(r, [fields EXCEPT !.has_key_usage = TRUE,
                                            !.key_usage_flags = @ \cup Bits(b) \cup S])
            /\ S = {} \/ \E c : S = SecondByte(c)
            /\ pc = "key_usage"
    BY DEF parse_key_usage
  <1> DEFINE flags == fields.key_usage_flags \cup Bits(b) \cup S
             new == [fields EXCEPT !.has_key_usage = TRUE, !.key_usage_flags = flags]
  <1>2. /\ Goes("extension") /\ UNCHANGED extn_oids
        /\ code' = "PARSE_OK" => fields' = new
    BY <1>1, ExtnWrites
  <1>3. CASE code' # "PARSE_OK"
    BY <1>2, <1>3, FailedKeeps DEF Goes
  <1>4. CASE code' = "PARSE_OK"
    <2>1. fields' = new /\ pc' = "extension"
      BY <1>2, <1>4 DEF Goes
    <2>2. Bits(b) \subseteq 0 .. 8 /\ S \subseteq 0 .. 8
      BY <1>1 DEF Bits, SecondByte
    <2>3. pc \in ExtnPlaces /\ pc \in DefaultsAt /\ pc \in InExtns
      BY <1>1 DEF ExtnPlaces, DefaultsAt, ItemPlaces, InExtns
    <2>4. /\ new.not_before = fields.not_before /\ new.not_after = fields.not_after
          /\ new.key_cert_sign = fields.key_cert_sign
          /\ new.path_len_constraint = fields.path_len_constraint
          /\ new.has_key_usage = TRUE /\ new.has_ext_key_usage = fields.has_ext_key_usage
          /\ new.key_usage_flags = flags
      BY DEF Inv, TypeOK, Regions, Values
    <2> HIDE DEF new
    <2>5. \A k \in flags : k \in fields.key_usage_flags \/ k \in 0 .. 8
      BY <2>2, Zenon
    <2>6. flags \in SUBSET Nat
      BY <2>3, <2>5, FromExtnToNext
    <2> HIDE DEF flags
    <2>7. Dated' /\ Settled'
      BY <2>1, <2>3, <2>4, <2>6, FromExtnToNext DEF Dated, Settled
    <2>8. \A k \in flags : k >= 16 => fields.has_ext_key_usage = TRUE
      <3>1. \A k \in fields.key_usage_flags : k >= 16 => fields.has_ext_key_usage = TRUE
        BY <1>1, <2>3 DEF FInv, Flagged, Since
      <3> QED  BY <2>5, <3>1
    <2>9. fields.key_cert_sign = FALSE => fields.path_len_constraint = 0
      BY <2>3 DEF FInv, Flagged, Since
    <2>10. Flagged'
      BY <2>1, <2>4, <2>8, <2>9 DEF Flagged
    <2>11. Unset'
      <3>1. Seen(BC_OID)' <=> Seen(BC_OID)
        BY <1>2 DEF Seen
      <3> QED  BY <1>1, <2>1, <2>3, <2>4, <3>1 DEF FInv, Unset
    <2> QED  BY <2>7, <2>10, <2>11 DEF FInv
  <1> QED  BY <1>3, <1>4


LEMMA PurposesAbove ==
    ASSUME NEW oid
    PROVE  PurposeFlags(oid) \subseteq 16 .. 24
  <1> DEFINE last == oid[Len(oid)]
             flag == [n \in {0, 1, 2, 3, 4, 8, 9} |->
                         CASE n = 8 -> 21 [] n = 9 -> 22 [] OTHER -> 16 + n]
  <1>1. \A n \in {0, 1, 2, 3, 4, 8, 9} : flag[n] \in 16 .. 24
    OBVIOUS
  <1>2. DOMAIN flag = {0, 1, 2, 3, 4, 8, 9}
    OBVIOUS
  <1>3. PurposeFlags(oid) = {} \/ (last \in DOMAIN flag /\ PurposeFlags(oid) = {flag[last]})
    BY DEF PurposeFlags
  <1> HIDE DEF flag, last
  <1> QED  BY <1>1, <1>2, <1>3

LEMMA KeyPurposeSettles == Inv /\ FInv /\ KeyPurpose => FInv'
  <1> SUFFICES ASSUME Inv, FInv, KeyPurpose PROVE FInv'
    OBVIOUS
  <1> DEFINE oid == parse_data_element(cert, DER_OID, At(idx), end.item)
             r == Past(oid)
             more == PurposeFlags(Bytes(oid.idx, oid.end))
             flags == fields.key_usage_flags \cup more
             new == [fields EXCEPT !.key_usage_flags = flags]
  <1>1. /\ pc = "key_purpose" /\ Proceed(r, "key_purpose") /\ Store(oid, new)
        /\ UNCHANGED extn_oids
    BY DEF KeyPurpose
  <1>2. more \subseteq 16 .. 24
    BY PurposesAbove
  <1>3. Ok(r) => Ok(oid)
    <2> HIDE DEF oid
    <2> QED  BY DEF Past, Ok
  <1> HIDE DEF more, oid, r
  <1>4. Goes("key_purpose") /\ (code' = "PARSE_OK" => Ok(oid))
    BY <1>1, <1>3, ProceedGoes
  <1>5. CASE code' # "PARSE_OK"
    BY <1>4, <1>5, FailedKeeps DEF Goes
  <1>6. CASE code' = "PARSE_OK"
    <2>1. fields' = new /\ pc' = "key_purpose"
      BY <1>1, <1>4, <1>6 DEF Goes, Store
    <2>2. pc \in ExtnPlaces /\ pc \in DefaultsAt /\ pc \in InExtns
      BY <1>1 DEF ExtnPlaces, DefaultsAt, ItemPlaces, InExtns
    <2>3. /\ new.not_before = fields.not_before /\ new.not_after = fields.not_after
          /\ new.key_cert_sign = fields.key_cert_sign
          /\ new.path_len_constraint = fields.path_len_constraint
          /\ new.has_key_usage = fields.has_key_usage
          /\ new.has_ext_key_usage = fields.has_ext_key_usage
          /\ new.key_usage_flags = flags
      BY DEF Inv, TypeOK, Regions, Values
    <2> HIDE DEF new
    <2>4. \A k \in flags : k \in fields.key_usage_flags \/ k \in 16 .. 24
      BY <1>2, Zenon
    <2>5. flags \in SUBSET Nat
      BY <2>2, <2>4, FromExtnToNext
    <2> HIDE DEF flags
    <2>6. Dated' /\ Settled'
      BY <2>1, <2>2, <2>3, <2>5, FromExtnToNext DEF Dated, Settled
    <2>7. \A k \in flags : k < 16 => fields.has_key_usage = TRUE
      <3>1. \A k \in fields.key_usage_flags : k < 16 => fields.has_key_usage = TRUE
        BY <2>2 DEF FInv, Flagged, Since
      <3> QED  BY <2>4, <3>1
    <2>8. fields.key_cert_sign = FALSE => fields.path_len_constraint = 0
      BY <2>2 DEF FInv, Flagged, Since
    <2>9. Flagged'
      BY <2>1, <2>3, <2>7, <2>8 DEF Flagged
    <2>10. Unset'
      <3>1. Seen(BC_OID)' <=> Seen(BC_OID)
        BY <1>1 DEF Seen
      <3> QED  BY <1>1, <2>1, <2>2, <2>3, <3>1 DEF FInv, Unset
    <2> QED  BY <2>6, <2>9, <2>10 DEF FInv
  <1> QED  BY <1>5, <1>6

LEMMA PurposesEndSettles == Inv /\ FInv /\ KeyPurposesEnd => FInv'
  <1> SUFFICES ASSUME Inv, FInv, KeyPurposesEnd PROVE FInv'
    OBVIOUS
  <1> DEFINE new == [fields EXCEPT !.has_ext_key_usage = TRUE]
  <1>1. PICK r : ExtnParsed(r, new) /\ pc = "key_purpose"
    BY DEF KeyPurposesEnd
  <1>2. /\ Goes("extension") /\ UNCHANGED extn_oids
        /\ code' = "PARSE_OK" => fields' = new
    BY <1>1, ExtnWrites
  <1>3. CASE code' # "PARSE_OK"
    BY <1>2, <1>3, FailedKeeps DEF Goes
  <1>4. CASE code' = "PARSE_OK"
    <2>1. fields' = new /\ pc' = "extension"
      BY <1>2, <1>4 DEF Goes
    <2>2. pc \in ExtnPlaces /\ pc \in DefaultsAt /\ pc \in InExtns
      BY <1>1 DEF ExtnPlaces, DefaultsAt, ItemPlaces, InExtns
    <2>3. /\ new.not_before = fields.not_before /\ new.not_after = fields.not_after
          /\ new.key_cert_sign = fields.key_cert_sign
          /\ new.path_len_constraint = fields.path_len_constraint
          /\ new.has_key_usage = fields.has_key_usage
          /\ new.has_ext_key_usage = TRUE
          /\ new.key_usage_flags = fields.key_usage_flags
      BY DEF Inv, TypeOK, Regions, Values
    <2> HIDE DEF new
    <2>4. Dated' /\ Settled'
      BY <2>1, <2>2, <2>3, FromExtnToNext DEF Dated, Settled
    <2>5. Flagged'
      BY <2>1, <2>2, <2>3 DEF FInv, Flagged, Since
    <2>6. Unset'
      <3>1. Seen(BC_OID)' <=> Seen(BC_OID)
        BY <1>2 DEF Seen
      <3> QED  BY <1>1, <2>1, <2>2, <2>3, <3>1 DEF FInv, Unset
    <2> QED  BY <2>4, <2>5, <2>6 DEF FInv
  <1> QED  BY <1>3, <1>4

(***************************************************************************)
(* The four bytes of a path length make a number.                          *)
(***************************************************************************)
LEMMA PathLenNumber ==
    ASSUME Inv, NEW from \in Int, NEW s \in Nat, NEW e \in Nat, e <= cert.size
    PROVE  PathLen(from, s, e) \in Int
  <1>1. \A v \in Int, k \in Nat : Shifted(v, k, e) \in Int
    <2> SUFFICES ASSUME NEW v \in Int, NEW k \in Nat PROVE Shifted(v, k, e) \in Int
      OBVIOUS
    <2>1. CASE k < e
      <3>1. k < cert.size
        BY <2>1, Basics
      <3> QED  BY <2>1, <3>1, ByteAt DEF Shifted
    <2>2. CASE ~(k < e)
      BY <2>2 DEF Shifted
    <2> QED  BY <2>1, <2>2
  <1> DEFINE v1 == Shifted(from, s, e)
             v2 == Shifted(v1, s + 1, e)
             v3 == Shifted(v2, s + 2, e)
  <1>2. s + 1 \in Nat /\ s + 2 \in Nat /\ s + 3 \in Nat
    OBVIOUS
  <1>3. v1 \in Int
    BY <1>1
  <1> HIDE DEF v1
  <1>4. v2 \in Int
    BY <1>1, <1>2, <1>3
  <1> HIDE DEF v2
  <1>5. v3 \in Int
    BY <1>1, <1>2, <1>4
  <1>6. PathLen(from, s, e) = Shifted(v3, s + 3, e)
    BY DEF PathLen, v1, v2
  <1> HIDE DEF v3
  <1> QED  BY <1>1, <1>2, <1>5, <1>6

LEMMA CheckedPathLen ==
    ASSUME NEW path \in Place, Ok(CheckPathLen(path))
    PROVE  Ok(path)
  <1> DEFINE c1 == Present(path) => path.idx < path.end
             nonempty == Require(path, c1, "UNEXPECTED_END_OF_DATA")
             c2 == Present(path) => /\ cert.byte[path.idx] < 128
                                    /\ path.end - path.idx <= 4
             natural == Require(nonempty, c2, "INVALID_INTEGER")
             c3 == Past(natural).idx = end.item
             whole == Require(natural, c3, "TRAILING_DATA")
  <1>1. Ok(whole)
    BY DEF CheckPathLen
  <1> HIDE DEF c1
  <1>2. nonempty \in Place /\ (Ok(nonempty) => Ok(path))
    BY DEF Require, Place, Ok, ParseCodes
  <1> HIDE DEF nonempty, c2
  <1>3. natural \in Place /\ (Ok(natural) => Ok(nonempty))
    BY <1>2 DEF Require, Place, Ok, ParseCodes
  <1> HIDE DEF natural, c3
  <1>4. Ok(whole) => Ok(natural)
    BY <1>3 DEF Require, Place, Ok, ParseCodes
  <1> QED  BY <1>1, <1>2, <1>3, <1>4

LEMMA BasicConstraintSettles == Inv /\ FInv /\ parse_basic_constraint => FInv'
  <1> SUFFICES ASSUME Inv, FInv, parse_basic_constraint PROVE FInv'
    OBVIOUS
  <1> DEFINE seq == parse_data_element(cert, DER_SEQUENCE, At(idx), end.item)
             ca == parse_default_bool(cert, seq, seq.end)
             opt == parse_optional_data(cert, DER_INTEGER, ca, seq.end)
             path == IF Present(ca) THEN opt ELSE ca
             whole == CheckPathLen(path)
             old == fields.path_len_constraint
             plen == IF ~Present(ca) THEN old ELSE IF ~Present(path) THEN MAX_UINT32
                     ELSE PathLen(old, path.idx, path.end)
             new == [fields EXCEPT !.key_cert_sign = Present(ca), !.path_len_constraint = plen]
  <1>1. pc = "basic_constraint" /\ ExtnParsed(whole, new)
    BY DEF parse_basic_constraint
  <1>2. idx <= end.item /\ end.item <= cert.size /\ pc \in ExtnPlaces
    BY <1>1, ItemBounds DEF ExtnPlaces
  <1>3. Reads(seq, At(idx), end.item)
    BY <1>2, Basics, ParseElement
  <1> HIDE DEF seq
  <1>4. seq.end \in Nat /\ (Ok(seq) => seq.end <= cert.size)
    BY <1>2, <1>3, Basics DEF Reads, Place
  <1>5. Skips(ca, seq, seq.end)
    BY <1>3, <1>4, Basics, ParseBool DEF Reads
  <1> HIDE DEF ca
  <1>6. Skips(opt, ca, seq.end)
    BY <1>4, <1>5, Basics, ParseOptional DEF Skips
  <1> HIDE DEF opt
  <1>7. path \in Place /\ (Ok(path) => Ok(seq)) /\ (Ok(path) => path.end <= seq.end)
    BY <1>4, <1>5, <1>6 DEF Skips, Place, IDX_NONE
  <1>8. Present(ca) \in BOOLEAN
    BY DEF Present
  <1> HIDE DEF path
  <1>9. Ok(whole) => Ok(path)
    BY <1>7, CheckedPathLen
  <1> HIDE DEF whole
  <1>10. old \in Int /\ old = 0
    BY <1>1, <1>2, FromExtnToNext DEF FInv, Unset, InExtns
  <1>11. Ok(whole) => plen \in Int
    <2> SUFFICES ASSUME Ok(whole) PROVE plen \in Int
      OBVIOUS
    <2>1. path.idx \in Nat /\ path.end \in Nat /\ path.end <= cert.size
      BY <1>4, <1>7, <1>9, Basics DEF Place
    <2>2. PathLen(old, path.idx, path.end) \in Int
      BY <1>10, <2>1, PathLenNumber
    <2> HIDE DEF old
    <2> QED  BY <1>10, <2>2 DEF MAX_UINT32
  <1>12. Present(ca) = FALSE => plen = 0
    BY <1>8, <1>10
  <1> HIDE DEF plen, old
  <1>13. /\ new.not_before = fields.not_before /\ new.not_after = fields.not_after
         /\ new.key_cert_sign = Present(ca)
         /\ new.path_len_constraint = plen
         /\ new.has_key_usage = fields.has_key_usage
         /\ new.has_ext_key_usage = fields.has_ext_key_usage
         /\ new.key_usage_flags = fields.key_usage_flags
    BY DEF Inv, TypeOK, Regions, Values
  <1> HIDE DEF new
  <1>14. /\ Goes("extension") /\ UNCHANGED extn_oids
         /\ code' = "PARSE_OK" => Ok(whole) /\ fields' = new
    BY <1>1, ExtnWrites
  <1>15. CASE code' # "PARSE_OK"
    BY <1>14, <1>15, FailedKeeps DEF Goes
  <1>16. CASE code' = "PARSE_OK"
    <2>1. fields' = new /\ pc' = "extension" /\ plen \in Int
      BY <1>11, <1>14, <1>16 DEF Goes
    <2>2. pc \in DefaultsAt
      BY <1>1 DEF DefaultsAt, ItemPlaces
    <2>3. Dated'
      BY <1>2, <1>13, <2>1, FromExtnToNext DEF Dated
    <2>4. Settled'
      BY <1>2, <1>8, <1>13, <2>1, FromExtnToNext, Zenon DEF Settled
    <2>5. Flagged'
      <3>1. /\ \A k \in fields.key_usage_flags : k < 16 => fields.has_key_usage = TRUE
            /\ \A k \in fields.key_usage_flags : k >= 16 => fields.has_ext_key_usage = TRUE
        BY <1>1, <2>2 DEF FInv, Flagged, Since
      <3> QED  BY <1>12, <1>13, <2>1, <3>1 DEF Flagged
    <2>6. Unset'
      <3>1. Seen(BC_OID)
        BY <1>1 DEF FInv, Unset
      <3>2. Seen(BC_OID)'
        BY <1>14, <3>1 DEF Seen
      <3> QED  BY <2>1, <3>2 DEF Unset
    <2> QED  BY <2>3, <2>4, <2>5, <2>6 DEF FInv
  <1> QED  BY <1>15, <1>16


LEMMA BasicConstraintOid ==
    ASSUME NEW oid, Supported(oid), parse_extn(oid) = "basic_constraint"
    PROVE  oid = BC_OID
  <1> DEFINE e == CHOOSE x \in SupportedExtns : x.oid = oid
  <1>1. e \in SupportedExtns /\ e.oid = oid
    BY DEF Supported
  <1>2. e.parse = "basic_constraint"
    BY DEF parse_extn
  <1> HIDE DEF e
  <1>3. \A x \in SupportedExtns : x.parse = "basic_constraint" => x.oid = BC_OID
    <2> SUFFICES ASSUME NEW x \in SupportedExtns, x.parse = "basic_constraint"
                 PROVE  x.oid = BC_OID
      OBVIOUS
    <2>1. CASE x = [oid |-> <<85, 29, 19>>, critical |-> {TRUE}, parse |-> "basic_constraint"]
      BY <2>1 DEF BC_OID
    <2>2. CASE x = [oid |-> <<85, 29, 35>>, critical |-> {FALSE}, parse |-> "akid"]
      BY <2>2
    <2>3. CASE x = [oid |-> <<85, 29, 14>>, critical |-> {FALSE}, parse |-> "skid"]
      BY <2>3
    <2>4. CASE x = [oid |-> <<85, 29, 15>>, critical |-> {FALSE, TRUE}, parse |-> "key_usage"]
      BY <2>4
    <2>5. CASE x = [oid |-> <<85, 29, 37>>, critical |-> {FALSE, TRUE}, parse |-> "ext_key_usage"]
      BY <2>5
    <2> QED  BY <2>1, <2>2, <2>3, <2>4, <2>5, Zenon DEF SupportedExtns
  <1> QED  BY <1>1, <1>2, <1>3

LEMMA ExtensionSettles == Inv /\ FInv /\ Extension => FInv'
  <1> SUFFICES ASSUME Inv, FInv, Extension PROVE FInv'
    OBVIOUS
  <1>1. pc = "extension" /\ UNCHANGED <<after, fields>>
    BY ExtensionReads
  <1>2. PICK r, next, oid :
            /\ r \in Place /\ next \in InExtns /\ Proceed(r, next)
            /\ Ok(r) => /\ idx < r.idx /\ r.idx <= end.list
                        /\ ~Seen(oid) /\ oid \in Seq(Byte)
                        /\ extn_oids' = Append(extn_oids, oid)
            /\ next # "extension" => Supported(oid) /\ next = parse_extn(oid)
            /\ Ok(r) /\ next \in ExtnPlaces => r.idx <= end'.item /\ end'.item <= end.list
    BY ExtensionReads
  <1>3. Goes(next) /\ (code' = "PARSE_OK" <=> Ok(r))
    BY <1>2, ProceedGoes
  <1>4. CASE code' # "PARSE_OK"
    BY <1>3, <1>4, FailedKeeps DEF Goes
  <1>5. CASE code' = "PARSE_OK"
    <2>1. pc' = next
      BY <1>3, <1>5 DEF Goes
    <2>2. pc \in DefaultsAt /\ pc \in ValidAt /\ pc \in InExtns
      BY <1>1 DEF DefaultsAt, ValidAt, KeyIdAt, KeyAt, InExtns
    <2>3. Dated'
      BY <1>1, <2>2 DEF FInv, Dated, Since
    <2>4. Settled'
      BY <1>1, <2>2 DEF FInv, Settled, Since
    <2>5. Flagged'
      BY <1>1, <2>2 DEF FInv, Flagged, Since
    <2>6. Unset'
      <3>1. next = "basic_constraint" => oid = BC_OID
        BY <1>2, BasicConstraintOid
      <3>2. ~Seen(oid) /\ (Seen(BC_OID)' <=> Seen(BC_OID) \/ BC_OID = oid)
        BY <1>2, <1>3, <1>5, SeenGrows
      <3>3. ~Seen(BC_OID) => fields.path_len_constraint = 0
        BY <2>2 DEF FInv, Unset
      <3> QED  BY <1>1, <2>1, <3>1, <3>2, <3>3 DEF Unset
    <2> QED  BY <2>3, <2>4, <2>5, <2>6 DEF FInv
  <1> QED  BY <1>4, <1>5

-----------------------------------------------------------------------------

LEMMA InitSettled == Init => FInv
  BY DEF Init, FInv, Dated, Settled, Flagged, Unset, Since, Parsed, InSubject, ValidAt, KeyIdAt,
         KeyAt, DefaultsAt, ItemPlaces, InExtns, ExtnPlaces

(***************************************************************************)
(* Where each step that writes no value comes from and goes to.            *)
(***************************************************************************)
LEMMA HeadSettles ==
    ASSUME Inv, FInv,
           \/ Certificate \/ TBSCertificate \/ Version \/ SerialNumber \/ Signature
           \/ Issuer \/ Subject \/ RelativeName \/ Attribute \/ NameEnds \/ Validity
           \/ SubjectPublicKeyInfo \/ Algorithm \/ SubjectPublicKey \/ UniqueIDs
    PROVE  FInv'
  <1> USE DEF InSubject, ValidAt, KeyIdAt, KeyAt, DefaultsAt, ItemPlaces
  <1>0. UNCHANGED fields => SameValues
    BY DEF SameValues
  <1>1. CASE Certificate
    BY <1>0, <1>1, Headers, HeadKeeps
  <1>2. CASE TBSCertificate
    BY <1>2, Written, HeadKeeps
  <1>3. CASE Version
    BY <1>0, <1>3, Headers, HeadKeeps
  <1>4. CASE SerialNumber
    BY <1>4, Written, HeadKeeps
  <1>5. CASE Signature
    BY <1>5, Written, HeadKeeps
  <1>6. CASE Issuer
    BY <1>0, <1>6, Headers, HeadKeeps
  <1>7. CASE Subject
    <2>1. pc = "subject"
      BY <1>7 DEF Subject
    <2> QED  BY <1>0, <1>7, <2>1, Headers, HeadKeeps
  <1>8. CASE RelativeName
    <2>1. pc = "relative_name"
      BY <1>8 DEF RelativeName
    <2> QED  BY <1>0, <1>8, <2>1, Headers, HeadKeeps
  <1>9. CASE Attribute
    <2>1. pc = "attribute"
      BY <1>9 DEF Attribute
    <2>2. SameValues /\ after' = after
      BY <1>0, <1>9, AttributeGoes
    <2>3. CASE Goes("attribute")
      BY <2>1, <2>2, <2>3, HeadKeeps
    <2>4. CASE Goes("relative_name")
      BY <2>1, <2>2, <2>4, HeadKeeps
    <2> QED  BY <1>9, <2>3, <2>4, AttributeGoes
  <1>10. CASE NameEnds
    <2>1. pc = "relative_name" /\ after \in {"validity", "public_key_info"}
      BY <1>10 DEF NameEnds, Inv, TypeOK
    <2>2. Goes(after) /\ SameValues /\ after' = after
      BY <1>0, <1>10, Headers
    <2> QED  BY <2>1, <2>2, HeadKeeps
  <1>11. CASE Validity
    BY <1>0, <1>11, Headers, HeadKeeps
  <1>12. CASE SubjectPublicKeyInfo
    <2>1. pc = "public_key_info"
      BY <1>12 DEF SubjectPublicKeyInfo
    <2> QED  BY <1>0, <1>12, <2>1, Headers, HeadKeeps
  <1>13. CASE Algorithm
    <2>1. pc = "algorithm"
      BY <1>13 DEF Algorithm
    <2> QED  BY <1>13, <2>1, Written, HeadKeeps
  <1>14. CASE SubjectPublicKey
    <2>1. pc = "public_key"
      BY <1>14 DEF SubjectPublicKey
    <2> QED  BY <1>14, <2>1, Written, HeadKeeps
  <1>15. CASE UniqueIDs
    <2>1. pc = "unique_ids"
      BY <1>15 DEF UniqueIDs
    <2> QED  BY <1>0, <1>15, <2>1, Headers, HeadKeeps
  <1> QED  BY <1>1, <1>2, <1>3, <1>4, <1>5, <1>6, <1>7, <1>8, <1>9, <1>10, <1>11, <1>12, <1>13,
             <1>14, <1>15

LEMMA TailSettles ==
    ASSUME Inv, FInv,
           \/ ExtensionsEnd \/ parse_akid \/ parse_skid \/ parse_ext_key_usage
           \/ SignatureAlgorithm \/ SignatureValue
    PROVE  FInv'
  <1> USE DEF DefaultsAt, ItemPlaces, InExtns, ExtnPlaces
  <1>0. UNCHANGED fields => SameValues
    BY DEF SameValues
  <1>1. CASE ExtensionsEnd
    <2>1. pc = "extension"
      BY <1>1 DEF ExtensionsEnd
    <2> QED  BY <1>0, <1>1, <2>1, PassesUnread, TailKeeps
  <1>2. CASE parse_akid \/ parse_skid
    BY <1>2, IdentifiersGo, TailKeeps
  <1>3. CASE parse_ext_key_usage
    <2>1. pc = "ext_key_usage"
      BY <1>3 DEF parse_ext_key_usage
    <2> QED  BY <1>0, <1>3, <2>1, PassesUnread, TailKeeps
  <1>4. CASE SignatureAlgorithm
    <2>1. pc = "end_of_tbs"
      BY <1>4 DEF SignatureAlgorithm
    <2> QED  BY <1>0, <1>4, <2>1, PassesUnread, TailKeeps
  <1>5. CASE SignatureValue
    <2>1. pc = "signature_value"
      BY <1>5 DEF SignatureValue
    <2> QED  BY <1>5, <2>1, Written, TailKeeps
  <1> QED  BY <1>1, <1>2, <1>3, <1>4, <1>5

LEMMA NextSettles == Inv /\ FInv /\ [Next]_vars => FInv'
  <1> SUFFICES ASSUME Inv, FInv, [Next]_vars PROVE FInv'
    OBVIOUS
  <1>1. CASE UNCHANGED vars
    BY <1>1 DEF vars, FInv, Dated, Settled, Flagged, Unset, Since, Parsed, Seen
  <1>2. CASE Next
    BY <1>2, HeadSettles, TailSettles, TimesSettle, DefaultsSettle, ExtensionSettles,
       BasicConstraintSettles, KeyUsageSettles, KeyPurposeSettles, PurposesEndSettles
       DEF Next
  <1> QED  BY <1>1, <1>2

LEMMA AlwaysSettled == Spec => [](Inv /\ FInv)
  <1>1. Init => Inv /\ FInv
    BY InitInv, InitSettled
  <1>2. (Inv /\ FInv) /\ [Next]_vars => (Inv /\ FInv)'
    BY NextInv, NextSettles
  <1> QED  BY <1>1, <1>2, PTL DEF Spec

LEMMA SettledFlags == FInv => FlagsByTheirExtension
  <1> SUFFICES ASSUME FInv, Parsed PROVE FlagsByTheirExtension
    BY DEF FlagsByTheirExtension
  <1>1. /\ fields.key_cert_sign \in BOOLEAN /\ fields.key_usage_flags \in SUBSET Nat
        /\ \A k \in fields.key_usage_flags : k < 16 => fields.has_key_usage = TRUE
        /\ \A k \in fields.key_usage_flags : k >= 16 => fields.has_ext_key_usage = TRUE
        /\ fields.key_cert_sign = FALSE => fields.path_len_constraint = 0
    BY DEF FInv, Settled, Flagged, Since, Parsed
  <1>2. \A k \in fields.key_usage_flags :
            IF k < 16 THEN fields.has_key_usage ELSE fields.has_ext_key_usage
    <2> SUFFICES ASSUME NEW k \in fields.key_usage_flags
                 PROVE  IF k < 16 THEN fields.has_key_usage ELSE fields.has_ext_key_usage
      OBVIOUS
    <2>1. k < 16 \/ k >= 16
      BY <1>1
    <2>2. (k < 16 => fields.has_key_usage) /\ (~(k < 16) => fields.has_ext_key_usage)
      BY <1>1, <2>1, Zenon
    <2> QED  BY <2>2
  <1>3. ~fields.key_cert_sign => fields.path_len_constraint = 0
    BY <1>1
  <1> QED  BY <1>2, <1>3 DEF FlagsByTheirExtension

(***************************************************************************)
(* What parse_x509 assigns: indices, times, truth values, a path length,   *)
(* flags.                                                                  *)
(***************************************************************************)
Assigned == Extent \cup Moment \cup BOOLEAN \cup Int \cup SUBSET Nat

LEMMA SettledMembers == Inv /\ FInv /\ Parsed => \A x \in Regions \cup Values : fields[x] \in Assigned
  <1> SUFFICES ASSUME Inv, FInv, Parsed, NEW x \in Regions \cup Values PROVE fields[x] \in Assigned
    OBVIOUS
  <1>1. /\ SignedKnown /\ SerialKnown /\ SigIdKnown /\ KeyIdKnown /\ KeyKnown
        /\ ExtnsKnown /\ SigKnown
    BY DEF Inv, Known, Since, Parsed
  <1>2. CASE x \in Regions
    <2>1. Region(IDX_NONE, IDX_NONE) \in Extent
      BY DEF Region, IDX_NONE, Extent
    <2>2. fields[x] \in Extent
      BY <1>1, <1>2, <2>1 DEF Regions, SignedKnown, SerialKnown, SigIdKnown, KeyIdKnown, KeyKnown,
           ExtnsKnown, SigKnown, Placed
    <2> QED  BY <2>2 DEF Assigned
  <1>3. CASE x \in Values
    <2>1. /\ fields.not_before \in Moment /\ fields.not_after \in Moment
          /\ fields.key_cert_sign \in BOOLEAN /\ fields.has_key_usage \in BOOLEAN
          /\ fields.has_ext_key_usage \in BOOLEAN
          /\ fields.path_len_constraint \in Int
          /\ fields.key_usage_flags \in SUBSET Nat
      BY DEF FInv, Dated, Settled, Since
    <2> QED  BY <1>3, <2>1, Zenon DEF Values, Assigned
  <1> QED  BY <1>2, <1>3

-----------------------------------------------------------------------------

(***************************************************************************)
(* parse_x509 on every file: when it returns PARSE_OK it has assigned      *)
(* every member of ret_fields, with or without extensions (x509.h:267).    *)
(* Garbage stands for what the caller's memory held; the hypothesis only   *)
(* says that it can be told from what the parser assigns.                  *)
(***************************************************************************)
THEOREM AssignsEveryMember ==
    ASSUME Garbage \notin Assigned
    PROVE  Spec => []FullyInitialized
  <1>1. Inv /\ FInv => FullyInitialized
    BY SettledMembers DEF FullyInitialized
  <1> QED  BY <1>1, AlwaysSettled, PTL

(***************************************************************************)
(* parse_x509 on every file: the flags below 16 are only set with          *)
(* has_key_usage, those above only with has_ext_key_usage, and the path    *)
(* length is 0 without CA:TRUE (x509.h:228, :237).                         *)
(***************************************************************************)
THEOREM FlagsOnlyByTheirExtension == Spec => []FlagsByTheirExtension
  BY AlwaysSettled, SettledFlags, PTL


-----------------------------------------------------------------------------

(***************************************************************************)
(* The times a parsed certificate states are seconds of days since the     *)
(* epoch: parse_time accepts no date that timegm would carry over into     *)
(* another one or that lies before 1970 (x509.c:538).                      *)
(***************************************************************************)
TimesAreDates == Parsed => fields.not_before \in Moment /\ fields.not_after \in Moment

(***************************************************************************)
(* parse_x509 on every file: the validity of an accepted certificate is    *)
(* that of two dates, whatever bytes the file held.                        *)
(***************************************************************************)
THEOREM ValidityIsDated == Spec => []TimesAreDates
  <1>1. FInv => TimesAreDates
    BY DEF FInv, Dated, TimesAreDates, Since
  <1> QED  BY <1>1, AlwaysSettled, PTL

(***************************************************************************)
(* No two of the extensions recorded in extn_oids have the same OID.       *)
(***************************************************************************)
NoneTwice == \A j, k \in DOMAIN extn_oids : extn_oids[j] = extn_oids[k] => j = k

LEMMA OnlyExtensionRecords == Next => Extension \/ UNCHANGED extn_oids
  <1>1. \/ Certificate \/ TBSCertificate \/ Version \/ SerialNumber \/ Signature
        => UNCHANGED extn_oids
    BY DEF Certificate, TBSCertificate, Version, SerialNumber, Signature, parse_alg_id
  <1>2. \/ Issuer \/ Subject \/ RelativeName \/ Attribute \/ NameEnds
        => UNCHANGED extn_oids
    BY DEF Issuer, Subject, parse_name, RelativeName, Attribute, NameEnds
  <1>3. \/ Validity \/ NotBefore \/ NotAfter \/ SubjectPublicKeyInfo \/ Algorithm
        \/ SubjectPublicKey \/ UniqueIDs
        => UNCHANGED extn_oids
    BY DEF Validity, NotBefore, NotAfter, parse_time, SubjectPublicKeyInfo, Algorithm, parse_alg_id,
       SubjectPublicKey, BitString, UniqueIDs
  <1>4. \/ Extensions \/ ExtensionsEnd \/ parse_basic_constraint \/ parse_akid \/ parse_skid
        \/ parse_key_usage
        => UNCHANGED extn_oids
    BY DEF Extensions, ExtensionsEnd, parse_basic_constraint, parse_akid, parse_skid,
       parse_key_usage, ExtnParsed
  <1>5. \/ parse_ext_key_usage \/ KeyPurpose \/ KeyPurposesEnd \/ SignatureAlgorithm
        \/ SignatureValue
        => UNCHANGED extn_oids
    BY DEF parse_ext_key_usage, KeyPurpose, KeyPurposesEnd, ExtnParsed, SignatureAlgorithm,
       SignatureValue, BitString
  <1> QED  BY <1>1, <1>2, <1>3, <1>4, <1>5 DEF Next

LEMMA NotReturned == Next => pc # "returned"
  <1>1. \/ Certificate \/ TBSCertificate \/ Version \/ SerialNumber \/ Signature
        \/ Issuer \/ Subject \/ RelativeName \/ Attribute \/ NameEnds \/ Validity
        \/ NotBefore \/ NotAfter \/ SubjectPublicKeyInfo \/ Algorithm \/ SubjectPublicKey
        => pc # "returned"
    BY DEF Certificate, TBSCertificate, Version, SerialNumber, Signature, Issuer, Subject,
       RelativeName, Attribute, NameEnds, Validity, NotBefore, NotAfter, SubjectPublicKeyInfo,
       Algorithm, SubjectPublicKey
  <1>2. \/ UniqueIDs \/ Extensions \/ Extension \/ ExtensionsEnd \/ parse_basic_constraint
        \/ parse_akid \/ parse_skid \/ parse_key_usage \/ parse_ext_key_usage \/ KeyPurpose
        \/ KeyPurposesEnd \/ SignatureAlgorithm \/ SignatureValue
        => pc # "returned"
    BY DEF UniqueIDs, Extensions, Extension, ExtensionsEnd, parse_basic_constraint, parse_akid,
       parse_skid, parse_key_usage, parse_ext_key_usage, KeyPurpose, KeyPurposesEnd,
       SignatureAlgorithm, SignatureValue
  <1> QED  BY <1>1, <1>2 DEF Next

(***************************************************************************)
(* While the parser goes on, and when it returns PARSE_OK.                 *)
(***************************************************************************)
OnceEach == pc # "returned" \/ code = "PARSE_OK" => NoneTwice

LEMMA ExtensionOnce == Inv /\ OnceEach /\ Extension => OnceEach'
  <1> SUFFICES ASSUME Inv, OnceEach, Extension PROVE OnceEach'
    OBVIOUS
  <1>1. NoneTwice
    BY DEF OnceEach, Extension
  <1>2. PICK r, next, oid :
            /\ Proceed(r, next)
            /\ Ok(r) => ~Seen(oid) /\ oid \in Seq(Byte) /\ extn_oids' = Append(extn_oids, oid)
    BY ExtensionReads
  <1>3. CASE ~Ok(r)
    BY <1>2, <1>3 DEF Proceed, Ok, OnceEach
  <1>4. CASE Ok(r)
    <2>0. oid \in Seq(Byte) /\ extn_oids' = Append(extn_oids, oid) /\ extn_oids \in Seq(Seq(Byte))
      BY <1>2, <1>4, Basics
    <2>1. /\ Len(extn_oids) \in Nat /\ DOMAIN extn_oids = 1 .. Len(extn_oids)
          /\ DOMAIN extn_oids' = 1 .. Len(extn_oids) + 1
          /\ extn_oids'[Len(extn_oids) + 1] = oid
          /\ \A k \in 1 .. Len(extn_oids) : extn_oids'[k] = extn_oids[k]
      BY <2>0
    <2>2. \A k \in DOMAIN extn_oids' : k \in DOMAIN extn_oids \/ k = Len(extn_oids) + 1
      BY <2>1
    <2>3. \A k \in DOMAIN extn_oids : extn_oids'[k] = extn_oids[k] /\ extn_oids[k] # oid
      BY <1>2, <1>4, <2>1 DEF Seen
    <2>4. NoneTwice'
      BY <1>1, <2>1, <2>2, <2>3 DEF NoneTwice
    <2> QED  BY <2>4 DEF OnceEach
  <1> QED  BY <1>3, <1>4

(***************************************************************************)
(* parse_x509 on every file: the extensions of an accepted certificate are *)
(* all different, and at most MAX_EXTN (x509.c:847, :899).                 *)
(***************************************************************************)
NoExtensionTwice == Parsed => NoneTwice /\ Len(extn_oids) <= MaxExtn

(***************************************************************************)
(* The search through the OIDs already seen misses none of them: each is   *)
(* recorded when it is accepted and none is dropped again.  So each member *)
(* of ret_fields that an extension sets is set by one extension.           *)
(***************************************************************************)
THEOREM ExtensionsAreDistinct == Spec => []NoExtensionTwice
  <1>1. Init => OnceEach
    BY DEF Init, OnceEach, NoneTwice
  <1>2. Inv /\ OnceEach /\ [Next]_vars => OnceEach'
    <2> SUFFICES ASSUME Inv, OnceEach, [Next]_vars PROVE OnceEach'
      OBVIOUS
    <2>1. CASE UNCHANGED vars
      BY <2>1 DEF vars, OnceEach, NoneTwice
    <2>2. CASE Extension
      BY <2>2, ExtensionOnce
    <2>3. CASE Next /\ UNCHANGED extn_oids
      BY <2>3, NotReturned DEF OnceEach, NoneTwice
    <2> QED  BY <2>1, <2>2, <2>3, OnlyExtensionRecords
  <1>3. Inv /\ OnceEach => NoExtensionTwice
    BY Basics DEF OnceEach, NoExtensionTwice, Parsed
  <1> QED  BY <1>1, <1>2, <1>3, AlwaysSettled, PTL DEF Spec

=============================================================================
