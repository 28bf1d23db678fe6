------------------------------- MODULE MCX509 -------------------------------
(***************************************************************************)
(* Certificates for parse_x509.  A document names the parts it is made of; *)
(* the tables below give the encoding of each part, whether it is one that *)
(* the parser is to accept, and what it says.  A document may also have    *)
(* one byte of its encoding replaced.                                      *)
(***************************************************************************)
EXTENDS X509, SequencesExt, TLC

TLV(tag, body) ==
    LET n == Len(body)
    IN  <<tag>> \o (CASE n < 128 -> <<n>>
                      [] n \in 128 .. 255 -> <<129, n>>
                      [] OTHER -> <<130, n \div 256, n % 256>>) \o body

Good(bytes) == [bytes |-> bytes, good |-> TRUE]
Bad(bytes) == [bytes |-> bytes, good |-> FALSE]

Oid(n) == TLV(DER_OID, <<n>>)
Attr(values) == TLV(DER_SEQUENCE, Oid(1) \o values)
Text == TLV(12, <<65>>)
Rdn(attributes) == TLV(DER_SET, attributes)

Name ==
    [empty      |-> Good(<<>>),
     one        |-> Good(Rdn(Attr(Text))),
     many       |-> Good(Rdn(Attr(Text) \o Attr(Text)) \o Rdn(Attr(Text))),
     empty_set  |-> Bad(Rdn(<<>>)),
     no_value   |-> Bad(Rdn(Attr(<<>>))),
     two_values |-> Bad(Rdn(Attr(Text \o Text))),
     no_attr    |-> Bad(Rdn(Attr(Text) \o Text))]

-----------------------------------------------------------------------------

Digit2(n) == <<48 + (n \div 10), 48 + (n % 10)>>

Zulu(tm) == Digit2(tm.mon + 1) \o Digit2(tm.mday) \o Digit2(tm.hour) \o Digit2(tm.min)
                \o Digit2(tm.sec) \o <<90>>

Date(y, mon, mday) ==
    [year |-> y - 1900, mon |-> mon - 1, mday |-> mday, hour |-> 23, min |-> 59, sec |-> 9]

Utc(tm) == [bytes |-> TLV(DER_UTCTIME, Digit2(tm.year % 100) \o Zulu(tm)), tm |-> tm]

General(tm) ==
    [bytes |-> TLV(DER_GENERALIZEDTIME, Digit2((tm.year + 1900) \div 100)
                                            \o Digit2(tm.year % 100) \o Zulu(tm)), tm |-> tm]

Time ==
    [y1970  |-> Utc(Date(1970, 1, 1))  @@ [good |-> TRUE],
     y2024  |-> Utc(Date(2024, 2, 29)) @@ [good |-> TRUE],
     y2049  |-> Utc(Date(2049, 12, 31)) @@ [good |-> TRUE],
     y2050  |-> General(Date(2050, 6, 30)) @@ [good |-> TRUE],
     y1969  |-> Utc(Date(1969, 12, 31)) @@ [good |-> FALSE],
     feb29  |-> Utc(Date(2023, 2, 29)) @@ [good |-> FALSE],
     month0 |-> Utc(Date(2024, 0, 1)) @@ [good |-> FALSE],
     hour24 |-> Utc([Date(2024, 1, 1) EXCEPT !.hour = 24]) @@ [good |-> FALSE],
     local  |-> Bad(TLV(DER_UTCTIME, Digit2(24) \o Front(Zulu(Date(2024, 1, 1))) \o <<43>>))]

-----------------------------------------------------------------------------

Ext(n, critical, value, good, says) ==
    [oid |-> n, good |-> good, says |-> says,
     bytes |-> TLV(DER_SEQUENCE, TLV(DER_OID, <<85, 29, n>>) \o critical
                                     \o TLV(DER_OCTET_STRING, value))]

Critical == TLV(DER_BOOLEAN, <<255>>)

Purpose(last) == TLV(DER_OID, KP_OID \o <<last>>)

Extn ==
    [ca       |-> Ext(19, Critical, TLV(DER_SEQUENCE, Critical), TRUE,
                      [key_cert_sign |-> TRUE, path_len_constraint |-> MAX_UINT32]),
     ca_path  |-> Ext(19, Critical, TLV(DER_SEQUENCE, Critical \o TLV(DER_INTEGER, <<1, 2>>)), TRUE,
                      [key_cert_sign |-> TRUE, path_len_constraint |-> 258]),
     no_ca    |-> Ext(19, Critical, TLV(DER_SEQUENCE, <<>>), TRUE, [key_cert_sign |-> FALSE]),
     negative |-> Ext(19, Critical, TLV(DER_SEQUENCE, Critical \o TLV(DER_INTEGER, <<255>>)),
                      FALSE, <<>>),
     not_crit |-> Ext(19, <<>>, TLV(DER_SEQUENCE, Critical), FALSE, <<>>),
     akid     |-> Ext(35, <<>>, TLV(DER_SEQUENCE, TLV(128, <<7>>)), TRUE, [akid |-> <<7>>]),
     akid_all |-> Ext(35, <<>>,
                      TLV(DER_SEQUENCE, TLV(128, <<7>>) \o TLV(161, <<8>>) \o TLV(130, <<9>>)), TRUE,
                      [akid |-> <<7>>]),
     akid_not |-> Ext(35, <<>>, TLV(DER_SEQUENCE, TLV(130, <<9>>)), TRUE, [akid |-> <<>>]),
     akid_odd |-> Ext(35, <<>>, TLV(DER_SEQUENCE, TLV(130, <<9>>) \o TLV(128, <<7>>)), FALSE, <<>>),
     skid     |-> Ext(14, <<>>, TLV(DER_OCTET_STRING, <<7>>), TRUE, [skid |-> <<7>>]),
     skid_two |-> Ext(14, <<>>, TLV(DER_OCTET_STRING, <<7>>) \o <<7>>, FALSE, <<>>),
     sign     |-> Ext(15, Critical, TLV(DER_BITSTRING, <<2, 132>>), TRUE,
                      [has_key_usage |-> TRUE, key_usage_flags |-> {2, 7}]),
     agree    |-> Ext(15, <<>>, TLV(DER_BITSTRING, <<7, 8, 128>>), TRUE,
                      [has_key_usage |-> TRUE, key_usage_flags |-> {3, 15}]),
     padded   |-> Ext(15, <<>>, TLV(DER_BITSTRING, <<0, 132>>), FALSE, <<>>),
     code     |-> Ext(37, <<>>, TLV(DER_SEQUENCE, Purpose(1) \o Purpose(3)), TRUE,
                      [has_ext_key_usage |-> TRUE, key_usage_flags |-> {17, 19}]),
     other    |-> Ext(37, <<>>, TLV(DER_SEQUENCE, Purpose(7) \o Oid(3)), TRUE,
                      [has_ext_key_usage |-> TRUE]),
     policy   |-> Ext(32, <<>>, <<1>>, TRUE, <<>>),
     must     |-> Ext(33, Critical, <<1>>, FALSE, <<>>),
     explicit |-> Ext(32, TLV(DER_BOOLEAN, <<0>>), <<1>>, FALSE, <<>>)]

Outer ==
    [same |-> Good(<<1>>), differs |-> Bad(<<2>>), longer |-> Bad(<<1, 2>>), none |-> Bad(<<>>)]

-----------------------------------------------------------------------------

AlgId(n) == TLV(DER_SEQUENCE, TLV(DER_OID, n))
BitStr(bytes) == TLV(DER_BITSTRING, <<0>> \o bytes)

TBS(d) ==
    TLV(DER_SEQUENCE,
        TLV(DER_EXPLICIT_0, TLV(DER_INTEGER, <<2>>)) \o TLV(DER_INTEGER, <<5>>) \o AlgId(<<1>>)
        \o TLV(DER_SEQUENCE, Name[d.issuer].bytes)
        \o TLV(DER_SEQUENCE, Time[d.before].bytes \o Time[d.after].bytes)
        \o TLV(DER_SEQUENCE, Name[d.subject].bytes)
        \o TLV(DER_SEQUENCE, AlgId(<<4>>) \o BitStr(<<6>>))
        \o (IF 1 \in d.uids THEN TLV(DER_IMPLICIT_1, <<1>>) ELSE <<>>)
        \o (IF 2 \in d.uids THEN TLV(DER_IMPLICIT_2, <<1>>) ELSE <<>>)
        \o (IF d.exts = <<>> THEN <<>>
            ELSE TLV(DER_EXPLICIT_3, TLV(DER_SEQUENCE,
                     FlattenSeq([k \in DOMAIN d.exts |-> Extn[d.exts[k]].bytes])))))

Encoded(d) == TLV(DER_SEQUENCE, TBS(d) \o AlgId(Outer[d.outer].bytes) \o BitStr(<<3>>))

RawOf(d) == [Encoded(d) EXCEPT ![d.patch[1]] = d.patch[2]]

FileFor(d) ==
    LET raw == RawOf(d)
    IN  [doc |-> d] @@ FileOf(256, 8, [i \in 0 .. Len(raw) - 1 |-> raw[i + 1]], Len(raw))

Whole == <<1, DER_SEQUENCE>>        \* the first byte is what it was

Plain ==
    [issuer |-> "one", subject |-> "empty", before |-> "y1970", after |-> "y2049",
     uids |-> {}, exts |-> <<>>, outer |-> "same", patch |-> Whole]

(***************************************************************************)
(* Two certificates that between them have every extension, with each byte *)
(* replaced in turn.                                                       *)
(***************************************************************************)
Complete == {[Plain EXCEPT !.exts = <<"ca_path", "sign", "code">>],
             [Plain EXCEPT !.exts = <<"akid_all", "skid", "policy">>, !.after = "y2050"]}

Patched(values) ==
    UNION {{[d EXCEPT !.patch = <<i, b>>] : i \in 1 .. Len(Encoded(d)), b \in values} :
              d \in Complete}

Few == {"ca", "skid", "agree", "policy"}

TimeDocuments ==
    {[Plain EXCEPT !.before = t, !.after = u] : t \in DOMAIN Time, u \in DOMAIN Time}

Documents ==
    TimeDocuments
    \cup {[Plain EXCEPT !.issuer = n, !.subject = m] : n \in DOMAIN Name, m \in DOMAIN Name}
    \cup {[Plain EXCEPT !.uids = u, !.outer = o] : u \in SUBSET {1, 2}, o \in DOMAIN Outer}
    \cup {[Plain EXCEPT !.exts = <<x, y>>] : x \in DOMAIN Extn, y \in DOMAIN Extn}
    \cup {[Plain EXCEPT !.exts = x] :
              x \in [1 .. 3 -> Few] \cup {<<"ca", "skid", "agree", "policy">>}}
    \cup Complete \cup Patched({0, 48, 255})

TimeCerts == {FileFor(d) : d \in TimeDocuments}

MCCerts == {FileFor(d) : d \in Documents}

-----------------------------------------------------------------------------

Said(d, x) ==
    {e.says[x] : e \in {g \in {Extn[d.exts[k]] : k \in DOMAIN d.exts} : x \in DOMAIN g.says}}

Says(d, x, default) == IF Said(d, x) = {} THEN default ELSE CHOOSE v \in Said(d, x) : TRUE

Acceptable(d) ==
    /\ Name[d.issuer].good /\ Name[d.subject].good
    /\ Time[d.before].good /\ Time[d.after].good
    /\ Outer[d.outer].good
    /\ Len(d.exts) <= MaxExtn
    /\ \A k \in DOMAIN d.exts :
          Extn[d.exts[k]].good /\ \A j \in 1 .. k - 1 : Extn[d.exts[j]].oid # Extn[d.exts[k]].oid

(***************************************************************************)
(* parse_x509 accepts exactly the documents whose parts are all well       *)
(* formed, with no more than MAX_EXTN extensions, none of them twice, and  *)
(* the criticality that each extension calls for.                          *)
(***************************************************************************)
AcceptsExactly ==
    pc = "returned" /\ cert.doc.patch = Whole => (code = "PARSE_OK") = Acceptable(cert.doc)

(***************************************************************************)
(* What the extensions say reaches the caller, in whatever order they come *)
(* (x509.h:223-241); all but decipherOnly, which the server does not ask   *)
(* for.                                                                    *)
(***************************************************************************)
FieldsAsWritten ==
    Parsed /\ cert.doc.patch = Whole =>
        /\ \A x \in {"key_cert_sign", "has_key_usage", "has_ext_key_usage"} :
               fields[x] = Says(cert.doc, x, FALSE)
        /\ fields.path_len_constraint = Says(cert.doc, "path_len_constraint", 0)
        /\ fields.key_usage_flags \ {8, 15} = UNION Said(cert.doc, "key_usage_flags") \ {8, 15}
        /\ \A x \in {"akid", "skid"} :
               Bytes(fields[x].start, fields[x].end) = Says(cert.doc, x, <<>>)
        /\ \A x \in {"before", "after"} : Time[cert.doc[x]].bytes[1] = DER_UTCTIME =>
               fields["not_" \o x] = timegm(Time[cert.doc[x]].tm)

(***************************************************************************)
(* "Contains the not_before field of the certificate, converted to a unix  *)
(* timestamp" (x509.h:215), in either form of a time.                      *)
(***************************************************************************)
TimesAsWritten ==
    Parsed /\ cert.doc.patch = Whole =>
        /\ fields.not_before = timegm(Time[cert.doc.before].tm)
        /\ fields.not_after = timegm(Time[cert.doc.after].tm)

=============================================================================
