----------------------------- MODULE CertCheck ------------------------------
(***************************************************************************)
(* The decisions of crypto.c on one parsed certificate, without the        *)
(* OpenSSL calls: validity, self-signature identifiers, key usage and      *)
(* algorithm.  A file of the certificate directory is described by what    *)
(* the code can tell about it.                                             *)
(***************************************************************************)
EXTENDS Integers

CONSTANTS
    Files,      \* the files that may be given to the server
    Cert,       \* what each file holds
    Times       \* the values time() may return

NoId == "none"
Usages == {"sign", "key_cert_sign", "code_signing"}
Algs == {"ed25519", "ed448", "rsa"}

CertType ==
    [size : Nat,                \* st_size
     mappable : BOOLEAN,        \* mmap works: it is no directory
     parses : BOOLEAN,          \* parse_x509 returns PARSE_OK
     not_before : Int, not_after : Int,
     ca : BOOLEAN,              \* fields->key_cert_sign
     skid : {NoId, "a", "b"}, akid : {NoId, "a", "b"},
     has_key_usage : BOOLEAN, has_ext_key_usage : BOOLEAN,
     usage : SUBSET Usages,     \* the flags of the mask that are set
     alg : Algs \cup {"other"}, \* by the public key's oid
     params : BOOLEAN,          \* the key's parameters are the ones expected
     sig_alg : BOOLEAN,         \* the signature algorithm is one for this key
     key : BOOLEAN,             \* the key decodes and has a supported size
     self_signed : BOOLEAN]     \* the signature verifies with the key itself

ASSUME CertAssumption ==
    /\ Cert \in [Files -> CertType]
    /\ Times \subseteq Int

(***************************************************************************)
(* What extract_self_sign_for_code_sign asks of the parsed fields before   *)
(* it extracts the key.  akid and skid must both be present and equal, or  *)
(* both be absent.  Which check failed only chooses the message.           *)
(***************************************************************************)
IdsMatch(c) == (c.skid # NoId) = (c.akid # NoId) /\ c.skid = c.akid

InTime(c, now) == now <= c.not_after /\ c.not_before <= now

AnyIssuer(c, now) ==        \* mutant: akid and skid are not compared
    /\ InTime(c, now)
    /\ c.ca
    /\ c.has_key_usage /\ c.has_ext_key_usage /\ Usages \subseteq c.usage

MaySignCode(c, now) ==
    /\ InTime(c, now)
    /\ c.ca
    /\ IdsMatch(c)
    /\ c.has_key_usage /\ c.has_ext_key_usage /\ Usages \subseteq c.usage

(***************************************************************************)
(* What the extraction of the key asks of the algorithm identifiers and of *)
(* the encoded key.                                                        *)
(***************************************************************************)
SoundKey(c) == c.params /\ c.sig_alg /\ c.key

(***************************************************************************)
(* The certificates that are to be trusted while they are in their period  *)
(* of validity: "Each certificate will be parsed and verified, and only    *)
(* valid ceriticates will be used for signature verification.  Only        *)
(* self-signed certificates are accepted." (readme.md:38)                  *)
(***************************************************************************)
Trustworthy(c) ==
    /\ c.size > 0 /\ c.mappable /\ c.parses
    /\ c.alg \in Algs /\ SoundKey(c)
    /\ c.self_signed /\ c.skid = c.akid
    /\ c.ca /\ c.has_key_usage /\ c.has_ext_key_usage /\ c.usage = Usages

=============================================================================
