---------------------------- MODULE MCCertLoader ----------------------------
(***************************************************************************)
(* Instances of CertLoader: good certificates of both kinds of key, one    *)
(* that expires while the server loads or serves, one per way to be        *)
(* rejected, and directories of up to MaxEntries files.                    *)
(***************************************************************************)
EXTENDS CertLoader

CONSTANT MaxEntries

Good ==
    [size |-> 9, mappable |-> TRUE, parses |-> TRUE, not_before |-> 1, not_after |-> 9,
     ca |-> TRUE, skid |-> "a", akid |-> "a", has_key_usage |-> TRUE,
     has_ext_key_usage |-> TRUE, usage |-> Usages, alg |-> "ed25519", params |-> TRUE,
     sig_alg |-> TRUE, key |-> TRUE, self_signed |-> TRUE]

Rsa == [Good EXCEPT !.alg = "rsa"]

MCCert ==
    [ed        |-> [Good EXCEPT !.skid = NoId, !.akid = NoId],
     rsa       |-> Rsa,
     rsa2      |-> Rsa,
     brief     |-> [Good EXCEPT !.alg = "ed448", !.not_after = 1],
     future    |-> [Good EXCEPT !.not_before = 2],
     forged    |-> [Good EXCEPT !.self_signed = FALSE],
     foreign   |-> [Good EXCEPT !.akid = "b"],
     rsa2048   |-> [Rsa EXCEPT !.key = FALSE],
     rsasha1   |-> [Rsa EXCEPT !.sig_alg = FALSE],
     edparams  |-> [Good EXCEPT !.params = FALSE],
     noparse   |-> [Good EXCEPT !.parses = FALSE],
     empty     |-> [Good EXCEPT !.size = 0],
     subdir    |-> [Good EXCEPT !.mappable = FALSE],
     ecdsa     |-> [Good EXCEPT !.alg = "other"]]

MCFiles == DOMAIN MCCert

MCPaths ==
    {[kind |-> "absent", len |-> 0, entries |-> {}],
     [kind |-> "missing", len |-> 5, entries |-> {}],
     [kind |-> "dir", len |-> 1, entries |-> {}]} \cup
    {[kind |-> "file", len |-> 5, entries |-> {f}] : f \in MCFiles} \cup
    {[kind |-> "dir", len |-> 5, entries |-> fs] :
        fs \in {s \in SUBSET MCFiles : Cardinality(s) <= MaxEntries}}

=============================================================================
