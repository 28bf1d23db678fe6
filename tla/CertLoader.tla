----------------------------- MODULE CertLoader -----------------------------
(***************************************************************************)
(* The start of main_protected, up to the first epoll_wait: opening the    *)
(* socket, loading the trusted certificates into the array of keys with    *)
(* read_cert, parse_x509 and the key extraction of crypto.c; what serving  *)
(* does to that array; and free_all when main_protected returns.           *)
(*                                                                         *)
(* A member of a key is named by the file whose extraction wrote it, and   *)
(* so are OpenSSL's key and digest objects.                                *)
(***************************************************************************)
EXTENDS CertCheck, FiniteSets, Functions, Sequences

CONSTANTS
    Paths,      \* what the program's argument may name
    KeysInit,   \* the first capacity of the key array, 4
    Fresh,      \* what a pointer in memory from malloc may hold
    Failing,    \* system and OpenSSL calls that may fail
    Null, Garbage

SetupCalls == <<"socket", "bind", "listen", "epoll_create1", "epoll_ctl">>

(***************************************************************************)
(* The calls with which rsa_extract prepares the key, in order; the ones   *)
(* in RsaObjects allocate.                                                 *)
(***************************************************************************)
RsaCalls == <<"modulus", "exp", "rsa_build", "push", "rsa_params", "ctx",
              "fromdata_init">>
RsaObjects == {"modulus", "exp", "rsa_build", "rsa_params", "ctx"}

ASSUME LoaderAssumption ==
    /\ Paths \subseteq [kind : {"absent", "missing", "dir", "file"}, len : Nat,
                        entries : SUBSET Files]
    /\ \A p \in Paths : /\ IsFiniteSet(p.entries)
                        /\ p.kind = "file" => Cardinality(p.entries) = 1
    /\ KeysInit \in Nat \ {0}
    /\ Null # Garbage /\ Null \notin Files /\ Garbage \notin Files
    /\ Fresh \subseteq {Null, Garbage} /\ Fresh # {}
    /\ Failing \subseteq {"setup", "opendir", "open", "mmap", "pkey", "md_ctx", "digest"}

VARIABLES
    path,           \* argv[1]
    todo,           \* directory entries readdir has not returned
    file,           \* the file read_cert is given
    keys,           \* resources->keys, a function on 0 .. keys_cap - 1
    keys_size,      \* resources->keys_size
    now,            \* time()
    start,          \* history: time() when loading began
    failed,         \* history: files some call failed on
    oom,            \* history: files EVP_MD_CTX_new failed on
    dropped,        \* history: files whose keys left the array while serving
    held,           \* descriptors, mappings and buffers of the loader
    sockets,        \* socket_fd and epoll_fd, where open
    temps,          \* OpenSSL's intermediate objects in rsa_extract
    pkeys, ctxs,    \* OpenSSL's live keys and digest contexts
    step,           \* position in SetupCalls or RsaCalls
    pc

res   == <<keys, keys_size>>
heap  == <<temps, pkeys, ctxs>>
hist  == <<start, dropped, failed, oom>>
vars  == <<path, todo, file, res, now, hist, held, sockets, heap, step, pc>>

keys_cap == Cardinality(DOMAIN keys)

Cell == [alg : Files \cup {Garbage}, exp_sig_size : Files \cup {Garbage},
         md : Files \cup {Garbage}, pkey : Files \cup {Null, Garbage},
         md_ctx : Files \cup {Null, Garbage}, expiry : Files \cup {Garbage}]

Uninitialised(p) ==
    [alg |-> Garbage, exp_sig_size |-> Garbage, md |-> Garbage, pkey |-> p,
     md_ctx |-> p, expiry |-> Garbage]

Init ==
    /\ path \in Paths
    /\ todo = path.entries
    /\ file = Null
    /\ keys = [i \in {} |-> Null]
    /\ keys_size = 0
    /\ now \in Times
    /\ start = now
    /\ failed = {} /\ oom = {} /\ dropped = {}
    /\ held = {} /\ sockets = {}
    /\ temps = {} /\ pkeys = {} /\ ctxs = {}
    /\ step = 1
    /\ pc = "setup"

-----------------------------------------------------------------------------

(***************************************************************************)
(* The argument is checked, then the listening socket is set up.           *)
(***************************************************************************)
NoArgument ==
    /\ pc = "setup"
    /\ path.kind = "absent"
    /\ pc' = "return"
    /\ UNCHANGED <<path, todo, file, res, now, hist, held, sockets, heap, step>>

Setup ==
    /\ pc = "setup"
    /\ path.kind # "absent"
    /\ sockets' = sockets \cup ({SetupCalls[step]} \cap {"socket", "epoll_create1"})
    /\ step' = step + 1
    /\ pc' = IF step = Len(SetupCalls) THEN "stat" ELSE "setup"
    /\ UNCHANGED <<path, todo, file, res, now, hist, held, heap>>

SetupFails ==
    /\ pc = "setup"
    /\ path.kind # "absent"
    /\ "setup" \in Failing
    /\ pc' = "return"
    /\ UNCHANGED <<path, todo, file, res, now, hist, held, sockets, heap, step>>

(***************************************************************************)
(* stat, and malloc of the key array, whose contents are not initialised.  *)
(***************************************************************************)
StatFails ==
    /\ pc = "stat"
    /\ path.kind = "missing"
    /\ pc' = "return"
    /\ UNCHANGED <<path, todo, file, res, now, hist, held, sockets, heap, step>>

Stat ==
    /\ pc = "stat"
    /\ path.kind # "missing"
    /\ \E p \in Fresh : keys' = [i \in 0 .. KeysInit - 1 |-> Uninitialised(p)]
    /\ IF path.kind = "dir"
         THEN pc' = "opendir" /\ UNCHANGED <<file, todo>>
         ELSE pc' = "open" /\ file' \in path.entries /\ todo' = {}
    /\ UNCHANGED <<path, keys_size, now, hist, held, sockets, heap, step>>

OpenDir ==
    /\ pc = "opendir"
    /\ held' = {"dir", "full_file_path"}
    /\ pc' = IF path.len > 1 THEN "readdir" ELSE "assert_path_len"
    /\ UNCHANGED <<path, todo, file, res, now, hist, sockets, heap, step>>

OpenDirFails ==
    /\ pc = "opendir"
    /\ "opendir" \in Failing
    /\ pc' = "return"
    /\ UNCHANGED <<path, todo, file, res, now, hist, held, sockets, heap, step>>

(***************************************************************************)
(* readdir returns the entries in any order.  The array is doubled when it *)
(* is full; the new half holds whatever the memory held before.            *)
(***************************************************************************)
Resized(cap, p) ==
    [i \in 0 .. cap - 1 |-> IF i < keys_cap THEN keys[i] ELSE Uninitialised(p)]

EnsureLate == IF keys_size > keys_cap THEN 2 * keys_cap ELSE keys_cap   \* mutant: > for >=

EnsureCap == IF keys_size >= keys_cap THEN 2 * keys_cap ELSE keys_cap

ReadDir ==
    /\ pc = "readdir"
    /\ \E f \in todo : file' = f /\ todo' = todo \ {f}
    /\ \E p \in Fresh : keys' = Resized(EnsureCap, p)
    /\ pc' = "open"
    /\ UNCHANGED <<path, keys_size, now, hist, held, sockets, heap, step>>

ReadDirEnds ==
    /\ pc = "readdir"
    /\ todo = {}
    /\ held' = {}
    /\ pc' = IF keys_size = 0 THEN "return" ELSE "serve"
    /\ UNCHANGED <<path, todo, file, res, now, hist, sockets, heap, step>>

-----------------------------------------------------------------------------

(***************************************************************************)
(* read_cert returns populated; its caller counts the key or goes on.      *)
(***************************************************************************)
Keep(populated) == keys_size' = IF populated THEN keys_size + 1 ELSE keys_size

GiveUp(populated) ==        \* mutant: one bad certificate stops the server
    /\ Keep(populated)
    /\ pc' = IF ~populated THEN "return" ELSE IF path.kind = "dir" THEN "readdir" ELSE "serve"

Return(populated) ==
    /\ Keep(populated)
    /\ pc' = CASE path.kind = "dir"               -> "readdir"
               [] path.kind # "dir" /\ populated  -> "serve"
               [] path.kind # "dir" /\ ~populated -> "return"

(***************************************************************************)
(* After the switch of read_cert: munmap and close.                        *)
(***************************************************************************)
Unmap(populated) ==
    /\ Return(populated)
    /\ held' = held \ {"fd", "map"}

FailOn(call) == call \in Failing /\ failed' = failed \cup {file}

Open ==
    /\ pc = "open"
    /\ held' = held \cup {"fd"}
    /\ pc' = "mmap"
    /\ UNCHANGED <<path, todo, file, res, now, hist, sockets, heap, step>>

OpenFails ==
    /\ pc = "open"
    /\ FailOn("open")
    /\ Return(FALSE)
    /\ UNCHANGED <<path, todo, file, keys, now, start, dropped, oom, held, sockets,
                   heap, step>>

(***************************************************************************)
(* fstat fails, the file is empty, or mmap fails.                          *)
(***************************************************************************)
LeavesOpen == Return(FALSE) /\ UNCHANGED held       \* mutant: close is missing

Reject == Return(FALSE) /\ held' = held \ {"fd"}

Unreadable ==
    /\ pc = "mmap"
    /\ IF Cert[file].size = 0 \/ ~Cert[file].mappable THEN UNCHANGED failed ELSE FailOn("mmap")
    /\ Reject
    /\ UNCHANGED <<path, todo, file, keys, now, start, dropped, oom, sockets, heap, step>>

Mmap ==
    /\ pc = "mmap"
    /\ Cert[file].size > 0 /\ Cert[file].mappable
    /\ held' = held \cup {"map"}
    /\ pc' = "parse"
    /\ UNCHANGED <<path, todo, file, res, now, hist, sockets, heap, step>>

(***************************************************************************)
(* parse_x509, then extract_self_sign_for_code_sign up to the call of the  *)
(* algorithm's own extraction.  time() may have moved on.                  *)
(***************************************************************************)
ParseFails ==
    /\ pc = "parse"
    /\ ~Cert[file].parses
    /\ Unmap(FALSE)
    /\ UNCHANGED <<path, todo, file, keys, now, hist, sockets, heap, step>>

key == keys[keys_size]

Usable == MaySignCode(Cert[file], now') /\ Cert[file].alg \in Algs

Refuse ==
    /\ pc = "parse"
    /\ Cert[file].parses
    /\ now' \in {t \in Times : t >= now}
    /\ ~Usable
    /\ Unmap(FALSE)
    /\ UNCHANGED <<path, todo, file, keys, hist, sockets, heap, step>>

pub_key_extract ==
    /\ pc = "parse"
    /\ Cert[file].parses
    /\ now' \in {t \in Times : t >= now}
    /\ Usable
    /\ keys' = [keys EXCEPT ![keys_size].alg = file]
    /\ pc' = IF Cert[file].alg = "rsa" THEN "rsa_extract" ELSE "ed_extract"
    /\ UNCHANGED <<path, todo, file, keys_size, hist, held, sockets, heap, step>>

-----------------------------------------------------------------------------

(***************************************************************************)
(* EVP_MD_CTX_new, the last call of both extractions.  When it fails the   *)
(* key object made before it is not freed.                                 *)
(***************************************************************************)
NewDigest(k) ==
    /\ keys' = [keys EXCEPT ![keys_size] = [k EXCEPT !.md_ctx = file]]
    /\ ctxs' = ctxs \cup {file}
    /\ pc' = "verify"
    /\ UNCHANGED <<keys_size, held, oom>>

NoDigest(k) ==
    /\ "md_ctx" \in Failing
    /\ keys' = [keys EXCEPT ![keys_size] = [k EXCEPT !.md_ctx = Null]]
    /\ oom' = oom \cup {file}
    /\ Unmap(FALSE)
    /\ UNCHANGED ctxs

(***************************************************************************)
(* ed_extract.                                                             *)
(***************************************************************************)
EdRejects ==
    /\ pc = "ed_extract"
    /\ IF SoundKey(Cert[file]) THEN FailOn("pkey") ELSE UNCHANGED failed
    /\ keys' = [keys EXCEPT ![keys_size].exp_sig_size = file]
    /\ Unmap(FALSE)
    /\ UNCHANGED <<path, todo, file, now, start, dropped, oom, sockets, heap, step>>

ed_extract ==
    /\ pc = "ed_extract"
    /\ SoundKey(Cert[file])
    /\ pkeys' = pkeys \cup {file}
    /\ LET k == [key EXCEPT !.exp_sig_size = file, !.pkey = file, !.md = file]
       IN  NewDigest(k) \/ NoDigest(k)
    /\ UNCHANGED <<path, todo, file, now, start, dropped, failed, sockets, temps, step>>

(***************************************************************************)
(* rsa_extract: first the parameters, the digest and the encoding of the   *)
(* key, which may write the digest and the signature size.                 *)
(***************************************************************************)
RsaRejects ==
    /\ pc = "rsa_extract"
    /\ ~SoundKey(Cert[file])
    /\ keys' = IF Cert[file].params /\ Cert[file].sig_alg
                 THEN [keys EXCEPT ![keys_size].md = file]
                 ELSE keys
    /\ Unmap(FALSE)
    /\ UNCHANGED <<path, todo, file, now, hist, sockets, heap, step>>

RsaParse ==
    /\ pc = "rsa_extract"
    /\ SoundKey(Cert[file])
    /\ keys' = [keys EXCEPT ![keys_size].md = file, ![keys_size].exp_sig_size = file]
    /\ step' = 1
    /\ pc' = "rsa_build"
    /\ UNCHANGED <<path, todo, file, keys_size, now, hist, held, sockets, heap>>

RsaCall ==
    /\ pc = "rsa_build"
    /\ temps' = temps \cup ({RsaCalls[step]} \cap RsaObjects)
    /\ step' = step + 1
    /\ pc' = IF step = Len(RsaCalls) THEN "fromdata" ELSE "rsa_build"
    /\ UNCHANGED <<path, todo, file, res, now, hist, held, sockets, pkeys, ctxs>>

RsaCallFails ==
    /\ pc = "rsa_build"
    /\ FailOn("pkey")
    /\ temps' = {}
    /\ Unmap(FALSE)
    /\ UNCHANGED <<path, todo, file, keys, now, start, dropped, oom, sockets, pkeys,
                   ctxs, step>>

(***************************************************************************)
(* EVP_PKEY_fromdata makes a new key object only where the pointer it is   *)
(* given is NULL; any other pointer it takes for a key object to fill.     *)
(* The pointer is what the memory happened to hold, and what happens when  *)
(* it is no live object is undefined.  Then out: frees the rest.           *)
(***************************************************************************)
Crash == pc' = "crash" /\ UNCHANGED <<keys, keys_size, held, oom, ctxs>>

Fromdata ==
    /\ pc = "fromdata"
    /\ temps' = {}
    /\ IF key.pkey = Null
         THEN /\ pkeys' = pkeys \cup {file}
              /\ LET k == [key EXCEPT !.pkey = file] IN NewDigest(k) \/ NoDigest(k)
         ELSE /\ UNCHANGED pkeys
              /\ NewDigest(key) \/ NoDigest(key) \/ Crash
    /\ UNCHANGED <<path, todo, file, now, start, dropped, failed, sockets, step>>

FromdataFails ==
    /\ pc = "fromdata"
    /\ FailOn("pkey")
    /\ temps' = {}
    /\ \/ Unmap(FALSE) /\ UNCHANGED <<keys, ctxs, oom>>
       \/ key.pkey # Null /\ Crash
    /\ UNCHANGED <<path, todo, file, now, start, dropped, sockets, pkeys, step>>

-----------------------------------------------------------------------------

(***************************************************************************)
(* pub_key_free of a set of keys.  To free what is no live object is       *)
(* undefined.                                                              *)
(***************************************************************************)
Alive(k) == k.pkey \in pkeys /\ k.md_ctx \in ctxs

pub_key_free(ks) ==
    /\ pkeys' = pkeys \ {k.pkey : k \in ks}
    /\ ctxs' = ctxs \ {k.md_ctx : k \in ks}

(***************************************************************************)
(* The certificate's signature must verify with its own key.               *)
(***************************************************************************)
SelfSigned ==
    /\ pc = "verify"
    /\ Cert[file].self_signed
    /\ keys' = [keys EXCEPT ![keys_size].expiry = file]
    /\ Unmap(TRUE)
    /\ UNCHANGED <<path, todo, file, now, hist, sockets, heap, step>>

NotSelfSigned ==
    /\ pc = "verify"
    /\ IF Cert[file].self_signed THEN FailOn("digest") ELSE UNCHANGED failed
    /\ IF Alive(key)
         THEN pub_key_free({key}) /\ Unmap(FALSE)
         ELSE pc' = "crash" /\ UNCHANGED <<pkeys, ctxs, keys_size, held>>
    /\ UNCHANGED <<path, todo, file, keys, now, start, dropped, oom, sockets, temps, step>>

(***************************************************************************)
(* A pass of the server's key loop that removes keys, by swapping the ones *)
(* below keys_size: some have expired, at most two leave for each of them, *)
(* and the last one stays.  PubKeys states this of a pass, and KeyRing     *)
(* derives it from the loop.  Nothing is freed.                            *)
(***************************************************************************)
Serve ==
    LET I == 0 .. keys_size - 1
    IN  /\ pc \in {"serve", "serving"}
        /\ now' \in {t \in Times : t >= now}
        /\ \E n \in 1 .. keys_size - 1, order \in Bijection(I, I) :
              /\ keys_size - n <= 2 * Cardinality({i \in I : now' > Cert[keys[i].expiry].not_after})
              /\ keys' = [i \in DOMAIN keys |-> IF i \in I THEN keys[order[i]] ELSE keys[i]]
              /\ keys_size' = n
        /\ dropped' = dropped \cup ({keys[i].alg : i \in I} \
                                    {keys'[i].alg : i \in 0 .. keys_size' - 1})
        /\ pc' = "serving"
        /\ UNCHANGED <<path, todo, file, start, failed, oom, held, sockets, heap, step>>

(***************************************************************************)
(* main_protected returns from the server's loop: epoll_wait failed, all   *)
(* keys have expired, or epoll returned invalid data.                      *)
(***************************************************************************)
Stop ==
    /\ pc \in {"serve", "serving"}
    /\ pc' = "stopping"
    /\ UNCHANGED <<path, todo, file, res, now, hist, held, sockets, heap, step>>

(***************************************************************************)
(* free_all, which frees the keys below keys_size.                         *)
(***************************************************************************)
free_all ==
    LET ks == {keys[i] : i \in 0 .. keys_size - 1}
    IN  /\ pc \in {"return", "stopping"}
        /\ sockets' = {}
        /\ IF \A k \in ks : Alive(k)
             THEN pub_key_free(ks) /\ pc' = "down"
             ELSE pc' = "crash" /\ UNCHANGED <<pkeys, ctxs>>
        /\ keys' = [i \in {} |-> Null]
        /\ keys_size' = 0
        /\ UNCHANGED <<path, todo, file, now, hist, held, temps, step>>

Next ==
    \/ NoArgument \/ Setup \/ SetupFails
    \/ StatFails \/ Stat \/ OpenDir \/ OpenDirFails \/ ReadDir \/ ReadDirEnds
    \/ Open \/ OpenFails \/ Unreadable \/ Mmap
    \/ ParseFails \/ Refuse \/ pub_key_extract
    \/ EdRejects \/ ed_extract
    \/ RsaRejects \/ RsaParse \/ RsaCall \/ RsaCallFails \/ Fromdata \/ FromdataFails
    \/ SelfSigned \/ NotSelfSigned
    \/ Serve \/ Stop \/ free_all

Spec == Init /\ [][Next]_vars

-----------------------------------------------------------------------------

(***************************************************************************)
(* The state is well formed, and the key being extracted, like all keys    *)
(* that are counted, lies within the array (main.c:188).                   *)
(***************************************************************************)
TypeOK ==
    /\ todo \subseteq path.entries
    /\ file \in path.entries \cup {Null}
    /\ keys \in [0 .. keys_cap - 1 -> Cell]
    /\ keys_size \in 0 .. keys_cap
    /\ pc \in {"open", "mmap", "parse", "ed_extract", "rsa_extract", "rsa_build", "fromdata",
               "verify"} => keys_size < keys_cap
    /\ now \in Times /\ start \in Times /\ start <= now
    /\ held \subseteq {"dir", "full_file_path", "fd", "map"}
    /\ sockets \subseteq {"socket", "epoll_create1"}
    /\ temps \subseteq RsaObjects
    /\ pkeys \subseteq Files /\ ctxs \subseteq Files
    /\ failed \subseteq Files /\ oom \subseteq Files /\ dropped \subseteq Files
    /\ step \in 1 .. 8

Loaded == {keys[i].alg : i \in 0 .. keys_size - 1}

(***************************************************************************)
(* Every key that counts as loaded was made from one trustworthy           *)
(* certificate in all its members, although rejected certificates wrote to *)
(* the same place before; no certificate is loaded twice and no two keys   *)
(* share a digest context.  For an RSA key the key object is left out, see *)
(* NewKeyObject.                                                           *)
(***************************************************************************)
KeysWhole ==
    /\ \A i \in 0 .. keys_size - 1 :
          LET f == keys[i].alg
          IN  /\ f \in path.entries /\ Trustworthy(Cert[f]) /\ Cert[f].not_before <= now
              /\ keys[i].exp_sig_size = f /\ keys[i].md = f /\ keys[i].expiry = f
              /\ keys[i].md_ctx = f /\ f \in ctxs
              /\ keys[i].pkey = f => f \in pkeys
              /\ Cert[f].alg # "rsa" => keys[i].pkey = f
    /\ Cardinality(Loaded) = keys_size

(***************************************************************************)
(* "Execution may continue so long as a single x509 certificate is valid"  *)
(* (readme.md:69): whatever the other files are, every certificate that    *)
(* was valid all the while, and on which no call failed, is loaded when    *)
(* the server starts to serve, and the server does not give up if there is *)
(* one.                                                                    *)
(***************************************************************************)
Expected ==
    {f \in path.entries : /\ Trustworthy(Cert[f])
                          /\ Cert[f].not_before <= start /\ now <= Cert[f].not_after
                          /\ f \notin failed \cup oom}

AllLoaded ==
    /\ pc = "serve" => Expected \subseteq Loaded /\ Loaded # {}
    /\ pc = "return" /\ file # Null => Expected \subseteq Loaded

(***************************************************************************)
(* Whatever failed and wherever, the loader leaves no descriptor, mapping, *)
(* buffer or intermediate object behind, and OpenSSL's objects are those   *)
(* of the keys that were loaded.  free_all closes the sockets and frees    *)
(* the keys that are still counted.  Two things are never freed, although  *)
(* free_all is to "free all memory or resources used by the program"       *)
(* (main.c:59): the keys dropped while serving, which lie beyond keys_size *)
(* (main.c:72), and key objects for which no digest context could be had.  *)
(***************************************************************************)
Released ==
    /\ pc \in {"serve", "serving", "stopping", "down"} => held = {} /\ temps = {}
    /\ pc \in {"serve", "serving", "stopping"} =>
          /\ ctxs = Loaded \cup dropped /\ Loaded \cap dropped = {}
          /\ pkeys \subseteq Loaded \cup dropped \cup oom
    /\ pc \in {"serve", "return"} => dropped = {}
    /\ pc = "down" => sockets = {} /\ ctxs = dropped /\ pkeys \subseteq dropped \cup oom

(***************************************************************************)
(* "ret_pub_key will be overwritten with a new public key if this function *)
(* returns CERT_OK" (crypto.h:57): the key object of a loaded key was made *)
(* for it.                                                                 *)
(***************************************************************************)
NewKeyObject == \A i \in 0 .. keys_size - 1 : keys[i].pkey = keys[i].alg

=============================================================================
