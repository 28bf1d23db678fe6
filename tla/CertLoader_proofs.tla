-------------------------- MODULE CertLoader_proofs --------------------------
(***************************************************************************)
(* Proofs about the loading of the certificates, for any files, in any     *)
(* number and order, any first capacity of the key array, any contents of  *)
(* fresh memory and any failing calls.                                     *)
(***************************************************************************)
EXTENDS CertLoader, FiniteSetTheorems, TLAPS

(***************************************************************************)
(* read_cert is at work on file; Done are the files it has dealt with, and *)
(* Verified is the one whose key is complete but for the signature check.  *)
(***************************************************************************)
Busy == pc \in {"open", "mmap", "parse", "ed_extract", "rsa_extract", "rsa_build",
                "fromdata", "verify"}

(***************************************************************************)
(* The keys are being loaded, or are as they were loaded.                  *)
(***************************************************************************)
Loading == pc \notin {"serving", "stopping", "down", "crash"}

Done == {f \in path.entries \ todo : Busy => f # file}

Verified == {f \in {file} : pc = "verify"}

Types ==
    /\ path \in Paths
    /\ todo \in SUBSET path.entries
    /\ file \in path.entries \cup {Null}
    /\ keys_cap \in Nat
    /\ keys \in [0 .. keys_cap - 1 -> Cell]
    /\ keys_size \in Nat /\ keys_size <= keys_cap
    /\ now \in Times /\ start \in Times /\ start <= now
    /\ sockets \in SUBSET {"socket", "epoll_create1"}
    /\ temps \in SUBSET RsaObjects
    /\ held \in SUBSET {"dir", "full_file_path", "fd", "map"}
    /\ pkeys \in SUBSET Files /\ ctxs \in SUBSET Files
    /\ failed \in SUBSET Files /\ oom \in SUBSET Done /\ dropped \in SUBSET Done
    /\ step \in 1 .. 8

(***************************************************************************)
(* Where the loader is, and what it has open there.                        *)
(***************************************************************************)
Control ==
    /\ pc \in {"setup", "stat", "opendir", "readdir", "serve", "serving", "stopping",
               "return", "down", "crash", "assert_path_len"} \/ Busy
    /\ Loading => dropped = {}
    /\ pc = "setup" => step <= 5
    /\ pc = "rsa_build" => step <= 7
    /\ pc \in {"setup", "stat"} => todo = path.entries
    /\ pc = "stat" => path.kind # "absent"
    /\ pc \in {"setup", "stat", "opendir"} => file = Null /\ keys_size = 0
    /\ pc \in {"opendir", "readdir"} => path.kind = "dir" /\ keys_cap > 0
    /\ Busy => /\ file \in path.entries \ todo
               /\ path.kind = "dir" \/ todo = {}
               /\ keys_size < keys_cap
    /\ pc \in {"serve", "serving"} => keys_size > 0
    /\ pc = "serve" => todo = {}
    /\ pc = "return" => file = Null \/ todo = {}

Dir == {r \in {"dir", "full_file_path"} : path.kind = "dir"}

Holding ==
    /\ pc \in {"setup", "stat", "opendir", "serve", "serving", "stopping", "return", "down"} =>
          held = {}
    /\ pc \in {"readdir", "open"} => held = Dir
    /\ pc = "mmap" => held = Dir \cup {"fd"}
    /\ Busy /\ pc \notin {"open", "mmap"} => held = Dir \cup {"fd", "map"}
    /\ pc \notin {"rsa_build", "fromdata"} => temps = {}

(***************************************************************************)
(* A key made from the certificate its first member was written from.      *)
(***************************************************************************)
Written(k) == k.exp_sig_size = k.alg /\ k.md = k.alg /\ k.md_ctx = k.alg

Whole(k, t) ==
    /\ Trustworthy(Cert[k.alg]) /\ Cert[k.alg].not_before <= t
    /\ Written(k) /\ k.expiry = k.alg
    /\ Cert[k.alg].alg # "rsa" => k.pkey = k.alg

Table ==
    /\ \A i \in 0 .. keys_size - 1 : keys[i].alg \in Done /\ Whole(keys[i], now)
    /\ \A i, j \in 0 .. keys_size - 1 : keys[i].alg = keys[j].alg => i = j

(***************************************************************************)
(* The pointers in the array: none is in it twice, and a stale one, left   *)
(* by a rejected certificate, can only be in the key after the last.       *)
(***************************************************************************)
Pointers ==
    Loading =>
        /\ \A i \in 0 .. keys_cap - 1 : keys[i].pkey \in Files =>
              /\ i <= keys_size
              /\ keys[i].pkey \in Done \cup Verified
        /\ \A i, j \in 0 .. keys_cap - 1 :
              keys[i].pkey \in Files /\ keys[i].pkey = keys[j].pkey => i = j

(***************************************************************************)
(* OpenSSL's objects are those of the loaded keys, of the key at work and  *)
(* of the keys that serving has dropped.                                   *)
(***************************************************************************)
Objects ==
    /\ \A i \in 0 .. keys_size - 1 : keys[i].pkey = keys[i].alg <=> keys[i].alg \in pkeys
    /\ Loaded \subseteq ctxs
    /\ Loading => /\ ctxs = Loaded \cup Verified
                  /\ pkeys \subseteq Loaded \cup Verified \cup oom
    /\ pc \in {"serving", "stopping"} => /\ ctxs = Loaded \cup dropped
                                         /\ Loaded \cap dropped = {}
                                         /\ pkeys \subseteq Loaded \cup dropped \cup oom
    /\ pc = "down" => sockets = {} /\ ctxs = dropped /\ pkeys \subseteq dropped \cup oom

(***************************************************************************)
(* What is known of the file and the key at work.                          *)
(***************************************************************************)
Current ==
    /\ Busy /\ pc \notin {"open", "mmap"} => Cert[file].size > 0 /\ Cert[file].mappable
    /\ pc \in {"ed_extract", "rsa_extract", "rsa_build", "fromdata", "verify"} =>
          /\ Cert[file].parses /\ MaySignCode(Cert[file], now) /\ Cert[file].alg \in Algs
          /\ key.alg = file
    /\ pc \in {"rsa_extract", "rsa_build", "fromdata"} => Cert[file].alg = "rsa"
    /\ pc \in {"rsa_build", "fromdata", "verify"} =>
          SoundKey(Cert[file]) /\ key.exp_sig_size = file /\ key.md = file
    /\ pc = "verify" => /\ key.md_ctx = file
                        /\ key.pkey = file <=> file \in pkeys
                        /\ Cert[file].alg # "rsa" => key.pkey = file

(***************************************************************************)
(* No file that should have been loaded has been passed over.              *)
(***************************************************************************)
Processed == Loading => Expected \cap Done \subseteq Loaded

IInv == /\ Types /\ Control /\ Holding /\ Table /\ Pointers /\ Objects
        /\ Current /\ Processed

-----------------------------------------------------------------------------

LEMMA PathFacts ==
    ASSUME path \in Paths
    PROVE  /\ path.kind \in {"absent", "missing", "dir", "file"}
           /\ path.entries \in SUBSET Files
           /\ Null \notin path.entries
           /\ path.kind = "file" => \E f \in Files : path.entries = {f}
  <1>1. /\ path.kind \in {"absent", "missing", "dir", "file"}
        /\ path.entries \in SUBSET Files
        /\ IsFiniteSet(path.entries)
        /\ path.kind = "file" => Cardinality(path.entries) = 1
    BY LoaderAssumption
  <1>2. path.kind = "file" => \E f : path.entries = {f}
    BY <1>1, FS_Singleton
  <1> QED
    BY <1>1, <1>2, LoaderAssumption

(***************************************************************************)
(* The capacity is the length of the array.                                *)
(***************************************************************************)
LEMMA CapOf ==
    ASSUME NEW n \in Nat, NEW a, DOMAIN a = 0 .. n - 1
    PROVE  Cardinality(DOMAIN a) = n
  <1>1. Cardinality(0 .. n - 1) = n
    BY FS_Interval
  <1> QED
    BY <1>1

(***************************************************************************)
(* n different keys are keys of n certificates.                            *)
(***************************************************************************)
LEMMA CountLoaded ==
    ASSUME keys_size \in Nat,
           \A i, j \in 0 .. keys_size - 1 : keys[i].alg = keys[j].alg => i = j
    PROVE  Cardinality(Loaded) = keys_size
  <1> DEFINE I == 0 .. keys_size - 1
             alg == [i \in I |-> keys[i].alg]
  <1>1. IsFiniteSet(I) /\ Cardinality(I) = keys_size
    BY FS_Interval
  <1>2. alg \in Bijection(I, Loaded)
    BY DEF Loaded, Bijection, Injection, Surjection, IsInjective
  <1> HIDE DEF I, alg
  <1> QED
    BY <1>1, <1>2, FS_Bijection DEF ExistsBijection

(***************************************************************************)
(* Time passes, and calls fail: fewer files are expected.                  *)
(***************************************************************************)
LEMMA ExpectedShrinks ==
    ASSUME Types, path' = path, start' = start, now' \in Times, now' >= now,
           failed \subseteq failed', oom \subseteq oom'
    PROVE  Expected' \subseteq Expected
  <1> SUFFICES ASSUME NEW f \in Expected' PROVE f \in Expected
    OBVIOUS
  <1>1. f \in path.entries /\ f \in Files
    BY PathFacts DEF Expected, Types
  <1>2. Cert[f].not_after \in Int /\ now \in Int /\ now' \in Int
    BY <1>1, CertAssumption DEF Types, CertType
  <1>3. now <= Cert[f].not_after
    BY <1>2 DEF Expected
  <1> QED
    BY <1>1, <1>3 DEF Expected

(***************************************************************************)
(* A file that should be loaded passes every check: one that failed one is *)
(* not missed.                                                             *)
(***************************************************************************)
LEMMA NotExpected ==
    ASSUME Types, path' = path, start' = start, file' = file, now' \in Times, now' >= now,
           \/ ~(Cert[file].size > 0) \/ ~Cert[file].mappable \/ ~Cert[file].parses
           \/ ~(MaySignCode(Cert[file], now') /\ Cert[file].alg \in Algs)
           \/ ~SoundKey(Cert[file]) \/ ~Cert[file].self_signed
           \/ file \in failed' \/ file \in oom'
    PROVE  file \notin Expected'
  <1> SUFFICES ASSUME file \in Expected' PROVE FALSE
    OBVIOUS
  <1>1. file \in path.entries /\ file \in Files
    BY PathFacts DEF Expected, Types
  <1>2. /\ Cert[file].not_before \in Int /\ now \in Int /\ start \in Int /\ now' \in Int
        /\ start <= now
    BY <1>1, CertAssumption DEF Types, CertType
  <1>3. InTime(Cert[file], now')
    BY <1>2 DEF Expected, InTime
  <1>4. MaySignCode(Cert[file], now') /\ Cert[file].alg \in Algs
    BY <1>3 DEF Expected, Trustworthy, MaySignCode, IdsMatch
  <1> QED
    BY <1>4 DEF Expected, Trustworthy

(***************************************************************************)
(* Writing to the key at work leaves the loaded ones alone.                *)
(***************************************************************************)
LEMMA Writes ==
    ASSUME Types, Control, Table, Busy, NEW k \in Cell,
           keys' = [keys EXCEPT ![keys_size] = k], now' \in Times, now' >= now
    PROVE  /\ keys_size \in 0 .. keys_cap - 1
           /\ keys_cap' = keys_cap
           /\ keys' \in [0 .. keys_cap - 1 -> Cell]
           /\ keys'[keys_size] = k
           /\ \A i \in 0 .. keys_cap - 1 : i # keys_size => keys'[i] = keys[i]
           /\ \A i \in 0 .. keys_size - 1 :
                 /\ i \in 0 .. keys_cap - 1 /\ i # keys_size
                 /\ keys'[i] = keys[i] /\ Whole(keys[i], now')
  <1>1. /\ keys_cap \in Nat /\ keys \in [0 .. keys_cap - 1 -> Cell]
        /\ keys_size \in Nat /\ keys_size < keys_cap
    BY DEF Types, Control
  <1>2. keys_size \in 0 .. keys_cap - 1
    BY <1>1
  <1>3. keys' \in [0 .. keys_cap - 1 -> Cell] /\ keys'[keys_size] = k
    BY <1>1, <1>2
  <1>4. keys_cap' = keys_cap
    BY <1>1, <1>3 DEF keys_cap
  <1>5. \A i \in 0 .. keys_cap - 1 : i # keys_size => keys'[i] = keys[i]
    BY <1>1
  <1>6. ASSUME NEW i \in 0 .. keys_size - 1
        PROVE  /\ i \in 0 .. keys_cap - 1 /\ i # keys_size
               /\ keys'[i] = keys[i] /\ Whole(keys[i], now')
    <2>1. i \in 0 .. keys_cap - 1 /\ i # keys_size
      BY <1>1
    <2>2. keys[i].alg \in Files
      BY PathFacts DEF Table, Types, Done
    <2>3. Cert[keys[i].alg].not_before \in Int /\ now \in Int /\ now' \in Int
      BY <2>2, CertAssumption DEF Types, CertType
    <2>4. Cert[keys[i].alg].not_before <= now
      BY DEF Table, Whole
    <2>5. Cert[keys[i].alg].not_before <= now'
      BY <2>3, <2>4
    <2> QED
      BY <1>5, <2>1, <2>5 DEF Table, Whole
  <1> QED
    BY <1>2, <1>3, <1>4, <1>5, <1>6


LEMMA DoneFacts ==
    ASSUME Types, Control, Busy, UNCHANGED <<path, todo, file>>
    PROVE  /\ file \in Files /\ file # Null /\ file # Garbage /\ file \notin Done
           /\ file \in path.entries \ todo
           /\ Done \in SUBSET Files
           /\ Busy' => Done' = Done
           /\ ~Busy' => Done' = Done \cup {file}
  <1>1. file \in path.entries \ todo
    BY DEF Control
  <1>2. file \in Files /\ file # Null /\ file # Garbage /\ path.entries \in SUBSET Files
    BY <1>1, PathFacts, LoaderAssumption DEF Types
  <1> QED
    BY <1>1, <1>2 DEF Done

-----------------------------------------------------------------------------

(***************************************************************************)
(* A file is given up: the key at work may have been written to, and stays *)
(* as the next file will find it.                                          *)
(***************************************************************************)
LEMMA Rejected ==
    ASSUME IInv, Busy, NEW k \in Cell,
           UNCHANGED <<path, todo, file, start, dropped, sockets, step>>,
           keys' = [keys EXCEPT ![keys_size] = k],
           k.pkey = key.pkey \/ (pc # "verify" /\ k.pkey = file),
           now' \in Times, now' >= now,
           failed' \in SUBSET Files, failed \subseteq failed',
           oom' = oom \/ oom' = oom \cup {file},
           ctxs' = Loaded,
           pkeys' \in SUBSET Files, pkeys' \subseteq Loaded \cup oom',
           \A i \in 0 .. keys_size - 1 : keys[i].alg \in pkeys' <=> keys[i].alg \in pkeys,
           Return(FALSE), held' = Dir, temps' = {}, file \notin Expected'
    PROVE  IInv'
  <1>1. /\ Types /\ Control /\ Table /\ Pointers /\ Objects /\ Processed
        /\ Loading /\ dropped = {}
    BY DEF IInv, Busy, Loading, Control
  <1>2. /\ keys_size \in 0 .. keys_cap - 1
        /\ keys_cap' = keys_cap
        /\ keys' \in [0 .. keys_cap - 1 -> Cell]
        /\ keys'[keys_size] = k
        /\ \A i \in 0 .. keys_cap - 1 : i # keys_size => keys'[i] = keys[i]
        /\ \A i \in 0 .. keys_size - 1 :
              /\ i \in 0 .. keys_cap - 1 /\ i # keys_size
              /\ keys'[i] = keys[i] /\ Whole(keys[i], now')
    BY <1>1, Writes
  <1>3. /\ keys_size' = keys_size
        /\ pc' = IF path.kind = "dir" THEN "readdir" ELSE "return"
    BY DEF Return, Keep
  <1>4. ~Busy' /\ Verified' = {} /\ Loading'
    BY <1>3 DEF Busy, Loading, Verified
  <1>5. /\ file \in Files /\ file # Null /\ file # Garbage /\ file \notin Done
        /\ file \in path.entries \ todo /\ Done \in SUBSET Files
        /\ Done' = Done \cup {file}
    BY <1>1, <1>4, DoneFacts
  <1>6. Loaded' = Loaded
    BY <1>2, <1>3 DEF Loaded
  <1>7. Types'
    <2>1. now' \in Int /\ start \in Int /\ now \in Int
      BY <1>1, CertAssumption DEF Types
    <2>2. start <= now'
      BY <1>1, <2>1 DEF Types
    <2>3. oom' \in SUBSET Done'
      BY <1>1, <1>5 DEF Types
    <2>4. held' \in SUBSET {"dir", "full_file_path", "fd", "map"}
      BY DEF Dir
    <2>5. /\ keys_cap' \in Nat /\ keys' \in [0 .. keys_cap' - 1 -> Cell]
          /\ keys_size' \in Nat /\ keys_size' <= keys_cap'
      BY <1>1, <1>2, <1>3 DEF Types
    <2>6. ctxs' \in SUBSET Files
      BY <1>1 DEF Types, Objects
    <2> QED
      BY <1>1, <1>5, <2>2, <2>3, <2>4, <2>5, <2>6 DEF Types
  <1>8. Control'
    <2>1. keys_cap > 0 /\ (path.kind = "dir" \/ todo = {})
      BY <1>1, <1>2 DEF Control, Types
    <2> QED
      BY <1>1, <1>2, <1>3, <1>4, <2>1 DEF Control
  <1>9. Holding'
    BY <1>3, <1>4 DEF Holding, Dir, Busy, Loading
  <1>10. Table'
    BY <1>1, <1>2, <1>3, <1>5 DEF Table
  <1>11. Pointers'
    <2>1. \A i \in 0 .. keys_cap - 1 : i # keys_size => keys'[i].pkey = keys[i].pkey
      BY <1>2
    <2>2. keys'[keys_size].pkey = keys[keys_size].pkey
          \/ (pc # "verify" /\ keys'[keys_size].pkey = file)
      BY <1>2 DEF key
    <2>3. \A i \in 0 .. keys_cap - 1 : keys[i].pkey \in Files =>
             i <= keys_size /\ keys[i].pkey \in Done \cup Verified
      BY <1>1 DEF Pointers
    <2>4. \A i \in 0 .. keys_cap - 1 : keys'[i].pkey \in Files =>
             i <= keys_size /\ keys'[i].pkey \in Done'
      <3> TAKE i \in 0 .. keys_cap - 1
      <3> HAVE keys'[i].pkey \in Files
      <3>1. CASE keys'[i].pkey = keys[i].pkey
        BY <1>5, <2>3, <3>1 DEF Verified
      <3>2. CASE i = keys_size /\ keys'[i].pkey = file
        BY <1>2, <1>5, <3>2
      <3> QED
        BY <2>1, <2>2, <3>1, <3>2
    <2>5. \A i, j \in 0 .. keys_cap - 1 :
             keys'[i].pkey \in Files /\ keys'[i].pkey = keys'[j].pkey => i = j
      <3>1. pc # "verify" => \A i \in 0 .. keys_cap - 1 : keys[i].pkey # file
        BY <1>5, <2>3 DEF Verified
      <3>2. \A i, j \in 0 .. keys_cap - 1 :
               keys[i].pkey \in Files /\ keys[i].pkey = keys[j].pkey => i = j
        BY <1>1 DEF Pointers
      <3> QED
        BY <2>1, <2>2, <3>1, <3>2
    <2> QED
      BY <1>2, <1>3, <2>4, <2>5 DEF Pointers
  <1>12. Objects'
    <2>1. \A i \in 0 .. keys_size - 1 : keys'[i].pkey = keys'[i].alg <=> keys'[i].alg \in pkeys'
      BY <1>1, <1>2 DEF Objects
    <2> QED
      BY <1>3, <1>4, <1>6, <2>1 DEF Objects
  <1>13. Current'
    BY <1>3, <1>4 DEF Current, Busy, Loading
  <1>14. Processed'
    <2>1. Expected' \subseteq Expected
      BY <1>1, ExpectedShrinks
    <2> QED
      BY <1>1, <1>5, <1>6, <2>1 DEF Processed
  <1> QED
    BY <1>7, <1>8, <1>9, <1>10, <1>11, <1>12, <1>13, <1>14 DEF IInv


(***************************************************************************)
(* The work on a file goes on, perhaps with a write to its key.            *)
(***************************************************************************)
LEMMA GoesOn ==
    ASSUME IInv, Busy, Busy', pc # "verify", pc' # "verify", NEW k \in Cell,
           UNCHANGED <<path, todo, file, keys_size, start, dropped, failed, oom, pkeys, ctxs,
                       sockets>>,
           keys' = [keys EXCEPT ![keys_size] = k], k.pkey = key.pkey,
           now' \in Times, now' >= now, temps' \in SUBSET RsaObjects,
           step' \in 1 .. 8, pc' = "rsa_build" => step' <= 7,
           Holding', Current'
    PROVE  IInv'
  <1>1. Types /\ Control /\ Table /\ Pointers /\ Objects /\ Processed /\ Loading
    BY DEF IInv, Busy, Loading
  <1>2. /\ keys_size \in 0 .. keys_cap - 1
        /\ keys_cap' = keys_cap
        /\ keys' \in [0 .. keys_cap - 1 -> Cell]
        /\ keys'[keys_size] = k
        /\ \A i \in 0 .. keys_cap - 1 : i # keys_size => keys'[i] = keys[i]
        /\ \A i \in 0 .. keys_size - 1 :
              /\ i \in 0 .. keys_cap - 1 /\ i # keys_size
              /\ keys'[i] = keys[i] /\ Whole(keys[i], now')
    BY <1>1, Writes
  <1>3. Done' = Done /\ Verified = {} /\ Verified' = {}
    BY <1>1, DoneFacts DEF Verified
  <1>4. Loaded' = Loaded
    BY <1>2 DEF Loaded
  <1>5. Loading /\ Loading'
    BY DEF Busy, Loading
  <1>6. Types'
    <2>1. now' \in Int /\ start \in Int /\ now \in Int
      BY <1>1, CertAssumption DEF Types
    <2>2. start <= now'
      BY <1>1, <2>1 DEF Types
    <2>3. held' \in SUBSET {"dir", "full_file_path", "fd", "map"}
      BY DEF Holding, Dir, Busy, Loading
    <2> QED
      BY <1>1, <1>2, <1>3, <2>2, <2>3 DEF Types
  <1>7. Control'
    BY <1>1, <1>2, <1>5 DEF Control, Busy, Loading
  <1>8. Table'
    BY <1>1, <1>2, <1>3 DEF Table
  <1>9. Pointers'
    <2>1. \A i \in 0 .. keys_cap - 1 : keys'[i].pkey = keys[i].pkey
      BY <1>2 DEF key
    <2> QED
      BY <1>1, <1>2, <1>3, <2>1 DEF Pointers
  <1>10. Objects'
    BY <1>1, <1>2, <1>3, <1>4, <1>5 DEF Objects, Loading
  <1>11. Processed'
    <2>1. Expected' \subseteq Expected
      BY <1>1, ExpectedShrinks
    <2> QED
      BY <1>1, <1>3, <1>4, <1>5, <2>1 DEF Processed
  <1> QED
    BY <1>6, <1>7, <1>8, <1>9, <1>10, <1>11 DEF IInv

(***************************************************************************)
(* The key is complete but for the check of the certificate's signature.   *)
(***************************************************************************)
LEMMA Completes ==
    ASSUME IInv, pc \in {"ed_extract", "fromdata"}, pc' = "verify", NEW k \in Cell,
           UNCHANGED <<path, todo, file, keys_size, now, start, dropped, failed, oom, held,
                       sockets, step>>,
           keys' = [keys EXCEPT ![keys_size] = k], k.alg = file, Written(k), SoundKey(Cert[file]),
           \/ k.pkey = file /\ pkeys' = pkeys \cup {file}
           \/ k.pkey = key.pkey /\ pkeys' = pkeys /\ Cert[file].alg = "rsa",
           ctxs' = ctxs \cup {file}, temps' = {}
    PROVE  IInv'
  <1>1. Types /\ Control /\ Holding /\ Table /\ Pointers /\ Objects /\ Current /\ Processed
    BY DEF IInv
  <1>2. Busy /\ Busy' /\ Loading /\ Loading' /\ pc \notin {"open", "mmap", "verify"}
    BY DEF Busy, Loading
  <1>3. now \in Times /\ now >= now
    BY <1>1, CertAssumption DEF Types
  <1>4. /\ keys_size \in 0 .. keys_cap - 1
        /\ keys_cap' = keys_cap
        /\ keys' \in [0 .. keys_cap - 1 -> Cell]
        /\ keys'[keys_size] = k
        /\ \A i \in 0 .. keys_cap - 1 : i # keys_size => keys'[i] = keys[i]
        /\ \A i \in 0 .. keys_size - 1 :
              /\ i \in 0 .. keys_cap - 1 /\ i # keys_size
              /\ keys'[i] = keys[i] /\ Whole(keys[i], now')
    BY <1>1, <1>2, <1>3, Writes
  <1>5. /\ Done' = Done /\ Verified = {} /\ Verified' = {file} /\ file \notin Done
        /\ file \in Files /\ file # Null /\ file # Garbage
    BY <1>1, <1>2, DoneFacts DEF Verified
  <1>6. Loaded' = Loaded /\ Loaded \subseteq Done
    BY <1>1, <1>4 DEF Loaded, Table
  <1>7. file \notin pkeys
    BY <1>1, <1>2, <1>5, <1>6 DEF Objects, Types
  <1>8. \A i \in 0 .. keys_cap - 1 : keys[i].pkey # file
    BY <1>1, <1>2, <1>5 DEF Pointers
  <1>9. Types'
    BY <1>1, <1>4, <1>5 DEF Types
  <1>10. Control'
    BY <1>1, <1>2, <1>4 DEF Control
  <1>11. Holding'
    BY <1>1, <1>2 DEF Holding, Dir, Busy, Loading
  <1>12. Table'
    BY <1>1, <1>4, <1>5 DEF Table
  <1>13. Pointers'
    <2>1. \A i \in 0 .. keys_cap - 1 : i # keys_size => keys'[i].pkey = keys[i].pkey
      BY <1>4
    <2>2. keys'[keys_size].pkey = keys[keys_size].pkey \/ keys'[keys_size].pkey = file
      BY <1>4 DEF key
    <2>3. \A i \in 0 .. keys_cap - 1 : keys'[i].pkey \in Files =>
             i <= keys_size /\ keys'[i].pkey \in Done \cup {file}
      BY <1>1, <1>2, <1>4, <1>5, <2>1, <2>2 DEF Pointers
    <2>4. \A i, j \in 0 .. keys_cap - 1 :
             keys'[i].pkey \in Files /\ keys'[i].pkey = keys'[j].pkey => i = j
      BY <1>1, <1>2, <1>8, <2>1, <2>2 DEF Pointers
    <2> QED
      BY <1>4, <1>5, <2>3, <2>4 DEF Pointers
  <1>14. Objects'
    <2>1. \A i \in 0 .. keys_size - 1 : keys'[i].alg # file
      BY <1>1, <1>4, <1>5 DEF Table
    <2>2. \A i \in 0 .. keys_size - 1 : keys'[i].pkey = keys'[i].alg <=> keys'[i].alg \in pkeys'
      BY <1>1, <1>4, <2>1 DEF Objects
    <2> QED
      BY <1>1, <1>2, <1>5, <1>6, <2>2 DEF Objects, Loading
  <1>15. Current'
    <2>1. key' = k
      BY <1>4 DEF key
    <2>2. k.pkey = file <=> file \in pkeys'
      BY <1>4, <1>7, <1>8 DEF key
    <2>3. Cert[file].alg # "rsa" => k.pkey = file
      OBVIOUS
    <2> QED
      BY <1>1, <1>2, <2>1, <2>2, <2>3 DEF Current, Written, Busy, Loading
  <1>16. Processed'
    <2>1. Expected' = Expected
      BY DEF Expected
    <2> QED
      BY <1>1, <1>2, <1>5, <1>6, <2>1 DEF Processed
  <1> QED
    BY <1>9, <1>10, <1>11, <1>12, <1>13, <1>14, <1>15, <1>16 DEF IInv

(***************************************************************************)
(* Undefined behaviour ends the program.                                   *)
(***************************************************************************)
LEMMA Crashes ==
    ASSUME IInv, Busy, pc' = "crash", temps' = {}, failed' \in SUBSET Files,
           UNCHANGED <<path, todo, file, keys, keys_size, now, start, dropped, oom, held, sockets,
                       pkeys, ctxs, step>>
    PROVE  IInv'
  <1>1. Types /\ Control /\ Holding /\ Table /\ Pointers /\ Objects
    BY DEF IInv
  <1>2. ~Busy' /\ ~Loading' /\ Verified' = {} /\ Verified \subseteq {file}
    BY DEF Busy, Loading, Verified
  <1>3. Done' = Done \cup {file}
    BY <1>1, <1>2, DoneFacts
  <1>4. Types'
    BY <1>1, <1>3 DEF Types, keys_cap
  <1>5. Control' /\ Holding' /\ Current' /\ Processed'
    BY <1>2 DEF Control, Holding, Current, Processed
  <1>6. Table' /\ Pointers'
    BY <1>1, <1>2, <1>3 DEF Table, Pointers, keys_cap
  <1>7. Objects'
    BY <1>1, <1>2 DEF Objects, Loaded
  <1> QED
    BY <1>4, <1>5, <1>6, <1>7 DEF IInv

(***************************************************************************)
(* Steps outside read_cert that leave the keys alone.                      *)
(***************************************************************************)
LEMMA Elsewhere ==
    ASSUME IInv, ~Busy, ~Busy', Loading, Loading',
           UNCHANGED <<path, todo, file, keys, keys_size, now, start, dropped, failed, oom, temps,
                       pkeys, ctxs>>,
           held' \in SUBSET {"dir", "full_file_path", "fd", "map"},
           sockets' \in SUBSET {"socket", "epoll_create1"}, step' \in 1 .. 8,
           Control', Holding'
    PROVE  IInv'
  <1>1. Types /\ Table /\ Pointers /\ Objects /\ Processed
    BY DEF IInv
  <1>2. Done' = Done /\ Verified = {} /\ Verified' = {} /\ Loaded' = Loaded /\ Expected' = Expected
    BY DEF Done, Verified, Loaded, Expected, Busy, Loading
  <1>3. Types'
    BY <1>1, <1>2 DEF Types, keys_cap
  <1>4. Table' /\ Pointers'
    BY <1>1, <1>2 DEF Table, Pointers, keys_cap
  <1>5. Objects' /\ Processed'
    BY <1>1, <1>2 DEF Objects, Processed, Loading
  <1>6. Current'
    BY DEF Current, Busy, Loading
  <1> QED
    BY <1>3, <1>4, <1>5, <1>6 DEF IInv


(***************************************************************************)
(* The key counts as loaded.                                               *)
(***************************************************************************)
LEMMA Loads ==
    ASSUME IInv, SelfSigned
    PROVE  IInv'
  <1> DEFINE k == [key EXCEPT !.expiry = file]
  <1>1. Types /\ Control /\ Holding /\ Table /\ Pointers /\ Objects /\ Current /\ Processed
    BY DEF IInv
  <1>2. /\ pc = "verify" /\ Cert[file].self_signed
        /\ keys' = [keys EXCEPT ![keys_size].expiry = file]
        /\ keys_size' = keys_size + 1 /\ held' = held \ {"fd", "map"}
        /\ pc' = IF path.kind = "dir" THEN "readdir" ELSE "serve"
        /\ UNCHANGED <<path, todo, file, now, start, dropped, failed, oom, sockets, temps, pkeys,
                       ctxs, step>>
    BY DEF SelfSigned, Unmap, Return, Keep, hist, heap
  <1>3. Busy /\ ~Busy' /\ Verified = {file} /\ Verified' = {} /\ Loading /\ Loading' /\ dropped = {}
    BY <1>1, <1>2 DEF Control, Busy, Loading, Verified
  <1>4. /\ file \in Files /\ file \notin Done /\ file \in path.entries \ todo
        /\ Done \in SUBSET Files /\ Done' = Done \cup {file}
    BY <1>1, <1>2, <1>3, DoneFacts
  <1>5. /\ keys_cap \in Nat /\ keys \in [0 .. keys_cap - 1 -> Cell]
        /\ keys_size \in Nat /\ keys_size < keys_cap /\ keys_size \in 0 .. keys_cap - 1
        /\ key \in Cell
    BY <1>1, <1>3 DEF Types, Control, key
  <1>6. /\ k \in Cell /\ k.alg = key.alg /\ k.exp_sig_size = key.exp_sig_size /\ k.md = key.md
        /\ k.md_ctx = key.md_ctx /\ k.pkey = key.pkey /\ k.expiry = file
    BY <1>4, <1>5 DEF Cell
  <1>7. keys' = [keys EXCEPT ![keys_size] = k]
    BY <1>2 DEF key
  <1> HIDE DEF k
  <1>8. now \in Times /\ now' = now /\ now' >= now
    BY <1>1, <1>2, CertAssumption DEF Types
  <1>9. /\ keys_cap' = keys_cap
        /\ keys' \in [0 .. keys_cap - 1 -> Cell]
        /\ keys'[keys_size] = k
        /\ \A i \in 0 .. keys_cap - 1 : i # keys_size => keys'[i] = keys[i]
        /\ \A i \in 0 .. keys_size - 1 :
              /\ i \in 0 .. keys_cap - 1 /\ i # keys_size
              /\ keys'[i] = keys[i] /\ Whole(keys[i], now')
    BY <1>1, <1>3, <1>6, <1>7, <1>8, Writes
  <1>10. \A i \in 0 .. keys_size' - 1 : i = keys_size \/ i \in 0 .. keys_size - 1
    BY <1>2, <1>5
  <1>11. keys_size \in 0 .. keys_size' - 1 /\ \A i \in 0 .. keys_size - 1 : i \in 0 .. keys_size' - 1
    BY <1>2, <1>5
  <1>12. k.alg = file /\ Whole(k, now')
    <2>1. /\ key.alg = file /\ key.exp_sig_size = file /\ key.md = file /\ key.md_ctx = file
          /\ Cert[file].alg # "rsa" => key.pkey = file
          /\ Cert[file].size > 0 /\ Cert[file].mappable /\ Cert[file].parses
          /\ MaySignCode(Cert[file], now) /\ Cert[file].alg \in Algs /\ SoundKey(Cert[file])
      BY <1>1, <1>2 DEF Current, Busy, Loading
    <2>2. Cert[file].usage \in SUBSET Usages
      BY <1>4, CertAssumption DEF CertType
    <2>3. Trustworthy(Cert[file]) /\ Cert[file].not_before <= now
      BY <1>2, <2>1, <2>2 DEF Trustworthy, MaySignCode, IdsMatch, InTime
    <2> QED
      BY <1>6, <1>8, <2>1, <2>3 DEF Whole, Written
  <1>13. Loaded' = Loaded \cup {file}
    <2>1. Loaded' \subseteq Loaded \cup {file}
      BY <1>9, <1>10, <1>12 DEF Loaded
    <2>2. Loaded \cup {file} \subseteq Loaded'
      BY <1>9, <1>11, <1>12 DEF Loaded
    <2> QED
      BY <2>1, <2>2
  <1>14. Types'
    <2>1. keys_size' \in Nat /\ keys_size' <= keys_cap'
      BY <1>2, <1>5, <1>9
    <2>2. held' \in SUBSET {"dir", "full_file_path", "fd", "map"}
      BY <1>1, <1>2 DEF Types
    <2>3. oom' \in SUBSET Done'
      BY <1>1, <1>2, <1>4 DEF Types
    <2> QED
      BY <1>1, <1>2, <1>3, <1>9, <2>1, <2>2, <2>3 DEF Types
  <1>15. Control'
    <2>1. keys_cap' > 0 /\ keys_size' > 0
      BY <1>2, <1>5, <1>9
    <2> QED
      BY <1>1, <1>2, <1>3, <2>1 DEF Control
  <1>16. Holding'
    <2>1. held = Dir \cup {"fd", "map"} /\ temps = {}
      BY <1>1, <1>2, <1>3 DEF Holding
    <2>2. held' = Dir
      BY <1>2, <2>1 DEF Dir
    <2> QED
      BY <1>2, <1>3, <2>1, <2>2 DEF Holding, Dir
  <1>17. Table'
    <2>1. \A i \in 0 .. keys_size' - 1 : keys'[i].alg \in Done' /\ Whole(keys'[i], now')
      BY <1>1, <1>4, <1>9, <1>10, <1>12 DEF Table
    <2>2. \A i \in 0 .. keys_size - 1 : keys'[i].alg # file
      BY <1>1, <1>4, <1>9 DEF Table
    <2>3. \A i, j \in 0 .. keys_size' - 1 : keys'[i].alg = keys'[j].alg => i = j
      BY <1>1, <1>9, <1>10, <1>12, <2>2 DEF Table
    <2> QED
      BY <2>1, <2>3 DEF Table
  <1>18. Pointers'
    <2>1. \A i \in 0 .. keys_cap - 1 : keys'[i].pkey = keys[i].pkey
      BY <1>6, <1>9 DEF key
    <2>2. \A i \in 0 .. keys_cap - 1 : i <= keys_size => i <= keys_size'
      BY <1>2, <1>5
    <2> QED
      BY <1>1, <1>3, <1>4, <1>9, <2>1, <2>2 DEF Pointers
  <1>19. Objects'
    <2>1. k.pkey = k.alg <=> k.alg \in pkeys
      BY <1>1, <1>2, <1>6, <1>12 DEF Current
    <2>2. \A i \in 0 .. keys_size' - 1 : keys'[i].pkey = keys'[i].alg <=> keys'[i].alg \in pkeys'
      <3> TAKE i \in 0 .. keys_size' - 1
      <3>1. CASE i = keys_size
        <4>1. keys'[i] = k /\ pkeys' = pkeys
          BY <1>2, <1>9, <3>1
        <4> QED
          BY <2>1, <4>1
      <3>2. CASE i \in 0 .. keys_size - 1
        BY <1>1, <1>2, <1>9, <3>2 DEF Objects
      <3> QED
        BY <1>10, <3>1, <3>2
    <2>3. /\ ctxs' = Loaded' \cup Verified' /\ Loaded' \subseteq ctxs'
          /\ pkeys' \subseteq Loaded' \cup Verified' \cup oom'
      BY <1>1, <1>2, <1>3, <1>13 DEF Objects
    <2> QED
      BY <1>3, <2>2, <2>3 DEF Objects, Loading
  <1>20. Current'
    BY <1>2, <1>3 DEF Current, Busy, Loading
  <1>21. Processed'
    <2>1. Expected' = Expected
      BY <1>2 DEF Expected
    <2> QED
      BY <1>1, <1>2, <1>3, <1>4, <1>13, <2>1 DEF Processed
  <1> QED
    BY <1>14, <1>15, <1>16, <1>17, <1>18, <1>19, <1>20, <1>21 DEF IInv

(***************************************************************************)
(* The key array comes into being, grows, and is freed.                    *)
(***************************************************************************)
LEMMA FreshCell ==
    ASSUME NEW p \in Fresh
    PROVE  Uninitialised(p) \in Cell /\ Uninitialised(p).pkey \notin Files
  BY LoaderAssumption DEF Uninitialised, Cell

LEMMA StatKeeps ==
    ASSUME IInv, Stat
    PROVE  IInv'
  <1>1. Types /\ Control /\ Holding /\ Objects
    BY DEF IInv
  <1>2. PICK p \in Fresh : keys' = [i \in 0 .. KeysInit - 1 |-> Uninitialised(p)]
    BY DEF Stat
  <1>3. /\ pc = "stat" /\ path.kind # "missing"
        /\ IF path.kind = "dir"
             THEN pc' = "opendir" /\ file' = file /\ todo' = todo
             ELSE pc' = "open" /\ file' \in path.entries /\ todo' = {}
        /\ UNCHANGED <<path, keys_size, now, start, dropped, failed, oom, held, sockets, temps,
                       pkeys, ctxs, step>>
    BY DEF Stat, hist, heap
  <1>4. KeysInit \in Nat \ {0}
    BY LoaderAssumption
  <1>5. keys' \in [0 .. KeysInit - 1 -> Cell] /\ \A i \in 0 .. KeysInit - 1 : keys'[i].pkey \notin Files
    BY <1>2, FreshCell
  <1>6. keys_cap' = KeysInit
    BY <1>4, <1>5, CapOf DEF keys_cap
  <1>7. /\ todo = path.entries /\ file = Null /\ keys_size = 0
        /\ path.kind \in {"dir", "file"}
    BY <1>1, <1>3, PathFacts DEF Control, Types
  <1>a. Loading /\ Loading' /\ dropped = {}
    BY <1>1, <1>3 DEF Loading, Control
  <1>8. Done = {} /\ Done' = {} /\ Verified = {} /\ Verified' = {}
    <2>1. path.kind = "file" => \E f \in Files : path.entries = {f}
      BY <1>1, PathFacts DEF Types
    <2> QED
      BY <1>3, <1>7, <2>1 DEF Done, Verified, Busy, Loading
  <1>9. Loaded = {} /\ Loaded' = {}
    BY <1>3, <1>7 DEF Loaded
  <1>10. Types'
    <2>1. /\ keys_cap' \in Nat /\ keys' \in [0 .. keys_cap' - 1 -> Cell]
          /\ keys_size' \in Nat /\ keys_size' <= keys_cap'
      BY <1>3, <1>4, <1>5, <1>6, <1>7
    <2>2. todo' \in SUBSET path'.entries /\ file' \in path'.entries \cup {Null}
      BY <1>1, <1>3 DEF Types
    <2> QED
      BY <1>1, <1>3, <1>8, <2>1, <2>2 DEF Types
  <1>11. Control'
    <2>1. keys_size' < keys_cap' /\ keys_cap' > 0
      BY <1>3, <1>4, <1>6, <1>7
    <2> QED
      BY <1>3, <1>7, <1>a, <2>1 DEF Control, Busy, Loading
  <1>12. Holding'
    BY <1>1, <1>3, <1>7 DEF Holding, Dir, Busy, Loading
  <1>13. Table' /\ Pointers'
    BY <1>3, <1>5, <1>6, <1>7 DEF Table, Pointers
  <1>14. Objects'
    BY <1>1, <1>3, <1>7, <1>8, <1>9, <1>a DEF Objects, Loading
  <1>15. Current' /\ Processed'
    BY <1>3, <1>7, <1>8 DEF Current, Processed, Busy, Loading
  <1> QED
    BY <1>10, <1>11, <1>12, <1>13, <1>14, <1>15 DEF IInv

LEMMA ReadDirKeeps ==
    ASSUME IInv, ReadDir
    PROVE  IInv'
  <1>1. Types /\ Control /\ Holding /\ Table /\ Pointers /\ Objects /\ Processed
    BY DEF IInv
  <1>2. PICK f \in todo : file' = f /\ todo' = todo \ {f}
    BY DEF ReadDir
  <1>3. PICK p \in Fresh : keys' = Resized(EnsureCap, p)
    BY DEF ReadDir
  <1>4. /\ pc = "readdir" /\ pc' = "open"
        /\ UNCHANGED <<path, keys_size, now, start, dropped, failed, oom, held, sockets, temps,
                       pkeys, ctxs, step>>
    BY DEF ReadDir, hist, heap
  <1>a. Loading /\ Loading' /\ dropped = {}
    BY <1>1, <1>4 DEF Loading, Control
  <1> DEFINE n == EnsureCap
  <1>5. /\ keys_cap \in Nat /\ keys_cap > 0 /\ keys_size \in Nat /\ keys_size <= keys_cap
        /\ keys \in [0 .. keys_cap - 1 -> Cell] /\ path.kind = "dir"
    BY <1>1, <1>4 DEF Types, Control
  <1>6. n \in Nat /\ n >= keys_cap /\ n > keys_size
    BY <1>5 DEF EnsureCap
  <1> HIDE DEF n
  <1>7. keys' = [i \in 0 .. n - 1 |-> IF i < keys_cap THEN keys[i] ELSE Uninitialised(p)]
    BY <1>3 DEF Resized, n
  <1>8. \A i \in 0 .. n - 1 : i < keys_cap => i \in 0 .. keys_cap - 1
    BY <1>5, <1>6
  <1>9. keys' \in [0 .. n - 1 -> Cell]
    BY <1>5, <1>7, <1>8, FreshCell
  <1>10. \A i \in 0 .. n - 1 :
            \/ i \in 0 .. keys_cap - 1 /\ keys'[i] = keys[i]
            \/ keys'[i].pkey \notin Files
    BY <1>7, <1>8, FreshCell
  <1>11. \A i \in 0 .. keys_size - 1 : i \in 0 .. n - 1 /\ keys'[i] = keys[i]
    BY <1>5, <1>6, <1>7
  <1>12. keys_cap' = n
    BY <1>6, <1>9, CapOf DEF keys_cap
  <1>13. Done' = Done /\ Verified = {} /\ Verified' = {} /\ file' \in path.entries \ todo'
    BY <1>1, <1>2, <1>4 DEF Done, Verified, Busy, Loading, Types
  <1>14. Loaded' = Loaded /\ Expected' = Expected
    BY <1>4, <1>11 DEF Loaded, Expected
  <1>15. Types'
    <2>1. /\ keys_cap' \in Nat /\ keys' \in [0 .. keys_cap' - 1 -> Cell]
          /\ keys_size' \in Nat /\ keys_size' <= keys_cap'
      BY <1>4, <1>5, <1>6, <1>9, <1>12
    <2>2. todo' \in SUBSET path'.entries /\ file' \in path'.entries \cup {Null}
      BY <1>1, <1>2, <1>4, <1>13 DEF Types
    <2> QED
      BY <1>1, <1>4, <1>13, <2>1, <2>2 DEF Types
  <1>16. Control'
    BY <1>4, <1>5, <1>6, <1>12, <1>13, <1>a DEF Control, Busy, Loading
  <1>17. Holding'
    BY <1>1, <1>4 DEF Holding, Dir
  <1>18. Table'
    BY <1>1, <1>4, <1>11, <1>13 DEF Table
  <1>19. Pointers'
    BY <1>1, <1>4, <1>10, <1>12, <1>13, <1>a DEF Pointers
  <1>20. Objects'
    BY <1>1, <1>4, <1>11, <1>13, <1>14, <1>a DEF Objects, Loading
  <1>21. Current' /\ Processed'
    BY <1>1, <1>4, <1>13, <1>14, <1>a DEF Current, Processed, Busy
  <1> QED
    BY <1>15, <1>16, <1>17, <1>18, <1>19, <1>20, <1>21 DEF IInv

LEMMA FreeAllKeeps ==
    ASSUME IInv, free_all
    PROVE  IInv'
  <1> DEFINE ks == {keys[i] : i \in 0 .. keys_size - 1}
  <1>1. Types /\ Control /\ Holding /\ Table /\ Objects
    BY DEF IInv
  <1>2. /\ pc \in {"return", "stopping"} /\ pc' \in {"down", "crash"} /\ sockets' = {}
        /\ keys' = [i \in {} |-> Null] /\ keys_size' = 0
        /\ \/ pc' = "down" /\ pub_key_free(ks)
           \/ pc' = "crash" /\ UNCHANGED <<pkeys, ctxs>>
        /\ UNCHANGED <<path, todo, file, now, start, dropped, failed, oom, held, temps, step>>
    BY DEF free_all, hist
  <1>3. DOMAIN keys' = {} /\ keys' \in [{} -> Cell] /\ 0 .. 0 - 1 = {}
    BY <1>2
  <1>4. keys_cap' = 0
    BY <1>3, FS_EmptySet DEF keys_cap
  <1>5. keys' \in [0 .. keys_cap' - 1 -> Cell]
    BY <1>3, <1>4
  <1>6. Done' = Done /\ Verified = {} /\ Verified' = {} /\ Loaded' = {}
    BY <1>2, <1>3 DEF Done, Verified, Busy, Loading, Loaded
  <1>7. pkeys' \subseteq pkeys /\ ctxs' \subseteq ctxs
    BY <1>2 DEF pub_key_free
  <1>8. Types'
    BY <1>1, <1>2, <1>4, <1>5, <1>6, <1>7 DEF Types
  <1>9. Control' /\ Holding'
    BY <1>1, <1>2 DEF Control, Holding, Busy, Loading
  <1>10. Table' /\ Pointers'
    BY <1>2, <1>3, <1>4 DEF Table, Pointers
  <1>11. ASSUME pc' = "down" PROVE ctxs' = dropped /\ pkeys' \subseteq dropped \cup oom'
    <2>1. /\ pkeys' = pkeys \ {k.pkey : k \in ks} /\ ctxs' = ctxs \ {k.md_ctx : k \in ks}
      BY <1>2, <1>11 DEF pub_key_free
    <2>2. /\ ctxs = Loaded \cup dropped /\ Loaded \cap dropped = {}
          /\ pkeys \subseteq Loaded \cup dropped \cup oom
      BY <1>1, <1>2, <1>6 DEF Objects, Control, Loading
    <2>3. \A i \in 0 .. keys_size - 1 :
             /\ keys[i] \in ks /\ keys[i].md_ctx = keys[i].alg
             /\ keys[i].alg \in pkeys => keys[i].pkey = keys[i].alg
      BY <1>1 DEF Table, Whole, Written, Objects
    <2> HIDE DEF ks
    <2>4. \A g \in Loaded : g \notin ctxs' /\ g \notin pkeys'
      BY <2>1, <2>3 DEF Loaded
    <2>7. \A k \in ks : k.md_ctx \in Loaded
      BY <2>3 DEF Loaded, ks
    <2>5. ctxs' = dropped
      BY <2>1, <2>2, <2>4, <2>7
    <2>6. pkeys' \subseteq dropped \cup oom'
      BY <1>2, <2>1, <2>2, <2>4
    <2> QED
      BY <2>5, <2>6
  <1>12. Objects'
    BY <1>2, <1>3, <1>6, <1>11 DEF Objects, Loading
  <1>13. Current' /\ Processed'
    BY <1>2 DEF Current, Processed, Busy, Loading
  <1> QED
    BY <1>8, <1>9, <1>10, <1>12, <1>13 DEF IInv


(***************************************************************************)
(* Serving reorders the keys and stops counting some; nothing is freed.    *)
(***************************************************************************)
LEMMA Serves ==
    ASSUME IInv, pc \in {"serve", "serving"}, pc' \in {"serving", "stopping"},
           NEW order \in Bijection(0 .. keys_size - 1, 0 .. keys_size - 1),
           keys' = [i \in DOMAIN keys |->
                        IF i \in 0 .. keys_size - 1 THEN keys[order[i]] ELSE keys[i]],
           keys_size' \in 1 .. keys_size,
           dropped' = dropped \cup (Loaded \ Loaded'),
           now' \in Times, now' >= now,
           UNCHANGED <<path, todo, file, start, failed, oom, held, sockets, temps, pkeys, ctxs,
                       step>>
    PROVE  IInv'
  <1>1. Types /\ Control /\ Holding /\ Table /\ Objects
    BY DEF IInv
  <1>2. /\ keys_cap \in Nat /\ keys \in [0 .. keys_cap - 1 -> Cell] /\ keys_size \in Nat
        /\ keys_size <= keys_cap /\ keys_size' \in Nat /\ keys_size' > 0 /\ keys_size' <= keys_size
    BY <1>1 DEF Types
  <1>3. ~Busy /\ ~Busy' /\ ~Loading' /\ Verified = {} /\ Done' = Done
    BY DEF Busy, Loading, Verified, Done
  <1>4. /\ \A i \in 0 .. keys_size - 1 : order[i] \in 0 .. keys_size - 1
        /\ \A i, j \in 0 .. keys_size - 1 : order[i] = order[j] => i = j
    BY DEF Bijection, Injection, IsInjective
  <1>5. \A i \in 0 .. keys_size - 1 : i \in 0 .. keys_cap - 1 /\ keys'[i] = keys[order[i]]
    BY <1>2
  <1>6. keys_cap' = keys_cap /\ keys' \in [0 .. keys_cap - 1 -> Cell]
    <2>1. DOMAIN keys' = 0 .. keys_cap - 1
      BY <1>2
    <2>2. \A i \in 0 .. keys_cap - 1 : keys'[i] \in Cell
      BY <1>2, <1>4, <1>5
    <2> QED
      BY <1>2, <2>1, <2>2 DEF keys_cap
  <1>7. \A i \in 0 .. keys_size' - 1 : i \in 0 .. keys_size - 1
    <2> DEFINE m == keys_size'
    <2>1. m \in Nat /\ m <= keys_size /\ keys_size \in Nat
      BY <1>2
    <2> HIDE DEF m
    <2>2. \A i \in 0 .. m - 1 : i \in 0 .. keys_size - 1
      BY <2>1
    <2> QED
      BY <2>2 DEF m
  <1>a. \A i \in 0 .. keys_size' - 1 : keys'[i] = keys[order[i]] /\ order[i] \in 0 .. keys_size - 1
    BY <1>4, <1>5, <1>7
  <1>8. Loaded' \subseteq Loaded /\ Loaded \subseteq Done
    <2>1. \A i \in 0 .. keys_size - 1 : keys[i].alg \in Loaded
      BY DEF Loaded
    <2>2. ASSUME NEW f \in Loaded' PROVE f \in Loaded
      <3>1. PICK i \in 0 .. keys_size' - 1 : f = keys'[i].alg
        BY DEF Loaded
      <3> QED
        BY <1>a, <2>1, <3>1
    <2>3. Loaded \subseteq Done
      BY <1>1 DEF Loaded, Table
    <2> QED
      BY <2>2, <2>3
  <1>9. Types'
    <2>1. start <= now'
      BY <1>1, CertAssumption DEF Types
    <2>2. dropped' \in SUBSET Done'
      BY <1>1, <1>3, <1>8 DEF Types
    <2>3. keys_size' <= keys_cap'
      BY <1>2, <1>6
    <2> QED
      BY <1>1, <1>2, <1>3, <1>6, <2>1, <2>2, <2>3 DEF Types
  <1>10. Control'
    BY <1>2, <1>3 DEF Control
  <1>11. Holding'
    BY <1>1, <1>3 DEF Holding
  <1>12. Table'
    <2>1. ASSUME NEW i \in 0 .. keys_size - 1 PROVE keys[i].alg \in Done /\ Whole(keys[i], now')
      <3>1. keys[i].alg \in Done /\ Whole(keys[i], now)
        BY <1>1 DEF Table
      <3>2. Cert[keys[i].alg].not_before \in Int /\ now \in Int /\ now' \in Int
        BY <1>1, <3>1, PathFacts, CertAssumption DEF Types, CertType, Done
      <3> QED
        BY <3>1, <3>2 DEF Whole
    <2>2. \A i, j \in 0 .. keys_size - 1 : keys'[i].alg = keys'[j].alg => i = j
      BY <1>1, <1>4, <1>5 DEF Table
    <2>3. \A i \in 0 .. keys_size' - 1 : keys'[i].alg \in Done' /\ Whole(keys'[i], now')
      <3> TAKE i \in 0 .. keys_size' - 1
      <3>1. keys'[i] = keys[order[i]] /\ order[i] \in 0 .. keys_size - 1
        BY <1>a
      <3>2. keys[order[i]].alg \in Done /\ Whole(keys[order[i]], now')
        BY <2>1, <3>1
      <3> QED
        BY <1>3, <3>1, <3>2 DEF Whole, Written
    <2>4. \A i, j \in 0 .. keys_size' - 1 : keys'[i].alg = keys'[j].alg => i = j
      BY <1>7, <2>2
    <2> QED
      BY <2>3, <2>4 DEF Table
  <1>13. Objects'
    <2>1. \A i \in 0 .. keys_size - 1 : keys[i].pkey = keys[i].alg <=> keys[i].alg \in pkeys
      BY <1>1 DEF Objects
    <2>2. \A i \in 0 .. keys_size' - 1 : keys'[i].pkey = keys'[i].alg <=> keys'[i].alg \in pkeys'
      <3> TAKE i \in 0 .. keys_size' - 1
      <3>1. keys'[i] = keys[order[i]] /\ order[i] \in 0 .. keys_size - 1
        BY <1>a
      <3>2. keys[order[i]].pkey = keys[order[i]].alg <=> keys[order[i]].alg \in pkeys
        BY <2>1, <3>1
      <3> QED
        BY <3>1, <3>2
    <2>3. /\ ctxs = Loaded \cup dropped /\ Loaded \cap dropped = {}
          /\ pkeys \subseteq Loaded \cup dropped \cup oom
      BY <1>1, <1>3 DEF Objects, Control, Loading
    <2>4. /\ ctxs' = Loaded' \cup dropped' /\ Loaded' \cap dropped' = {}
          /\ pkeys' \subseteq Loaded' \cup dropped' \cup oom'
      BY <1>8, <2>3
    <2> QED
      BY <1>3, <2>2, <2>4 DEF Objects
  <1>14. Pointers' /\ Current' /\ Processed'
    BY <1>3 DEF Pointers, Current, Processed, Busy
  <1> QED
    BY <1>9, <1>10, <1>11, <1>12, <1>13, <1>14 DEF IInv

LEMMA ServeKeeps ==
    ASSUME IInv, Serve
    PROVE  IInv'
  <1>1. PICK n \in 1 .. keys_size - 1,
             order \in Bijection(0 .. keys_size - 1, 0 .. keys_size - 1) :
          /\ keys' = [i \in DOMAIN keys |->
                         IF i \in 0 .. keys_size - 1 THEN keys[order[i]] ELSE keys[i]]
          /\ keys_size' = n
    BY DEF Serve
  <1>2. /\ pc \in {"serve", "serving"} /\ pc' = "serving" /\ now' \in Times /\ now' >= now
        /\ dropped' = dropped \cup (Loaded \ Loaded')
        /\ UNCHANGED <<path, todo, file, start, failed, oom, held, sockets, temps, pkeys, ctxs,
                       step>>
    BY DEF Serve, Loaded, heap
  <1>3. keys_size' \in 1 .. keys_size
    BY <1>1 DEF IInv, Types
  <1> QED
    BY <1>1, <1>2, <1>3, Serves

LEMMA StopKeeps ==
    ASSUME IInv, Stop
    PROVE  IInv'
  <1> DEFINE order == [i \in 0 .. keys_size - 1 |-> i]
  <1>1. /\ pc \in {"serve", "serving"} /\ pc' = "stopping"
        /\ UNCHANGED <<path, todo, file, keys, keys_size, now, start, dropped, failed, oom, held,
                       sockets, temps, pkeys, ctxs, step>>
    BY DEF Stop, res, hist, heap
  <1>2. Types /\ Control
    BY DEF IInv
  <1>3. order \in Bijection(0 .. keys_size - 1, 0 .. keys_size - 1)
    BY DEF Bijection, Injection, Surjection, IsInjective
  <1>4. keys' = [i \in DOMAIN keys |->
                   IF i \in 0 .. keys_size - 1 THEN keys[order[i]] ELSE keys[i]]
    BY <1>1, <1>2 DEF Types
  <1>5. keys_size' \in 1 .. keys_size /\ now' \in Times /\ now' >= now
    BY <1>1, <1>2, CertAssumption DEF Types, Control
  <1>6. dropped' = dropped \cup (Loaded \ Loaded')
    BY <1>1 DEF Loaded
  <1> HIDE DEF order
  <1> QED
    BY <1>1, <1>3, <1>4, <1>5, <1>6, Serves

-----------------------------------------------------------------------------

LEMMA AtWork ==
    ASSUME IInv, Busy
    PROVE  /\ key \in Cell /\ keys_size \in 0 .. keys_cap - 1
           /\ keys = [keys EXCEPT ![keys_size] = key]
           /\ file \in Files /\ file # Null /\ file # Garbage
           /\ now \in Times /\ now >= now
           /\ failed \in SUBSET Files /\ pkeys \in SUBSET Files
           /\ pc # "verify" => ctxs = Loaded /\ pkeys \subseteq Loaded \cup oom
           /\ \A i \in 0 .. keys_size - 1 : keys[i].alg # file
           /\ pc \in {"readdir", "open"} => held = Dir
           /\ held \ {"fd", "map"} = Dir
  <1>1. Types /\ Control /\ Holding /\ Table /\ Objects
    BY DEF IInv
  <1>2. /\ keys \in [0 .. keys_cap - 1 -> Cell] /\ keys_size \in 0 .. keys_cap - 1
    BY <1>1 DEF Types, Control
  <1>3. key \in Cell /\ keys = [keys EXCEPT ![keys_size] = key]
    BY <1>2 DEF key
  <1>4. /\ file \in path.entries \ todo /\ path.entries \in SUBSET Files
        /\ Null \notin Files /\ Garbage \notin Files
    BY <1>1, PathFacts, LoaderAssumption DEF Types, Control
  <1>5. now \in Times /\ now >= now
    BY <1>1, CertAssumption DEF Types
  <1>6. \A i \in 0 .. keys_size - 1 : keys[i].alg # file
    BY <1>1 DEF Table, Done
  <1>7. held \ {"fd", "map"} = Dir /\ (pc \in {"readdir", "open"} => held = Dir)
    BY <1>1 DEF Holding, Busy, Loading, Dir
  <1>8. pc # "verify" => ctxs = Loaded /\ pkeys \subseteq Loaded \cup oom
    BY <1>1 DEF Objects, Verified, Busy, Loading
  <1>9. failed \in SUBSET Files /\ pkeys \in SUBSET Files
    BY <1>1 DEF Types
  <1> QED
    BY <1>2, <1>3, <1>4, <1>5, <1>6, <1>7, <1>8, <1>9

(***************************************************************************)
(* The rejections before and after the key object was made.                *)
(***************************************************************************)
LEMMA GivenUp ==
    ASSUME IInv, Busy, pc # "verify", NEW k \in Cell, k.pkey = key.pkey,
           UNCHANGED <<path, todo, file, start, dropped, sockets, step, pkeys, ctxs, oom>>,
           keys' = [keys EXCEPT ![keys_size] = k],
           now' \in Times, now' >= now,
           failed' = failed \/ failed' = failed \cup {file},
           Return(FALSE), held' = Dir, temps' = {},
           \/ ~(Cert[file].size > 0) \/ ~Cert[file].mappable \/ ~Cert[file].parses
           \/ ~(MaySignCode(Cert[file], now') /\ Cert[file].alg \in Algs)
           \/ ~SoundKey(Cert[file]) \/ file \in failed'
    PROVE  IInv'
  <1>1. /\ file \in Files /\ failed \in SUBSET Files /\ pkeys \in SUBSET Files
        /\ ctxs = Loaded /\ pkeys \subseteq Loaded \cup oom
    BY AtWork
  <1>2. Types
    BY DEF IInv
  <1>3. file \notin Expected'
    BY <1>2, NotExpected
  <1>4. failed' \in SUBSET Files /\ failed \subseteq failed'
    BY <1>1
  <1> QED
    BY <1>1, <1>3, <1>4, Rejected

LEMMA DigestMissing ==
    ASSUME IInv, Busy, pc # "verify", NEW k \in Cell, NoDigest(k), temps' = {},
           pc \notin {"open", "mmap"},
           UNCHANGED <<path, todo, file, now, start, dropped, failed, sockets, step>>,
           \/ k.pkey = key.pkey /\ pkeys' = pkeys
           \/ k.pkey = file /\ pkeys' = pkeys \cup {file}
    PROVE  IInv'
  <1> DEFINE m == [k EXCEPT !.md_ctx = Null]
  <1>1. /\ file \in Files /\ failed \in SUBSET Files /\ pkeys \in SUBSET Files
        /\ ctxs = Loaded /\ pkeys \subseteq Loaded \cup oom
        /\ now \in Times /\ now >= now /\ held \ {"fd", "map"} = Dir
        /\ \A i \in 0 .. keys_size - 1 : keys[i].alg # file
    BY AtWork
  <1>2. /\ keys' = [keys EXCEPT ![keys_size] = m] /\ oom' = oom \cup {file}
        /\ Return(FALSE) /\ held' = Dir /\ ctxs' = Loaded
    BY <1>1 DEF NoDigest, Unmap
  <1>3. m \in Cell /\ m.pkey = k.pkey
    BY DEF Cell
  <1>4. Types
    BY DEF IInv
  <1>5. now' \in Times /\ now' >= now /\ file \in oom'
    BY <1>1, <1>2
  <1>6. file \notin Expected'
    BY <1>4, <1>5, NotExpected
  <1>7. /\ pkeys' \in SUBSET Files /\ pkeys' \subseteq Loaded \cup oom'
        /\ \A i \in 0 .. keys_size - 1 : keys[i].alg \in pkeys' <=> keys[i].alg \in pkeys
    BY <1>1, <1>2
  <1>8. failed' \in SUBSET Files /\ failed \subseteq failed'
    BY <1>1
  <1> HIDE DEF m
  <1> QED
    BY <1>2, <1>3, <1>5, <1>6, <1>7, <1>8, Rejected

LEMMA NotLoaded ==
    ASSUME IInv, NotSelfSigned
    PROVE  IInv'
  <1>1. /\ pc = "verify" /\ Busy /\ Types /\ Objects /\ Pointers /\ Table /\ Holding /\ Current
    BY DEF NotSelfSigned, Busy, Loading, IInv
  <1>2. /\ UNCHANGED <<path, todo, file, keys, now, start, dropped, oom, sockets, temps, step>>
        /\ \/ ~Cert[file].self_signed /\ failed' = failed
           \/ failed' = failed \cup {file}
    BY DEF NotSelfSigned, FailOn
  <1>3. /\ key \in Cell /\ keys_size \in 0 .. keys_cap - 1
        /\ keys = [keys EXCEPT ![keys_size] = key]
        /\ file \in Files /\ file # Null /\ file # Garbage
        /\ now \in Times /\ now >= now
        /\ failed \in SUBSET Files /\ pkeys \in SUBSET Files
        /\ \A i \in 0 .. keys_size - 1 : keys[i].alg # file
        /\ held \ {"fd", "map"} = Dir
    BY <1>1, AtWork
  <1>4. temps' = {} /\ failed' \in SUBSET Files /\ failed \subseteq failed'
    BY <1>1, <1>2, <1>3 DEF Holding
  <1>5. CASE Alive(key)
    <2>1. /\ pkeys' = pkeys \ {key.pkey} /\ ctxs' = ctxs \ {key.md_ctx}
          /\ Return(FALSE) /\ held' = Dir
      BY <1>3, <1>5 DEF NotSelfSigned, pub_key_free, Unmap
    <2>2. ctxs = Loaded \cup {file} /\ pkeys \subseteq Loaded \cup {file} \cup oom
      BY <1>1 DEF Objects, Verified, Loading
    <2>3. file \notin Loaded
      BY <1>3 DEF Loaded
    <2>4. key.md_ctx = file /\ (key.pkey = file <=> file \in pkeys)
      BY <1>1 DEF Current
    <2>5. ctxs' = Loaded /\ pkeys' \subseteq Loaded \cup oom' /\ pkeys' \in SUBSET Files
      BY <1>2, <1>3, <2>1, <2>2, <2>3, <2>4
    <2>6. ASSUME NEW i \in 0 .. keys_size - 1
          PROVE  keys[i].alg \in pkeys' <=> keys[i].alg \in pkeys
      <3>1. keys[i].alg \in pkeys => keys[i].alg = keys[i].pkey
        BY <1>1 DEF Objects
      <3>2. i \in 0 .. keys_cap - 1 /\ i # keys_size
        BY <1>1, <1>3 DEF Types
      <3>3. keys[i].alg \in pkeys => keys[i].pkey # key.pkey
        BY <1>1, <1>3, <3>1, <3>2 DEF Pointers, key, Loading
      <3> QED
        BY <2>1, <3>1, <3>3
    <2>7. file \notin Expected'
      BY <1>1, <1>2, <1>3, NotExpected
    <2>8. now' \in Times /\ now' >= now /\ keys' = [keys EXCEPT ![keys_size] = key]
      BY <1>2, <1>3
    <2> QED
      BY <1>1, <1>2, <1>3, <1>4, <2>1, <2>5, <2>6, <2>7, <2>8, Rejected
  <1>6. CASE ~Alive(key)
    <2>1. pc' = "crash" /\ UNCHANGED <<pkeys, ctxs, keys_size, held>>
      BY <1>6 DEF NotSelfSigned
    <2> QED
      BY <1>1, <1>2, <1>4, <2>1, Crashes
  <1> QED
    BY <1>5, <1>6


-----------------------------------------------------------------------------

LEMMA InitIInv == Init => IInv
  <1> SUFFICES ASSUME Init PROVE IInv
    OBVIOUS
  <1>1. DOMAIN keys = {} /\ keys \in [{} -> Cell] /\ 0 .. 0 - 1 = {}
    BY DEF Init
  <1>2. keys_cap = 0
    BY <1>1, FS_EmptySet DEF keys_cap
  <1>3. keys \in [0 .. keys_cap - 1 -> Cell]
    BY <1>1, <1>2
  <1>4. Done = {} /\ Verified = {} /\ Loaded = {}
    BY <1>1 DEF Init, Done, Verified, Loaded
  <1>5. start <= now
    BY CertAssumption DEF Init
  <1>6. Types
    BY <1>2, <1>3, <1>4, <1>5 DEF Init, Types
  <1>7. Control /\ Holding
    BY DEF Init, Control, Holding, Busy, Loading
  <1>8. Table /\ Pointers /\ Objects
    BY <1>1, <1>2, <1>4 DEF Init, Table, Pointers, Objects
  <1>9. Current /\ Processed
    BY <1>4 DEF Init, Current, Processed, Busy, Loading
  <1> QED
    BY <1>6, <1>7, <1>8, <1>9 DEF IInv

(***************************************************************************)
(* The calls that end the extraction of a key.                             *)
(***************************************************************************)
LEMMA EdKeeps ==
    ASSUME IInv, ed_extract
    PROVE  IInv'
  <1> DEFINE k == [key EXCEPT !.exp_sig_size = file, !.pkey = file, !.md = file]
  <1>1. /\ pc = "ed_extract" /\ Busy /\ SoundKey(Cert[file]) /\ pkeys' = pkeys \cup {file}
        /\ NewDigest(k) \/ NoDigest(k)
        /\ UNCHANGED <<path, todo, file, now, start, dropped, failed, sockets, temps, step>>
    BY DEF ed_extract, Busy, Loading
  <1>2. key \in Cell /\ file \in Files
    BY <1>1, AtWork
  <1>3. k \in Cell /\ k.alg = key.alg /\ k.exp_sig_size = file /\ k.pkey = file /\ k.md = file
    BY <1>2 DEF Cell
  <1>4. temps = {} /\ key.alg = file
    BY <1>1 DEF IInv, Holding, Current
  <1>5. CASE NewDigest(k)
    <2> DEFINE m == [k EXCEPT !.md_ctx = file]
    <2>1. /\ keys' = [keys EXCEPT ![keys_size] = m] /\ ctxs' = ctxs \cup {file} /\ pc' = "verify"
          /\ UNCHANGED <<keys_size, held, oom>>
      BY <1>5 DEF NewDigest
    <2>2. m \in Cell /\ m.alg = file /\ m.pkey = file /\ Written(m)
      <3> HIDE DEF k
      <3>1. m \in Cell /\ m.alg = k.alg /\ m.pkey = k.pkey /\ m.md_ctx = file
            /\ m.md = k.md /\ m.exp_sig_size = k.exp_sig_size
        BY <1>2, <1>3 DEF Cell
      <3> QED
        BY <1>3, <1>4, <3>1 DEF Written
    <2> HIDE DEF m
    <2> QED
      BY <1>1, <1>4, <2>1, <2>2, Completes
  <1>6. CASE NoDigest(k)
    <2> HIDE DEF k
    <2> QED
      BY <1>1, <1>3, <1>4, <1>6, DigestMissing
  <1> QED
    BY <1>1, <1>5, <1>6

LEMMA FromdataKeeps ==
    ASSUME IInv, Fromdata
    PROVE  IInv'
  <1>1. /\ pc = "fromdata" /\ Busy /\ temps' = {}
        /\ UNCHANGED <<path, todo, file, now, start, dropped, failed, sockets, step>>
    BY DEF Fromdata, Busy, Loading
  <1>2. key \in Cell /\ file \in Files
    BY <1>1, AtWork
  <1>3. /\ key.alg = file /\ key.exp_sig_size = file /\ key.md = file /\ SoundKey(Cert[file])
        /\ Cert[file].alg = "rsa"
    BY <1>1 DEF IInv, Current
  <1>4. ASSUME NEW k \in Cell, k.alg = file, k.exp_sig_size = file, k.md = file,
               NewDigest(k) \/ NoDigest(k),
               \/ k.pkey = file /\ pkeys' = pkeys \cup {file}
               \/ k.pkey = key.pkey /\ pkeys' = pkeys
        PROVE  IInv'
    <2> DEFINE m == [k EXCEPT !.md_ctx = file]
    <2>1. CASE NewDigest(k)
      <3>1. /\ keys' = [keys EXCEPT ![keys_size] = m] /\ ctxs' = ctxs \cup {file} /\ pc' = "verify"
            /\ UNCHANGED <<keys_size, held, oom>>
        BY <2>1 DEF NewDigest
      <3>2. m \in Cell /\ m.alg = file /\ m.pkey = k.pkey /\ Written(m)
        BY <1>2, <1>4 DEF Cell, Written
      <3> HIDE DEF m
      <3> QED
        BY <1>1, <1>3, <1>4, <3>1, <3>2, Completes
    <2>2. CASE NoDigest(k)
      BY <1>1, <1>4, <2>2, DigestMissing
    <2> QED
      BY <1>4, <2>1, <2>2
  <1>5. CASE key.pkey = Null
    <2> DEFINE k == [key EXCEPT !.pkey = file]
    <2>1. pkeys' = pkeys \cup {file} /\ (NewDigest(k) \/ NoDigest(k))
      BY <1>5 DEF Fromdata
    <2>2. /\ k \in Cell /\ k.alg = key.alg /\ k.exp_sig_size = key.exp_sig_size
          /\ k.md = key.md /\ k.pkey = file
      BY <1>2 DEF Cell
    <2> HIDE DEF k
    <2> QED
      BY <1>3, <1>4, <2>1, <2>2
  <1>6. CASE key.pkey # Null
    <2>1. pkeys' = pkeys /\ (NewDigest(key) \/ NoDigest(key) \/ Crash)
      BY <1>6 DEF Fromdata
    <2>2. CASE NewDigest(key) \/ NoDigest(key)
      BY <1>2, <1>3, <1>4, <2>1, <2>2
    <2>3. CASE Crash
      <3>1. pc' = "crash" /\ UNCHANGED <<keys, keys_size, held, oom, ctxs>>
        BY <2>3 DEF Crash
      <3>2. failed' \in SUBSET Files
        BY <1>1, AtWork
      <3> QED
        BY <1>1, <2>1, <3>1, <3>2, Crashes
    <2> QED
      BY <2>1, <2>2, <2>3
  <1> QED
    BY <1>5, <1>6

LEMMA NextIInv == IInv /\ [Next]_vars => IInv'
  <1> SUFFICES ASSUME IInv, [Next]_vars PROVE IInv'
    OBVIOUS
  <1>1. Types /\ Control /\ Holding /\ Current
    BY DEF IInv
  <1>2. ASSUME pc \in {"setup", "stat", "opendir"}, pc' = "return",
               UNCHANGED <<path, todo, file, res, now, hist, held, sockets, heap, step>>
        PROVE  IInv'
    <2>1. UNCHANGED <<path, todo, file, keys, keys_size, now, start, dropped, failed, oom, held,
                      sockets, temps, pkeys, ctxs, step>>
      BY <1>2 DEF res, hist, heap
    <2>2. ~Busy /\ ~Busy' /\ Loading /\ Loading'
      BY <1>2 DEF Busy, Loading
    <2>3. Control' /\ Holding'
      BY <1>1, <1>2, <2>1, <2>2 DEF Control, Holding
    <2> QED
      BY <1>1, <2>1, <2>2, <2>3, Elsewhere DEF Types
  <1>3. CASE NoArgument \/ SetupFails \/ StatFails \/ OpenDirFails
    BY <1>2, <1>3 DEF NoArgument, SetupFails, StatFails, OpenDirFails
  <1>4. CASE Setup
    <2>1. /\ pc = "setup" /\ path.kind # "absent" /\ step' = step + 1
          /\ sockets' \in SUBSET {"socket", "epoll_create1"} /\ pc' \in {"setup", "stat"}
          /\ UNCHANGED <<path, todo, file, keys, keys_size, now, start, dropped, failed, oom, held,
                         temps, pkeys, ctxs>>
      BY <1>1, <1>4 DEF Setup, Types, res, hist, heap
    <2>2. step \in 1 .. 8 /\ step <= 5 /\ (pc' = "setup" => step # 5)
      <3>1. Len(SetupCalls) = 5
        BY DEF SetupCalls
      <3> QED
        BY <1>1, <1>4, <2>1, <3>1 DEF Setup, Types, Control
    <2>3. step' \in 1 .. 8 /\ (pc' = "setup" => step' <= 5)
      BY <2>1, <2>2
    <2>4. ~Busy /\ ~Busy' /\ Loading /\ Loading'
      BY <2>1 DEF Busy, Loading
    <2>5. Control' /\ Holding'
      BY <1>1, <2>1, <2>3, <2>4 DEF Control, Holding
    <2> QED
      BY <1>1, <2>1, <2>3, <2>4, <2>5, Elsewhere DEF Types
  <1>5. CASE Stat
    BY <1>5, StatKeeps
  <1>6. CASE OpenDir
    <2>1. /\ pc = "opendir" /\ held' = {"dir", "full_file_path"}
          /\ pc' \in {"readdir", "assert_path_len"}
          /\ UNCHANGED <<path, todo, file, keys, keys_size, now, start, dropped, failed, oom,
                         sockets, temps, pkeys, ctxs, step>>
      BY <1>6 DEF OpenDir, res, hist, heap
    <2>2. ~Busy /\ ~Busy' /\ Loading /\ Loading'
      BY <2>1 DEF Busy, Loading
    <2>3. path.kind = "dir" /\ keys_cap > 0 /\ keys_cap' = keys_cap
      BY <1>1, <2>1 DEF Control, keys_cap
    <2>4. Control' /\ Holding'
      BY <1>1, <2>1, <2>2, <2>3 DEF Control, Holding, Dir
    <2> QED
      BY <1>1, <2>1, <2>2, <2>4, Elsewhere DEF Types
  <1>7. CASE ReadDir
    BY <1>7, ReadDirKeeps
  <1>8. CASE ReadDirEnds
    <2>1. /\ pc = "readdir" /\ todo = {} /\ held' = {}
          /\ pc' = IF keys_size = 0 THEN "return" ELSE "serve"
          /\ UNCHANGED <<path, todo, file, keys, keys_size, now, start, dropped, failed, oom,
                         sockets, temps, pkeys, ctxs, step>>
      BY <1>8 DEF ReadDirEnds, res, hist, heap
    <2>2. ~Busy /\ ~Busy' /\ Loading /\ Loading'
      BY <2>1 DEF Busy, Loading
    <2>3. pc' = "serve" => keys_size > 0
      BY <1>1, <2>1 DEF Types
    <2>4. Control' /\ Holding'
      BY <1>1, <2>1, <2>2, <2>3 DEF Control, Holding
    <2> QED
      BY <1>1, <2>1, <2>2, <2>4, Elsewhere DEF Types
  <1>9. ASSUME Busy
        PROVE  /\ key \in Cell /\ keys = [keys EXCEPT ![keys_size] = key]
               /\ file \in Files /\ now \in Times /\ now >= now /\ held \ {"fd", "map"} = Dir
               /\ pc = "open" => held = Dir
               /\ pc = "mmap" => held \ {"fd"} = Dir
               /\ pc \notin {"rsa_build", "fromdata"} => temps = {}
    <2>1. pc = "mmap" => held \ {"fd"} = Dir
      BY <1>1 DEF Holding, Dir
    <2> QED
      BY <1>1, <1>9, <2>1, AtWork DEF Holding
  <1>10. ASSUME Busy, Busy', pc # "verify", pc' # "verify",
                UNCHANGED <<path, todo, file, keys, keys_size, now, start, dropped, failed, oom,
                            pkeys, ctxs, sockets>>,
                temps' \in SUBSET RsaObjects, step' \in 1 .. 8, pc' = "rsa_build" => step' <= 7,
                Holding', Current'
         PROVE  IInv'
    BY <1>9, <1>10, GoesOn
  <1>11. CASE Open
    <2>1. /\ pc = "open" /\ pc' = "mmap" /\ held' = held \cup {"fd"}
          /\ UNCHANGED <<path, todo, file, keys, keys_size, now, start, dropped, failed, oom,
                         sockets, temps, pkeys, ctxs, step>>
      BY <1>11 DEF Open, res, hist, heap
    <2>2. Busy /\ Busy' /\ Holding' /\ Current'
      BY <1>1, <2>1 DEF Busy, Loading, Holding, Current, Dir
    <2> QED
      BY <1>1, <1>10, <2>1, <2>2 DEF Types
  <1>12. CASE OpenFails
    <2>1. /\ pc = "open" /\ Busy /\ file \in failed' /\ failed' = failed \cup {file}
          /\ Return(FALSE)
          /\ UNCHANGED <<path, todo, file, keys, now, start, dropped, oom, held, sockets, temps,
                         pkeys, ctxs, step>>
      BY <1>12 DEF OpenFails, FailOn, heap, Busy, Loading
    <2> QED
      BY <1>9, <2>1, GivenUp
  <1>13. CASE Unreadable
    <2>1. /\ pc = "mmap" /\ Busy /\ Return(FALSE) /\ held' = held \ {"fd"}
          /\ UNCHANGED <<path, todo, file, keys, now, start, dropped, oom, sockets, temps, pkeys,
                         ctxs, step>>
      BY <1>13 DEF Unreadable, Reject, heap, Busy, Loading
    <2>2. CASE Cert[file].size = 0 \/ ~Cert[file].mappable
      <3>1. failed' = failed /\ (~(Cert[file].size > 0) \/ ~Cert[file].mappable)
        BY <1>13, <2>2 DEF Unreadable
      <3> QED
        BY <1>9, <2>1, <3>1, GivenUp
    <2>3. CASE ~(Cert[file].size = 0 \/ ~Cert[file].mappable)
      <3>1. file \in failed' /\ failed' = failed \cup {file}
        BY <1>13, <2>3 DEF Unreadable, FailOn
      <3> QED
        BY <1>9, <2>1, <3>1, GivenUp
    <2> QED
      BY <2>2, <2>3
  <1>14. CASE Mmap
    <2>1. /\ pc = "mmap" /\ pc' = "parse" /\ held' = held \cup {"map"}
          /\ Cert[file].size > 0 /\ Cert[file].mappable
          /\ UNCHANGED <<path, todo, file, keys, keys_size, now, start, dropped, failed, oom,
                         sockets, temps, pkeys, ctxs, step>>
      BY <1>14 DEF Mmap, res, hist, heap
    <2>2. Busy /\ Busy' /\ Holding' /\ Current'
      BY <1>1, <2>1 DEF Busy, Loading, Holding, Current, Dir
    <2> QED
      BY <1>1, <1>10, <2>1, <2>2 DEF Types
  <1>15. CASE ParseFails
    <2>1. /\ pc = "parse" /\ Busy /\ Return(FALSE) /\ held' = held \ {"fd", "map"}
          /\ ~Cert[file].parses
          /\ UNCHANGED <<path, todo, file, keys, now, start, dropped, failed, oom, sockets, temps,
                         pkeys, ctxs, step>>
      BY <1>15 DEF ParseFails, Unmap, hist, heap, Busy, Loading
    <2> QED
      BY <1>9, <2>1, GivenUp
  <1>16. CASE Refuse
    <2>1. /\ pc = "parse" /\ Busy /\ Return(FALSE) /\ held' = held \ {"fd", "map"}
          /\ ~(MaySignCode(Cert[file], now') /\ Cert[file].alg \in Algs)
          /\ now' \in Times /\ now' >= now
          /\ UNCHANGED <<path, todo, file, keys, start, dropped, failed, oom, sockets, temps, pkeys,
                         ctxs, step>>
      BY <1>16 DEF Refuse, Usable, Unmap, hist, heap, Busy, Loading
    <2> QED
      BY <1>9, <2>1, GivenUp
  <1>17. CASE pub_key_extract
    <2> DEFINE k == [key EXCEPT !.alg = file]
    <2>1. /\ pc = "parse" /\ Busy /\ Cert[file].parses
          /\ MaySignCode(Cert[file], now') /\ Cert[file].alg \in Algs
          /\ now' \in Times /\ now' >= now
          /\ keys' = [keys EXCEPT ![keys_size].alg = file]
          /\ pc' = IF Cert[file].alg = "rsa" THEN "rsa_extract" ELSE "ed_extract"
          /\ UNCHANGED <<path, todo, file, keys_size, start, dropped, failed, oom, held, sockets,
                         temps, pkeys, ctxs, step>>
      BY <1>17 DEF pub_key_extract, Usable, hist, heap, Busy, Loading
    <2>2. k \in Cell /\ k.pkey = key.pkey /\ k.alg = file
      BY <1>9, <2>1 DEF Cell
    <2>3. keys' = [keys EXCEPT ![keys_size] = k]
      BY <2>1 DEF key
    <2> HIDE DEF k
    <2>4. key' = k
      BY <1>1, <2>1, <2>2, <2>3, Writes DEF key, IInv
    <2>5. Busy' /\ Holding'
      BY <1>1, <2>1 DEF Busy, Loading, Holding, Dir
    <2>6. Current'
      BY <1>1, <2>1, <2>2, <2>4 DEF Current, Busy, Loading
    <2> QED
      BY <1>1, <2>1, <2>2, <2>3, <2>5, <2>6, GoesOn DEF Types
  <1>18. CASE EdRejects
    <2> DEFINE k == [key EXCEPT !.exp_sig_size = file]
    <2>1. /\ pc = "ed_extract" /\ Busy /\ Return(FALSE) /\ held' = held \ {"fd", "map"}
          /\ \/ ~SoundKey(Cert[file]) /\ failed' = failed
             \/ file \in failed' /\ failed' = failed \cup {file}
          /\ keys' = [keys EXCEPT ![keys_size].exp_sig_size = file]
          /\ UNCHANGED <<path, todo, file, now, start, dropped, oom, sockets, temps, pkeys, ctxs,
                         step>>
      BY <1>18 DEF EdRejects, FailOn, Unmap, heap, Busy, Loading
    <2>2. k \in Cell /\ k.pkey = key.pkey
      BY <1>9, <2>1 DEF Cell
    <2>3. keys' = [keys EXCEPT ![keys_size] = k]
      BY <2>1 DEF key
    <2> HIDE DEF k
    <2> QED
      BY <1>9, <2>1, <2>2, <2>3, GivenUp
  <1>19. CASE ed_extract
    BY <1>19, EdKeeps
  <1>20. CASE RsaRejects
    <2> DEFINE k == IF Cert[file].params /\ Cert[file].sig_alg
                      THEN [key EXCEPT !.md = file] ELSE key
    <2>1. /\ pc = "rsa_extract" /\ Busy /\ Return(FALSE) /\ held' = held \ {"fd", "map"}
          /\ ~SoundKey(Cert[file])
          /\ keys' = IF Cert[file].params /\ Cert[file].sig_alg
                       THEN [keys EXCEPT ![keys_size].md = file] ELSE keys
          /\ UNCHANGED <<path, todo, file, now, start, dropped, failed, oom, sockets, temps,
                         pkeys, ctxs, step>>
      BY <1>20 DEF RsaRejects, Unmap, hist, heap, Busy, Loading
    <2>2. k \in Cell /\ k.pkey = key.pkey
      BY <1>9, <2>1 DEF Cell
    <2>3. keys' = [keys EXCEPT ![keys_size] = k]
      BY <1>9, <2>1 DEF key
    <2> HIDE DEF k
    <2> QED
      BY <1>9, <2>1, <2>2, <2>3, GivenUp
  <1>21. CASE RsaParse
    <2> DEFINE k == [key EXCEPT !.md = file, !.exp_sig_size = file]
    <2>1. /\ pc = "rsa_extract" /\ Busy /\ SoundKey(Cert[file])
          /\ keys' = [keys EXCEPT ![keys_size].md = file, ![keys_size].exp_sig_size = file]
          /\ step' = 1 /\ pc' = "rsa_build"
          /\ UNCHANGED <<path, todo, file, keys_size, now, start, dropped, failed, oom, held,
                         sockets, temps, pkeys, ctxs>>
      BY <1>21 DEF RsaParse, hist, heap, Busy, Loading
    <2>2. k \in Cell /\ k.pkey = key.pkey /\ k.alg = key.alg /\ k.md = file /\ k.exp_sig_size = file
      BY <1>9, <2>1 DEF Cell
    <2>3. keys' = [keys EXCEPT ![keys_size] = k]
      BY <1>1, <2>1 DEF key, Types, Control
    <2> HIDE DEF k
    <2>a. now' \in Times /\ now' >= now /\ Table
      BY <1>9, <2>1 DEF IInv
    <2>4. key' = k
      BY <1>1, <2>1, <2>2, <2>3, <2>a, Writes DEF key
    <2>5. Busy' /\ Holding'
      BY <1>1, <2>1 DEF Busy, Loading, Holding, Dir
    <2>6. Current'
      BY <1>1, <2>1, <2>2, <2>4 DEF Current, Busy, Loading
    <2>7. step' \in 1 .. 8 /\ step' <= 7
      BY <2>1
    <2> QED
      BY <1>1, <2>1, <2>2, <2>3, <2>5, <2>6, <2>7, <2>a, GoesOn DEF Types
  <1>22. CASE RsaCall
    <2>1. /\ pc = "rsa_build" /\ temps' \in SUBSET RsaObjects /\ step' = step + 1
          /\ pc' \in {"rsa_build", "fromdata"}
          /\ UNCHANGED <<path, todo, file, keys, keys_size, now, start, dropped, failed, oom,
                         held, sockets, pkeys, ctxs>>
      BY <1>1, <1>22 DEF RsaCall, Types, res, hist
    <2>2. step \in 1 .. 8 /\ step <= 7 /\ (pc' = "rsa_build" => step # 7)
      <3>1. Len(RsaCalls) = 7
        BY DEF RsaCalls
      <3> QED
        BY <1>1, <1>22, <2>1, <3>1 DEF RsaCall, Types, Control
    <2>3. step' \in 1 .. 8 /\ (pc' = "rsa_build" => step' <= 7)
      BY <2>1, <2>2
    <2>4. Busy /\ Busy' /\ Holding'
      BY <1>1, <2>1 DEF Busy, Loading, Holding, Dir
    <2>5. Current'
      BY <1>1, <2>1 DEF Current, Busy, Loading, key
    <2> QED
      BY <1>10, <2>1, <2>3, <2>4, <2>5
  <1>23. CASE RsaCallFails
    <2>1. /\ pc = "rsa_build" /\ Busy /\ Return(FALSE) /\ held' = held \ {"fd", "map"}
          /\ file \in failed' /\ failed' = failed \cup {file} /\ temps' = {}
          /\ UNCHANGED <<path, todo, file, keys, now, start, dropped, oom, sockets, pkeys, ctxs,
                         step>>
      BY <1>23 DEF RsaCallFails, FailOn, Unmap, Busy, Loading
    <2> QED
      BY <1>9, <2>1, GivenUp
  <1>24. CASE Fromdata
    BY <1>24, FromdataKeeps
  <1>25. CASE FromdataFails
    <2>1. /\ pc = "fromdata" /\ Busy /\ file \in failed' /\ failed' = failed \cup {file}
          /\ temps' = {}
          /\ UNCHANGED <<path, todo, file, now, start, dropped, sockets, pkeys, step>>
      BY <1>25 DEF FromdataFails, FailOn, Busy, Loading
    <2>2. CASE Unmap(FALSE) /\ UNCHANGED <<keys, ctxs, oom>>
      BY <1>9, <2>1, <2>2, GivenUp DEF Unmap
    <2>3. CASE Crash
      <3>1. pc' = "crash" /\ UNCHANGED <<keys, keys_size, held, oom, ctxs>>
        BY <2>3 DEF Crash
      <3>2. failed' \in SUBSET Files
        BY <1>1, <1>9, <2>1 DEF Types
      <3> QED
        BY <2>1, <3>1, <3>2, Crashes
    <2> QED
      BY <1>25, <2>2, <2>3 DEF FromdataFails
  <1>26. CASE SelfSigned
    BY <1>26, Loads
  <1>27. CASE NotSelfSigned
    BY <1>27, NotLoaded
  <1>28. CASE free_all
    BY <1>28, FreeAllKeeps
  <1>29. CASE Serve
    BY <1>29, ServeKeeps
  <1>30. CASE Stop
    BY <1>30, StopKeeps
  <1>31. CASE UNCHANGED vars
    BY <1>31 DEF vars, res, hist, heap, IInv, Types, Control, Holding, Table, Pointers, Objects,
                 Current, Processed, Busy, Loading, Done, Verified, Dir, Loaded, Expected,
                 keys_cap, key
  <1> QED
    BY <1>3, <1>4, <1>5, <1>6, <1>7, <1>8, <1>11, <1>12, <1>13, <1>14, <1>15, <1>16, <1>17, <1>18,
       <1>19, <1>20, <1>21, <1>22, <1>23, <1>24, <1>25, <1>26, <1>27, <1>28, <1>29, <1>30,
       <1>31 DEF Next

LEMMA Invariance == Spec => []IInv
  BY InitIInv, NextIInv, PTL DEF Spec

-----------------------------------------------------------------------------

(***************************************************************************)
(* The state stays well formed; in particular every key that is written to *)
(* or counted lies within the array, because ENSURE_CAP doubles it in time *)
(* whatever the first capacity (main.c:188).                               *)
(***************************************************************************)
THEOREM TypeCorrect == Spec => []TypeOK
  <1>1. IInv => TypeOK
    <2> SUFFICES ASSUME IInv PROVE TypeOK
      OBVIOUS
    <2>1. Types /\ Control
      BY DEF IInv
    <2>2. oom \subseteq Files /\ dropped \subseteq Files
      BY <2>1, PathFacts DEF Types, Done
    <2>3. keys_size \in 0 .. keys_cap
      BY <2>1 DEF Types
    <2> QED
      BY <2>1, <2>2, <2>3 DEF TypeOK, Types, Control, Busy
  <1> QED
    BY <1>1, Invariance, PTL

(***************************************************************************)
(* Each loaded key is made from one trustworthy certificate in all its     *)
(* members, and no certificate is loaded twice, for any directory and any  *)
(* order of its entries, although rejected certificates leave members and  *)
(* pointers of their own in the place the next key is extracted to.        *)
(***************************************************************************)
THEOREM LoadsWholeKeys == Spec => []KeysWhole
  <1>1. IInv => KeysWhole
    <2> SUFFICES ASSUME IInv PROVE KeysWhole
      OBVIOUS
    <2>1. Types /\ Table /\ Objects
      BY DEF IInv
    <2>2. Cardinality(Loaded) = keys_size
      BY <2>1, CountLoaded DEF Types, Table
    <2>3. \A i \in 0 .. keys_size - 1 :
             /\ keys[i].alg \in path.entries /\ Whole(keys[i], now) /\ keys[i].alg \in ctxs
             /\ keys[i].pkey = keys[i].alg => keys[i].alg \in pkeys
      BY <2>1 DEF Table, Done, Objects, Loaded
    <2> QED
      BY <2>2, <2>3 DEF KeysWhole, Whole, Written
  <1> QED
    BY <1>1, Invariance, PTL

(***************************************************************************)
(* "Execution may continue so long as a single x509 certificate is valid": *)
(* no certificate that is valid all the while and on which no call failed  *)
(* is passed over, whatever the other files of the directory are, and the  *)
(* server starts to serve only with at least one key.                      *)
(***************************************************************************)
THEOREM LoadsAllValid == Spec => []AllLoaded
  <1>1. IInv => AllLoaded
    <2> SUFFICES ASSUME IInv PROVE AllLoaded
      OBVIOUS
    <2>1. Types /\ Control /\ Processed
      BY DEF IInv
    <2>2. ASSUME pc \in {"serve", "return"}, todo = {} PROVE Expected \subseteq Loaded
      <3>1. Done = path.entries
        BY <2>2 DEF Done, Busy, Loading
      <3> QED
        BY <2>1, <2>2, <3>1 DEF Processed, Expected, Loading
    <2>3. ASSUME keys_size > 0 PROVE Loaded # {}
      <3>1. 0 \in 0 .. keys_size - 1
        BY <2>1, <2>3 DEF Types
      <3> QED
        BY <3>1 DEF Loaded
    <2> QED
      BY <2>1, <2>2, <2>3 DEF AllLoaded, Control
  <1> QED
    BY <1>1, Invariance, PTL

(***************************************************************************)
(* Every path out of read_cert, through whichever failing call, gives back *)
(* what it took: descriptors, mappings, buffers, intermediate objects, and *)
(* the key and digest context of a certificate that was rejected.  Every   *)
(* way out of main_protected, at once or after any number of passes of the *)
(* key loop, frees all but the keys those passes dropped, which free_all   *)
(* does not reach, and the key objects left without a digest context.      *)
(***************************************************************************)
THEOREM ReleasesAll == Spec => []Released
  <1>1. IInv => Released
    BY DEF IInv, Control, Holding, Objects, Verified, Released, Loading
  <1> QED
    BY <1>1, Invariance, PTL

=============================================================================
