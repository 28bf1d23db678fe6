# Verification of the remote script server

TLA+ models of the server in `src/src/`, model-checked with TLC; every invariant
that does not compare the parser with particular certificates, and both refinements,
are also proved, with TLAPS, for all values of the constants. The program listens on a
TCP port; each connection carries `signature '\n' script`; when the connection has
terminated the server looks for a trusted certificate whose key verifies the
signature over the script, and if there is one, runs the script with bash. One
thread does everything, over epoll.

## 1. Inventory

| Part | Source | State | Operations |
|---|---|---|---|
| event loop and connection table | `main.c` 64–103, 235–404 | `conns[]` (fd, open_time, buf, buf_size, buf_cap), `conns_total`, the batch of epoll events | take a batch, evict the oldest, accept, recv and grow, hang up, close, `free_conn`, `free_all` |
| script authentication | `main.c` 340–388, `basic.h` `for_each_lt`, `swap` | `keys[]`, `keys_size`, loop index and bound | drop an expired key by swapping, test framing and signature, accept, reject, close the server |
| script execution | `exec.c` | a pipe, a child process | pipe, fork, dup2, execlp, write, close, waitpid |
| startup and certificate loading | `main.c` 105–233, `read_cert.c` | socket and epoll descriptors, `keys[]` with its capacity, directory, path buffer, mapping | set up the socket, stat, readdir, `read_cert`, grow the array |
| key extraction | `crypto.c` | one `PubKey`, OpenSSL objects | checks of the certificate, `ed_extract`, `rsa_extract`, self-signature, `pub_key_free` |
| DER and x509 parser | `x509.c` | an index into the file, the parsed fields | `parse_any`, `parse_data_element`, `parse_x509`, time and key usage decoding |
| signing tool | `gen_sig.c` | none | read key and script, sign, write |
| test scripts | `test_all.sh`, `test_one.sh` | none | start server, compare output |

**Interaction.** `main` calls `main_protected`, which loads the keys (once, at
startup) and then loops over epoll batches for ever. A hang-up calls the key
loop, the key loop calls `exec_script`, which blocks until bash has ended; no
other connection is served meanwhile, but clients and the kernel go on. All
resources hang off one `Resources` structure that `free_all` releases after
`main_protected` has returned, wherever it returned from.

**What is hard here.**

* Events are taken in batches. An event is handled after earlier events of its
  batch have closed connections and reused slots, and after the client has done
  more than the event says.
* The key loop shrinks the array it iterates over, with a bound evaluated once
  and an index stepped back by hand.
* Slots, buffers, `PubKey` elements and pointers are reused; whatever one user
  leaves behind is the next one's start.
* `conns_total` duplicates what the table says and decides about eviction.
* The parser works on bytes that nobody has checked yet: lengths that disagree
  with each other, optional elements that are there in part, and loops that end
  in assertions.
* bash may stop reading at any time, and inherits every descriptor.
* Any of some twenty system and OpenSSL calls may fail between two others.

**What makes each part correct.** Event loop: table, counter, descriptors and
epoll registrations agree; no byte of one connection reaches another's script;
a connection is judged by all it sent and only after it ended; nothing blocks
and no one is starved. Authentication: no live key is skipped, no unexpired key lost
(which the code does not achieve, violation 1), the loop ends. Execution: bash reads the whole script and no more, after the status
line; nothing survives the call. Loading: exactly the trustworthy certificates
become keys, each whole, and what was taken is given back whichever call fails. Parser:
indices stay within the enclosing element, and the fields are what the encoding
says.

## 2. Modules

    PubKeys ──┬── KeyAuth ◄··(implements)·· KeyRing ── MCKeyRing
              │                                └── KeyRing_proofs
              └── Server ──┬── MCServer
    Kernel ───────┘        └── Server_proofs ── ServerEvents_proofs
    ExecScript ── ExecScript_proofs
    CertCheck ── CertLoader ──┬── MCCertLoader
                              └── CertLoader_proofs
    Asn1 ──┬── Element ◄··(implements)·· Der ──┬── MCDer
           │                                   └── Der_proofs
           └── X509 ──┬── MCX509
                      └── X509_proofs ── X509Fields_proofs

Lines are EXTENDS. `Server` takes authentication as one step with the results
`PassResults`; `KeyRing` is shown to produce only those results (`KeyAuth` is the
abstract specification in between), so the two compose. `CertLoader` takes from the
same statement what serving does to the key array before `free_all`. Likewise `Server` takes
`exec_script` as one step, and `ExecScript` is what happens inside; `X509` reads
an element in one step, and `Der` is what happens inside. `CertLoader` takes the
outcome of the parser as attributes of a file, and `X509` is what happens inside.

**PubKeys, KeyAuth, KeyRing.** A key is named by its certificate. A buffer is
what the loop can tell about it: its size, the offsets of newlines and the keys
for which the part before the newline is a signature of the rest. `KeyRing` has
the array, `keys_size`, `i` and the frozen `bound` of `for_each_lt`, and one
action per branch of the loop body: `DropExpired`, `CloseServer`, `Accept`,
`TryNext`, and `Reject` after the loop. The clock may also be set back
(`time(NULL)` is not monotonic). Initially the array is in any order, as readdir
returns files in any order.

`PassResults` is what a caller gets from one pass: a rejecting pass has tried every
live key that could accept, and leaves no expired key; and it counts what the pass
costs. Because the bound is frozen, a pass that runs to its end has dropped exactly
two keys for each expired one, and a pass can close the server only if at least half
of the live keys have expired. Which sound keys go depends on their order.

**Kernel** is external: TCP connections (open, data, FIN, reset), the accept
queue, descriptors, and epoll's registrations and first-in first-out ready list
with level-triggered requeueing, as far as `main.c` uses them. A connection's
number stands for its descriptor. A batch is the first `MaxEvents` positions of the
ready list that have something to report (`Batch`), in their order (`Pick`). A registration survives a close as long as
another process (`heirs`) holds the descriptor. Each epoll event also records
the connection it was reported for, as history.

**Server.** One action per system call or branch; clients act between any two of
them. `pc` names the place: `wait`, `next` (the next event of the batch),
`accept` (after an eviction), `recv`, `hup` (the test after the recv loop),
`exec`, `ran`, `reject`, `return` (main_protected returns), `down`, and the three
failed assertions.

| Action | `main.c` |
|---|---|
| `EpollWait`, `EpollSleep`, `EpollWaitFails` | `epoll_wait` and its error return |
| `EvictOldest` | the search for `min_conn`, its assertion, `free_conn` |
| `AcceptFails`, `Accept`, `AcceptAborts` | `accept`, the search for a free slot, `epoll_ctl`, the assertion on `conn_fd` |
| `ConnEvent` | the checks on `idx`, the assertion, `EPOLLIN` or not |
| `RecvData`, `RecvTooMuch`, `RecvNothing`, `RecvError` | one round of the recv loop |
| `Authenticate`, `ExecScript`, `ExecFails`, `CloseVerified` | the hang-up branch |
| `CloseOnError`, `KeepOpen` | the error branch, and neither |
| `FreeAll` | `free_all` |

`orphans` is history: the slots for which an event of the current batch may find
nobody, because accept failed after an eviction, or because a process that a script
left behind keeps a closed connection registered.

Bytes are counted, not represented: a slot knows how many bytes it has
(`buf_size`) and whose they are (`holds`).

**ExecScript.** The server's and the child's steps of `exec_script`, the pipe as
a number of bytes and the sets of processes that hold its ends. `stop` is where
bash stops reading, before the end if the script says `exit` or `exec`.

**CertCheck, CertLoader.** A certificate file is a record of the attributes the
code tests. `CertLoader` follows `main_protected` up to the first `epoll_wait`
with `read_cert`, `extract_self_sign_for_code_sign`, `ed_extract`, `rsa_extract`,
`pub_key_free` and `free_all`, one action per call that can fail or that changes
what is held. `Serve` is a pass of the key loop that removes keys, with the cost that
`KeyRing` establishes; the keys it drops stay in the array behind `keys_size`, and
`dropped` remembers them. `Stop` is one of the ways out of the serving loop
(`main.c:243`, `369`, `398`). Each member of a `PubKey`, and each OpenSSL object, is named by the
file it was made for, so that a member left over from another file is visible.
Memory from malloc holds any of `Fresh`.

**Asn1, Element, Der.** A file is its size, its bytes, and for each offset the
length field that the bytes from there on form. `Asn1` has the readers of `x509.c`
under their names; each takes and returns the code, the index and the end of the
element read last, and does nothing once the code is not `PARSE_OK`. `Element` is
the abstract specification of `parse_any`: one step to its answer, which the length
field as a whole determines; a length beyond the end of the file stops growing there
(`LengthValues`), as all that counts of it is that it is beyond. `Der` is
`parse_any` itself, one action per part of the function and one per octet of the
length, with unsigned arithmetic modulo `Word`, which is at least `Base^MaxOctets`
(`Capacity`; 256^8 = 2^64 in the code). `X509` assumes of its certificates that
they are files (`IsFile`); `Der_proofs!EveryFileIsOne` shows that this excludes none.

**X509.** `parse_x509`: `pc` names the element that comes next, and an action
reads it, with every check in the order of the code. The loops over names,
attributes, extensions and key purposes take one step per round, each extension's
function is an action of its own. `end` has the ends of the four elements that may
be open at a time. A failed assertion is the code `ASSERTION_FAILED`. A
`_start`, `_end` pair of `x509Fields` is a region, `key_usage_flags` the set of its
bits, and a timestamp a day and a second, as timegm counts them. When the parser
fails, `ret_fields` is undefined (`x509.h:268`), so what a failing step writes is
left out.

| Action | `x509.c` |
|---|---|
| `Certificate` … `Signature` | the outer sequence up to the algorithm, 652–728 |
| `Issuer`, `Subject`, `RelativeName`, `Attribute`, `NameEnds` | `parse_name` |
| `Validity`, `NotBefore`, `NotAfter` | validity with `parse_time` |
| `SubjectPublicKeyInfo`, `Algorithm`, `SubjectPublicKey`, `UniqueIDs` | 767–819 |
| `Extensions`, `Extension`, `ExtensionsEnd` | the defaults and the loop, 821–930 |
| `parse_basic_constraint`, `parse_akid`, `parse_skid`, `parse_key_usage`, `parse_ext_key_usage`, `KeyPurpose`, `KeyPurposesEnd` | the functions of those names |
| `SignatureAlgorithm`, `SignatureValue` | 932–960 |

## 3. Runs

| Run | Asks | Result |
|---|---|---|
| `key_ring` | Does the loop with swap removal and a frozen bound end (`PassEnds`), stay in the array (`TypeOK`), and implement `KeyAuth` (`ImplementsKeyAuth`): try every live key before it rejects, and drop two keys for each expired one? | holds |
| `key_ring_genuine` | Is a script signed under a loaded certificate that has not expired accepted? | **violated** |
| `key_ring_shutdown` | When the server closes itself, have all certificates expired, as its message says? | **violated** |
| `server` | Do table, counter, descriptors and registrations agree (`ConnsTotalExact`, `TableOwnsFds`), do buffers stay apart and have room (`OwnBytes`, `BufRoom`), is a connection judged by all it sent (`WholeStream`), does accept never block (`AcceptNeverBlocks`), which assertions hold and when do the others fail (`AssertionsHold`)? Is every terminated connection disposed of (`TerminatedIsResolved`) and every waiting one accepted (`BacklogIsServed`), with a full table, more items ready than a batch holds, failing calls and background processes? | holds |
| `server_stale` | Is a script verified only after its connection terminated? | **violated** |
| `exec` | Does bash read exactly the script (`EntireScript`) after the status line (`AnnouncedFirst`), is nothing left (`NothingLeftBehind`), do the two processes never wait for each other (`NoMutualWait`), and does the call return, unless the child ended early (`ReturnsUnlessStuck`)? | holds |
| `exec_deadlock` | Does the call always return? | **violated** |
| `cert_loader` | Are exactly the trustworthy certificates loaded, whole, in any directory order and whichever call fails (`KeysWhole`, `AllLoaded`), and what is left unfreed in the end (`Released`)? | holds |
| `stale_key` | Does every loaded key have a key object made for it? | **violated** |
| `der` | Does `parse_any` stay in the enclosing element, in what it reads (`ReadsInParent`) and in what it returns (`ContentInParent`), never overflow (`TypeOK`), return (`Returns`), and compute what the length field as a whole says (`ImplementsElement`)? | holds |
| `x509` | Do elements stay nested (`Nested`), do the parser's assertions hold (`ParserAssertionsHold`), does it return (`Returns`), because each step takes some of the file or goes to a later stage (`Advances`)? Does it accept exactly the well-formed certificates (`AcceptsExactly`), with all fields assigned (`FullyInitialized`), taken from the signed data (`FieldsAreSigned`), each flag from its own extension (`FlagsByTheirExtension`), and saying what the certificate says (`FieldsAsWritten`)? | holds |
| `x509_time` | Is every timestamp the one the certificate states? | **violated** |

### What the violations show

1. **`key_ring_genuine`** (`main.c:361`–`365`, `basic.h:91`, `readme.md:3`). The bound of
   `for_each_lt` is fixed before `keys_size` shrinks, so the loop goes on over the
   keys it has just swapped behind `keys_size`. They have expired, so each is
   "removed" again, which swaps a sound key out and shrinks the array once more.
   From A (expired), B and C, one pass leaves a single key; the genuine scripts of
   the certificate that went with A are rejected from then on, until the server is
   restarted. The pass itself still judges its own buffer by every key that was live
   when it began (`ImplementsKeyAuth`, proved).
2. **`key_ring_shutdown`** (`main.c:368`). The same, with one key left: the server
   prints "All certificates have expired, closing server" and ends although a
   certificate has not.
3. **`server_stale`** (`main.c:340`, `readme.md:65`). The batch holds the listening
   socket's event and, after it, the hang-up of the oldest connection. The table
   is full, so the first evicts that connection and accepts a new one into its
   slot, and the second is applied to the new connection, whose data so far is
   judged while it is still open.
4. **`exec_deadlock`** (`exec.c:50`). The server holds the pipe's read end while
   it writes, so a script that exits with more than a pipe's capacity unread
   leaves `write` blocked for ever, without SIGPIPE. `ReturnsUnlessStuck`
   shows that this is the only way not to return.
5. **`stale_key`** (`crypto.c:183`, `crypto.h:57`). `EVP_PKEY_fromdata` makes a new
   object only if the pointer is NULL, and the array element still holds the
   pointer freed for the certificate rejected before.
6. **`x509_time`** (`x509.c:520`, `x509.h:215`). The year of a GeneralizedTime is
   stored in `tm_year` without subtracting 1900, so every date from 2050 on is read
   1900 years late: such a certificate never expires, or is never valid. UTCTime
   is right (`FieldsAsWritten`).

Four more things came up. They have no violation run of their own, because a passing
property or this text states exactly what the code does:

* An accept that fails after an eviction (`main.c:269`–`272`) leaves the evicted
  connection's slot empty. If an event of that connection comes later in the same
  batch, the assertion at `main.c:309` finds the slot unused and ends the server.
  `AssertionsHold` names this case.
* A process that a script leaves in the background keeps the connections it inherited
  registered with epoll after the server has closed them, so that a later event can
  name a slot that is no longer in use, and the same assertion fails. This is the
  other exception of `AssertionsHold`; there is no third.
* `free_all`, which is to "free all memory or resources used by the program"
  (`main.c:59`), frees the keys below `keys_size` (`main.c:72`). The keys that were
  dropped while serving lie behind it and keep their EVP_PKEY and EVP_MD_CTX.
  `Released` says that these, and the key objects of certificates for which
  EVP_MD_CTX_new failed, are all that is left.
* The second byte of a KeyUsage bit string is shifted by 1, not 8 (`x509.c:366`):
  decipherOnly ends up in bit 8, where nothing looks for it, and the undefined bits
  after it in flags of the first byte; `FlagsByTheirExtension` shows that flags of the
  other extension are out of its reach, and `FieldsAsWritten` leaves bits 8 and 15 out.

### Bounds

* `KeyRing`: four keys with three expiry times in all 24 orders, so that removals
  from the front, the middle and the end occur and two keys expire in one
  pass; two signature sizes; four clock readings in any order; passes repeat
  without limit. `key_ring_genuine` has one clock reading, at which a key has expired.
* `Server`: three connections for two slots, so that the table is full while another
  connection waits, and an eviction, a reuse of a slot and of its buffer, and a stale
  event each occur. `InitCap` 1 stands for 1024 bytes and `MaxScript` 2 for
  2 * GIGABYTE (`main.c:25`): a message of 1 fills the buffer exactly (it doubles), a
  message of 2 is too long. A batch holds two events, and with both slots in use and a
  connection in the queue three items are ready, so that a batch is too small for them.
  (The program's own assertion at `main.c:235` asks for more than two; the number is
  used only as the capacity of a batch, and what matters is that more can be ready. A
  batch of three would need a fourth client.) The accept queue holds one connection;
  client 1 may reset, its script leaves a process behind, and accept, epoll_wait,
  epoll_ctl and exec_script may fail. Each accept comes at a later tick of the clock;
  in `server_stale`, and in the proofs, also in the same one.
* `ExecScript`: a pipe of 3, scripts up to twice that, every stopping point.
* `CertLoader`: every directory of up to three of fourteen files: good ones of
  each key type and one per way to be rejected, which is enough for a good file
  before, between and after rejected ones; `KeysInit` 1, so that the array grows
  twice. One of them has expired at the later of the two times, so that serving drops
  one or two of up to three keys.
* `Der`: bytes of four bits and lengths of at most two of them, in words of eight
  bits, keep the proportions of the code at a size that can be enumerated: every
  length byte, the boundary values for the octets after it, every end of the
  parent. 24 bytes are enough for a long length (8 and up) that fits.
* `X509`: 1437 files of real bytes: every pair of validity times from a table with
  the boundary dates, every pair of names, of extensions and of presence of the
  unique identifiers with the forms of the outer algorithm, all triples of four
  extensions, one extension more than `MaxExtn` (3 for 64), and two complete
  certificates with each byte in turn replaced by 0, 48 (a sequence, a digit, a
  length) and 255.

All runs switch the deadlock check off because the programs modelled end
(the server returns or aborts, the call returns, all clients have finished).

### Fairness

* `KeyRing`: WF of the loop body, which is sequential code that does not block.
* `Server`: WF of the server's thread. Its blocking calls are epoll_wait, which
  returns when an item is ready, accept (`AcceptNeverBlocks`) and exec_script,
  whose scripts are assumed to end. SF of `Accept` says that accept does not fail
  for ever; WF of `ResetDone` that the kernel finishes processing a reset. With
  nothing ready epoll_wait may wait for ever; its failure, which would end the server,
  is not relied on. Clients have no fairness: they may stop at any point.
* `ExecScript`: WF of each of the two processes.
* `Der`, `X509`: WF of the next step of a sequential function that calls nothing
  that blocks.

## 4. Proofs

| Theorem | States |
|---|---|
| `KeyRing_proofs!TypeCorrect` | every index is in range and the array stays a permutation of the loaded keys |
| `KeyRing_proofs!Refinement` | `ImplementsKeyAuth`: `KeyRing` implements `KeyAuth`, so every pass tries all live keys before it rejects and drops what `PassResults` says |
| `Server_proofs!TypeCorrect` | `TypeOK` |
| `Server_proofs!CountIsExact` | `ConnsTotalExact` |
| `Server_proofs!TableIsExact` | `TableOwnsFds` |
| `Server_proofs!BuffersNeverMix` | `OwnBytes` |
| `Server_proofs!RecvHasRoom` | `BufRoom` |
| `Der_proofs!TypeCorrect` | `TypeOK`: indices stay in the file, the length does not overflow |
| `Der_proofs!ContentStaysInParent` | `ContentInParent`, what the comment at `x509.c:23` ensures |
| `Der_proofs!ReadsStayInParent` | `ReadsInParent` |
| `Der_proofs!Refinement` | `ImplementsElement`: `Der` implements `Element` |
| `Der_proofs!EveryFileIsOne` | with bytes of eight bits, every file that is not empty is one in the sense of `X509` |
| `X509_proofs!TypeCorrect` | `TypeOK`, with the bound of `extn_oids` |
| `X509_proofs!ElementsAreNested` | `Nested` |
| `X509_proofs!NoAssertionFails` | `ParserAssertionsHold` |
| `X509_proofs!JudgedBySignedData` | `FieldsAreSigned` |
| `X509_proofs!ParserAdvances` | `Advances` |
| `X509Fields_proofs!AssignsEveryMember` | `FullyInitialized`, if `Garbage` is no value that the parser assigns |
| `X509Fields_proofs!FlagsOnlyByTheirExtension` | `FlagsByTheirExtension` |
| `X509Fields_proofs!ValidityIsDated` | both times of a parsed certificate are a second of a day since the epoch |
| `X509Fields_proofs!ExtensionsAreDistinct` | a parsed certificate has at most `MAX_EXTN` extensions, no two with the same OID |
| `ServerEvents_proofs!AcceptFindsConnection` | `AcceptNeverBlocks` |
| `ServerEvents_proofs!VerifiesWholeStream` | `WholeStream` |
| `ServerEvents_proofs!AssertionsExplained` | `AssertionsHold`, whatever fails and whatever scripts leave behind |
| `ExecScript_proofs!TypeCorrect` | `TypeOK` |
| `ExecScript_proofs!RunsEntireScript` | `EntireScript` |
| `ExecScript_proofs!AnnouncesFirst` | `AnnouncedFirst` |
| `ExecScript_proofs!LeavesNothingBehind` | `NothingLeftBehind` |
| `ExecScript_proofs!WaitsOnlyIfStuck` | `NoMutualWait` |
| `CertLoader_proofs!TypeCorrect` | `TypeOK` |
| `CertLoader_proofs!LoadsWholeKeys` | `KeysWhole` |
| `CertLoader_proofs!LoadsAllValid` | `AllLoaded` |
| `CertLoader_proofs!ReleasesAll` | `Released` |

They hold for every value of the constants that satisfies the named assumptions
(`PubKeysAssumption`, `KernelAssumption`, `ServerAssumption`, `ExecScriptAssumption`,
`CertAssumption`, `LoaderAssumption`, `DerAssumption`, `X509Assumption`): any finite
non-empty set of keys, any expiry times, any number of connections, any number of
slots up to `MAX_INT32`, any messages, batches and capacities, any subset of failing
calls; scripts and pipes of any size; any files in any directory; for the parser any
file of at least one byte (`read_cert` refuses empty ones), any `MAX_EXTN`, any width
of bytes and words as long as a word can hold the file's size and a byte more, and
as many octets as a length may have. The
bound on the slots is what keeps a slot's number apart from `MAX_INT32`, by which the
server knows the listening socket's events (`main.c:248`); `MAX_CONCURRENCY` is 128.

Two theorems have a hypothesis of their own. `EveryFileIsOne` is about bytes of eight
bits and files that are not empty, which are those that `X509` is about.
`AssignsEveryMember` needs the value that stands for memory never written to be none
of those the parser writes.

**Key loop.** What a pass has done is not inductive: it says nothing while the pass is
running. The invariant adds that the keys before `i` have been tried (`Tried`), that the
keys at or beyond `keys_size` that the loop has yet to visit have expired (`Dropped`:
this is why no key that could accept this buffer is skipped), and that `keys_size` and
`i` never exceed the bound (`Bounds`). The count of dropped keys comes from the two
phases of the loop: while `i` is within `keys_size` it sorts the expired keys behind
`keys_size` (`Sweep`); beyond, it meets each of them again and swaps it with a sound
one, so that `keys_size` goes down as `i` goes up and their sum stays twice the number
of sound keys (`Meets`). The refinement maps the abstract ring, during a pass, to the
keys the pass began with; a pass is then a single abstract step, taken when it ends.

**Event loop.** The invariant is `Shape` (types, `TableOwnsFds`, and: a connection
in the accept queue is there once and not open yet), `Buffers` (a slot that is free
has no bytes, and a buffer that exists is never full), `Counted` unless an
assertion has failed, and `Handling` (between the checks of `ConnEvent` and the
end of the event, its slot is in use; `free_conn` relies on it without a check of
its own). `TableOwnsFds` needs the queue part: an accepted connection must not be
one that a slot already holds. `BufRoom` needs `Buffers`, because a reused buffer
keeps its capacity but not its size.

**Events of a batch.** `ServerEvents_proofs` adds what an event may be relied on for
between the epoll_wait that reported it and the step that handles it. The invariant
`EInv` relates four things that the code keeps apart: the ready list has each
registered item once (`ReadyOK`), so a batch has one event per item and its hang-ups
belong to peers that have terminated by then (`BatchOK`); bytes are either queued or
in the buffer of the slot that holds the connection (`Waiting`, `Streams`), and none
are queued once recv has found the end (`Drained`), which gives `WholeStream`; and the
accept queue is not empty as long as the listener's event is ahead (`Listening`), which
gives `AcceptNeverBlocks`. That a batch has no item twice rests on `Nth` enumerating
the positions of a set in order, proved from the well-foundedness of finite subsets.
`Alive` is for `AssertionsHold`: apart from the orphaned slots, the events ahead name
different slots that are all in use, and while a slot has been freed for a new
connection, it is the only free one.

**Running a script.** `EntireScript` needs to know, when bash finds the pipe empty and
no writer left, how much was written. `Ends` says which process holds which end of the
pipe, by what each is doing; `Phases` how far the one can be when the other is where it
is; `Bytes` that `i` bytes have been written, that each is in the pipe or read, and that
the loop is left early only after a failed write. The same invariant gives
`NoMutualWait`: a write waits only for a full pipe, from which a bash that still reads
can read, and at `waitpid` no process holds the write end any more, so bash finds the
end of its input. What is left is a child that has ended, and then the pipe is full of
what it did not read and the script goes on (violation 4). That no other deadlock is
possible is the safety half of `ReturnsUnlessStuck`; that the processes go on is
fairness, and model-checked.

**Loading certificates.** The array element after the last key is where every
certificate is tried, and whatever a rejected one leaves there is the next one's start.
`Pointers` says that a stale pointer can only be in that element and that no pointer
is in the array twice, so that no object is freed or overwritten under a loaded key;
`Objects` that OpenSSL's objects are those of the loaded keys, of the one at work and of
those that serving dropped;
`Holding` what is open at each place; `Current` what has been established of the file at
work; `Table` and `Processed` that what is done is right: each key in the array is whole,
and no file that should be there has been passed over. Serving keeps `Table` because it
only permutes the counted keys and counts fewer (`Serves`); what `free_all` then misses
is the difference.

**Reading an element.** `ContentInParent` speaks of the return only, and
`ReadsInParent` needs to know that the loop has as many octets ahead as the test
before it saw. The invariant `IInv` adds that, and `idx <= parent_end`, which makes
`parent_end - idx` a subtraction that does not wrap (`OctetsAhead`).

The refinement compares a loop over octets with the recursive definition of a length
field's value. `DInv` adds to `IInv` what has been decoded at each place (`Decoded`):
`identifier` and `length_octets` are the file's, after `i` octets the length is below
`Capacity[i]`, so that it is never reduced modulo `Word`, and it is `SameLength` as
`LengthValues` says after `i` octets: equal to it, or both beyond the file. One octet
more keeps this, which is one step of the loop and one unfolding of the definition, so
that no induction over the data is needed. That the recursive functions exist at all is
one: it is had, for each bound, from the least number at which the definition could
fail, and that from the well-foundedness of finite subsets. When the loop ends, the
form and the value agree with `Field`, and the last tests give its answer.

**The parser.** `Nested` alone is inductive only together with what has been
stored so far. `Known` says, for each place, which regions are assigned and how
they lie: the signed data begins before everything that is read from it, the
regions follow each other up to the index, and at the end of the TBS certificate
`idx = end.tbs`. `Fresh` says that `akid` is still the default as long as its
oid has not been seen: `parse_akid` assigns `akid_start` only if there is a key
identifier, so that its region is whole only because an extension cannot occur
twice. The readers of `Asn1` have one lemma each, `0 <= idx <= end <= parent_end` for
an element that was read, an unchanged index for one that is absent; the lemmas on
actions cite them. The assertions hold because each loop's last element must end
where its parent does.

`Advances` is why the parser ends, as a property of its steps: the index goes on, or it
stays and the parser comes to a later `Stage`. With `Nested`, which keeps the index
within the file, idx and stage together are a variant: there are at most four steps for
each byte and four more. It needs of each reader that an element which is read takes at
least two bytes, of `parse_name` and of the loops that a round reads an element, and
`Inv` for the ends, at which a loop leaves off without reading. `Returns` itself follows
under fairness, and is model-checked.

**What the parser assigns.** `X509Fields_proofs` extends this to the members that are
no regions. `Dated` says from where on the two times are known; a name is read both
before and after the validity, and `after` tells which. `Settled` and `Flagged` hold
once the defaults are assigned; a purpose's flag is set before `has_ext_key_usage`, so
the loop over purposes is excepted. `Unset` is the counterpart of `Fresh` for the path
length: `parse_basic_constraint` shifts bytes into whatever is there, and leaves it
alone without CA:TRUE, which is right only because the extension cannot occur twice.
`ValidityIsDated` comes from `Dated`: the digits are digits, so that no sum of them is
negative or beyond a day, and the date is one that timegm leaves unaltered. It does not
say that the time is the one the certificate states, which violation 6 refutes.
`ExtensionsAreDistinct` needs that only `Extension` records an OID (`OnceEach`).

**Model-checked only.** Liveness and everything under fairness, which is outside
the prover's reach: `PassEnds`, `Returns` of `Der` and of `X509`, `ReturnsUnlessStuck`,
`TerminatedIsResolved` and `BacklogIsServed`; `AcceptsExactly` and `FieldsAsWritten`, which compare the
parser with the documents of `MCX509`, built by recursive operators; and the six
violations.

## 5. Not modelled

* `parse_null` (`x509.c:99`): only `crypto.c` calls it, on algorithm parameters; its
  outcome is the attribute `params` of a file in `CertCheck`.
* `gen_sig.c` and the test scripts: sequential input and output around one OpenSSL
  call, with no state that outlives a run.
* Messages, path names and logging; `assert(path_len > 1)` is a terminal state.
* Signature algorithms and OpenSSL's inner workings. Whether a key decodes and
  a signature verifies is an attribute.
* Failure of malloc and realloc, which the code does not check, and kernel
  limits other than those above.

## 6. Plan

Done: all the modules of section 2; a theorem for every invariant of the runs other
than `AcceptsExactly` and `FieldsAsWritten`, for both refinements and for the action
property; and, of the necessary half of `AcceptsExactly`, for files of any content, that
a certificate which parses has dates in range and no extension twice.

Left: the rest of that half (the version, the forms of the extensions that are
supported), which asks for a grammar of certificates stated without recursion; and its
converse, that what the grammar allows is accepted.
