---------------------------- MODULE Server_proofs ----------------------------
(***************************************************************************)
(* Proofs about the connection table, for any number of connections and    *)
(* slots, any batch size, any messages, any failing system calls and any   *)
(* scripts that leave processes behind.                                    *)
(***************************************************************************)
EXTENDS Server, FiniteSetTheorems, TLAPS

ConnType ==
    [fd : Conns \cup {0}, open_time : Nat, buf_size : Nat, buf_cap : Nat,
     holds : SUBSET Conns]

(***************************************************************************)
(* What the steps of the table need from the kernel: a connection waits at *)
(* most once in the accept queue, is not open there yet, and cannot be     *)
(* opened a second time by its client.                                     *)
(***************************************************************************)
Queued ==
    /\ \A a, b \in 1 .. Len(backlog) : backlog[a] = backlog[b] => a = b
    /\ \A a \in 1 .. Len(backlog) : backlog[a] \notin fds /\ peer[backlog[a]] # "idle"
    /\ \A c \in fds : peer[c] # "idle"

KernelOK ==
    /\ peer \in [Conns -> PeerStates]
    /\ sent \in [Conns -> Nat]
    /\ inq \in [Conns -> Nat]
    /\ backlog \in Seq(Conns)
    /\ fds \in SUBSET Conns
    /\ heirs \in SUBSET Conns
    /\ interest \in [Conns -> Slots \cup {NoData}]
    /\ Queued

(***************************************************************************)
(* A slot is empty when it is free, has a buffer when it is in use, and    *)
(* its buffer, once there is one, has room left.                           *)
(***************************************************************************)
Buffers ==
    \A s \in Slots :
        /\ conns[s].fd = 0 => conns[s].buf_size = 0 /\ conns[s].holds = {}
        /\ conns[s].buf_cap = 0 => conns[s].fd = 0
        /\ conns[s].buf_cap > 0 => conns[s].buf_size < conns[s].buf_cap
        /\ conns[s].holds \subseteq {conns[s].fd}

Counted == conns_total \in Nat /\ conns_total = Cardinality(Used)

Shape ==
    /\ conns \in [Slots -> ConnType]
    /\ KernelOK
    /\ TableOwnsFds
    /\ Buffers

(***************************************************************************)
(* The slot whose event is being handled stays in use until it is freed.   *)
(***************************************************************************)
Handling ==
    pc \in {"recv", "hup", "exec", "ran", "reject"} => event.data \in Used

Scalars ==
    /\ script_n \in Nat
    /\ ring \in SUBSET Certs
    /\ clk \in Nat
    /\ orphans \in SUBSET Slots
    /\ pc \in {"wait", "next", "accept", "recv", "hup", "exec", "ran", "reject",
               "return", "down", "assert_min_conn", "assert_conn_fd", "assert_in_use"}

Inv ==
    /\ Shape
    /\ Scalars
    /\ conns_total \in Nat
    /\ ~Aborted => Counted
    /\ Handling

-----------------------------------------------------------------------------

LEMMA UsedFinite == IsFiniteSet(Used) /\ Cardinality(Used) \in Nat
  <1>1. IsFiniteSet(Slots)
    BY ServerAssumption, FS_Interval DEF Slots
  <1>2. Used \in SUBSET Slots
    BY DEF Used
  <1>3. IsFiniteSet(Used)
    BY <1>1, <1>2, FS_Subset
  <1> QED
    BY <1>3, FS_CardinalityType

LEMMA SameTable ==
    ASSUME Shape, conns' = conns, heirs' \in SUBSET Conns,
           UNCHANGED <<peer, sent, inq, backlog, fds, interest>>
    PROVE  /\ Shape' /\ Used' = Used
           /\ conns_total' = conns_total => (Counted => Counted')
  <1>1. Used' = Used
    BY DEF Used
  <1>2. KernelOK'
    BY DEF Shape, KernelOK, Queued
  <1>3. TableOwnsFds' /\ Buffers'
    BY <1>1 DEF Shape, TableOwnsFds, Buffers
  <1> QED
    BY <1>1, <1>2, <1>3 DEF Shape, Counted

LEMMA ShapeUnchanged ==
    ASSUME Shape, UNCHANGED <<kvars, table>> PROVE Shape' /\ (Counted => Counted')
  <1>1. /\ conns' = conns /\ conns_total' = conns_total /\ heirs' = heirs
        /\ UNCHANGED <<peer, sent, inq, backlog, fds, interest>>
    BY DEF kvars, table
  <1>2. heirs' \in SUBSET Conns
    BY <1>1 DEF Shape, KernelOK
  <1> QED
    BY <1>1, <1>2, SameTable

(***************************************************************************)
(* A pass over the keys yields a smaller key ring and one of the three     *)
(* verdicts.                                                               *)
(***************************************************************************)
LEMMA PassTypes ==
    ASSUME NEW live \in SUBSET Certs, NEW buf, NEW now, NEW r \in PassResults(live, buf, now)
    PROVE  r.ring \in SUBSET Certs /\ r.verdict \in {"hit", "miss", "expired"}
  BY DEF PassResults

(***************************************************************************)
(* What happens to connections that leave the kernel.                      *)
(***************************************************************************)
LEMMA VanishFacts ==
    ASSUME KernelOK, NEW cs \in SUBSET Conns, Vanish(cs)
    PROVE  /\ peer' \in [Conns -> PeerStates]
           /\ sent' \in [Conns -> Nat]
           /\ inq' \in [Conns -> Nat]
           /\ interest' \in [Conns -> Slots \cup {NoData}]
           /\ \A c \in Conns : peer[c] # "idle" => peer'[c] # "idle"
           /\ \A c \in Conns \ cs : interest'[c] = interest[c]
  <1>1. peer' \in [Conns -> PeerStates]
    BY DEF KernelOK, Vanish, PeerStates
  <1>2. sent' \in [Conns -> Nat] /\ inq' \in [Conns -> Nat]
    BY DEF KernelOK, Vanish
  <1>3. interest' \in [Conns -> Slots \cup {NoData}]
    BY DEF KernelOK, Vanish
  <1>4. \A c \in Conns : peer[c] # "idle" => peer'[c] # "idle"
    BY DEF Vanish
  <1>5. \A c \in Conns \ cs : interest'[c] = interest[c]
    BY DEF Vanish
  <1> QED
    BY <1>1, <1>2, <1>3, <1>4, <1>5

(***************************************************************************)
(* free_conn keeps the table right when it is given a slot in use.         *)
(***************************************************************************)
LEMMA FreeConn ==
    ASSUME Shape, Counted, NEW s \in Used, free_conn(s)
    PROVE  Shape' /\ Counted'
  <1> DEFINE c == conns[s].fd
  <1>1. /\ s \in Slots /\ c \in Conns /\ c \in fds
        /\ conns \in [Slots -> ConnType]
    BY KernelAssumption DEF Shape, Used, TableOwnsFds, ConnType, Conns
  <1>2. /\ conns' = [conns EXCEPT ![s] = Cleared(conns[s])]
        /\ conns_total' = conns_total - 1
        /\ fds' = fds \ {c}
        /\ Vanish({c} \ heirs)
        /\ backlog' = backlog /\ heirs' = heirs
    BY DEF free_conn, close, Leave
  <1>3. /\ Cleared(conns[s]) \in ConnType
        /\ Cleared(conns[s]).fd = 0
        /\ Cleared(conns[s]).buf_size = 0
        /\ Cleared(conns[s]).holds = {}
        /\ Cleared(conns[s]).buf_cap = conns[s].buf_cap
    BY <1>1 DEF Cleared, ConnType
  <1>4. /\ conns' \in [Slots -> ConnType]
        /\ conns'[s] = Cleared(conns[s])
        /\ \A t \in Slots \ {s} : conns'[t] = conns[t]
    BY <1>1, <1>2, <1>3
  <1>5. Used' = Used \ {s}
    BY <1>1, <1>3, <1>4 DEF Used
  <1>6. /\ peer' \in [Conns -> PeerStates]
        /\ sent' \in [Conns -> Nat]
        /\ inq' \in [Conns -> Nat]
        /\ interest' \in [Conns -> Slots \cup {NoData}]
        /\ \A d \in Conns : peer[d] # "idle" => peer'[d] # "idle"
        /\ \A d \in Conns \ ({c} \ heirs) : interest'[d] = interest[d]
    BY <1>1, <1>2, VanishFacts DEF Shape
  <1>7. KernelOK'
    <2>1. Queued'
      <3>1. \A a \in 1 .. Len(backlog) : backlog[a] \in Conns
        BY DEF Shape, KernelOK
      <3> QED
        BY <1>1, <1>2, <1>6, <3>1 DEF Shape, KernelOK, Queued
    <2> QED
      BY <1>2, <1>6, <2>1 DEF Shape, KernelOK
  <1>8. TableOwnsFds'
    <2>1. \A t \in Used \ {s} : conns'[t].fd = conns[t].fd /\ conns[t].fd # c
      BY <1>1, <1>4 DEF Shape, TableOwnsFds, Used
    <2>2. fds' = {conns'[t].fd : t \in Used'}
      BY <1>1, <1>2, <1>5, <2>1 DEF Shape, TableOwnsFds
    <2>3. \A t, u \in Used' : conns'[t].fd = conns'[u].fd => t = u
      BY <1>5, <2>1 DEF Shape, TableOwnsFds
    <2>4. \A t \in Used' : interest'[conns'[t].fd] = t
      <3> TAKE t \in Used'
      <3>1. conns[t].fd \in Conns
        BY <1>1, <1>5 DEF Used, ConnType
      <3> QED
        BY <1>5, <1>6, <2>1, <3>1 DEF Shape, TableOwnsFds
    <2> QED
      BY <2>2, <2>3, <2>4 DEF TableOwnsFds
  <1>9. Buffers'
    <2> SUFFICES ASSUME NEW t \in Slots
                 PROVE  /\ conns'[t].fd = 0 => conns'[t].buf_size = 0 /\ conns'[t].holds = {}
                        /\ conns'[t].buf_cap = 0 => conns'[t].fd = 0
                        /\ conns'[t].buf_cap > 0 => conns'[t].buf_size < conns'[t].buf_cap
                        /\ conns'[t].holds \subseteq {conns'[t].fd}
      BY DEF Buffers
    <2>1. CASE t = s
      BY <1>1, <1>3, <1>4, <2>1 DEF ConnType
    <2>2. CASE t # s
      BY <1>4, <2>2 DEF Shape, Buffers
    <2> QED
      BY <2>1, <2>2
  <1>10. Counted'
    <2>1. Cardinality(Used \ {s}) = Cardinality(Used) - 1
      BY UsedFinite, FS_RemoveElement
    <2>2. conns_total' = Cardinality(Used')
      BY <1>2, <1>5, <2>1 DEF Counted
    <2>3. Cardinality(Used \ {s}) \in Nat
      BY UsedFinite, FS_RemoveElement, FS_CardinalityType
    <2> QED
      BY <1>5, <2>2, <2>3 DEF Counted
  <1> QED
    BY <1>4, <1>7, <1>8, <1>9, <1>10 DEF Shape

(***************************************************************************)
(* The accept queue after its first connection has been taken.             *)
(***************************************************************************)
LEMMA Dequeue ==
    ASSUME KernelOK, backlog # <<>>, backlog' = Tail(backlog)
    PROVE  /\ backlog' \in Seq(Conns)
           /\ \A a, b \in 1 .. Len(backlog') : backlog'[a] = backlog'[b] => a = b
           /\ \A a \in 1 .. Len(backlog') : backlog'[a] # Head(backlog)
           /\ \A a \in 1 .. Len(backlog') :
                 backlog'[a] \notin fds /\ peer[backlog'[a]] # "idle"
  <1> DEFINE N == Len(backlog)
  <1>1. backlog \in Seq(Conns) /\ N \in Nat
    BY DEF KernelOK
  <1>2. \A a, b \in 1 .. N : backlog[a] = backlog[b] => a = b
    BY DEF KernelOK, Queued
  <1>3. /\ backlog' \in Seq(Conns)
        /\ Len(backlog') = N - 1
        /\ \A a \in 1 .. Len(backlog') : backlog'[a] = backlog[a + 1] /\ a + 1 \in 1 .. N
    BY <1>1
  <1>4. Head(backlog) = backlog[1] /\ 1 \in 1 .. N
    BY <1>1
  <1>5. \A a, b \in 1 .. Len(backlog') : backlog'[a] = backlog'[b] => a = b
    <2> TAKE a, b \in 1 .. Len(backlog')
    <2> HAVE backlog'[a] = backlog'[b]
    <2>1. a + 1 \in 1 .. N /\ b + 1 \in 1 .. N /\ backlog[a + 1] = backlog[b + 1]
      BY <1>3
    <2>2. a + 1 = b + 1
      BY <1>2, <2>1
    <2> QED
      BY <1>1, <1>3, <2>2
  <1>6. \A a \in 1 .. Len(backlog') : backlog'[a] # Head(backlog)
    <2> TAKE a \in 1 .. Len(backlog')
    <2>1. a + 1 \in 1 .. N /\ a + 1 # 1 /\ backlog'[a] = backlog[a + 1]
      BY <1>1, <1>3
    <2> QED
      BY <1>2, <1>4, <2>1
  <1>7. \A a \in 1 .. Len(backlog') : backlog'[a] \notin fds /\ peer[backlog'[a]] # "idle"
    BY <1>3 DEF KernelOK, Queued
  <1> QED
    BY <1>3, <1>5, <1>6, <1>7

(***************************************************************************)
(* Accepting a connection keeps the table right: the slot was free and     *)
(* empty, and the connection was in no other.                              *)
(***************************************************************************)
LEMMA AdmitConn ==
    ASSUME Shape, Counted, clk \in Nat, Admit
    PROVE  Shape' /\ Counted' /\ clk' \in Nat
  <1> DEFINE c == Head(backlog)
  <1>1. PICK s \in FirstFree :
            /\ epoll_add(c, s)
            /\ clk' \in {clk + d : d \in ClockSteps}
            /\ conns' = [conns EXCEPT ![s] = Opened(conns[s], c, clk')]
    BY DEF Admit
  <1>2. /\ backlog # <<>> /\ backlog' = Tail(backlog)
        /\ fds' = fds \cup {c}
        /\ conns_total' = conns_total + 1
        /\ peer' = peer /\ sent' = sent /\ inq' = inq /\ heirs' = heirs
    BY DEF Admit, tcp
  <1>3. clk' \in Nat
    BY <1>1, ServerAssumption
  <1>4. /\ conns \in [Slots -> ConnType] /\ s \in Slots /\ s \notin Used
        /\ backlog \in Seq(Conns)
    BY <1>1 DEF Shape, KernelOK, FirstFree
  <1>5. c \in Conns /\ c = backlog[1] /\ 1 \in 1 .. Len(backlog)
    BY <1>2, <1>4
  <1>6. conns[s].fd = 0 /\ conns[s].buf_size = 0 /\ conns[s].holds = {}
    BY <1>4 DEF Shape, Buffers, Used, ConnType, Conns
  <1>7. /\ Opened(conns[s], c, clk') \in ConnType
        /\ Opened(conns[s], c, clk').fd = c
        /\ Opened(conns[s], c, clk').buf_size = 0
        /\ Opened(conns[s], c, clk').holds = {}
        /\ Opened(conns[s], c, clk').buf_cap > 0
    <2> DEFINE cap == IF conns[s].buf_cap = 0 THEN InitCap ELSE conns[s].buf_cap
    <2>1. conns[s] \in ConnType
      BY <1>4
    <2>2. conns[s].buf_cap \in Nat
      BY <2>1 DEF ConnType
    <2>3. cap \in Nat /\ cap > 0
      BY <2>2, ServerAssumption
    <2>4. Opened(conns[s], c, clk') =
              [conns[s] EXCEPT !.fd = c, !.open_time = clk', !.buf_cap = cap]
      BY DEF Opened
    <2> HIDE DEF cap, c
    <2> QED
      BY <1>3, <1>5, <1>6, <2>1, <2>3, <2>4 DEF ConnType
  <1>8. /\ conns' \in [Slots -> ConnType]
        /\ conns'[s] = Opened(conns[s], c, clk')
        /\ \A t \in Slots \ {s} : conns'[t] = conns[t]
    BY <1>1, <1>4, <1>7
  <1>9. c > 0 /\ Used' = Used \cup {s}
    BY <1>4, <1>5, <1>7, <1>8 DEF Used, Conns
  <1>10. /\ interest' = [interest EXCEPT ![c] = s]
         /\ interest' \in [Conns -> Slots \cup {NoData}]
    BY <1>1, <1>4, <1>5 DEF epoll_add, Shape, KernelOK
  <1>11. KernelOK'
    <2>1. /\ backlog' \in Seq(Conns)
          /\ \A a, b \in 1 .. Len(backlog') : backlog'[a] = backlog'[b] => a = b
          /\ \A a \in 1 .. Len(backlog') : backlog'[a] # c
          /\ \A a \in 1 .. Len(backlog') : backlog'[a] \notin fds /\ peer[backlog'[a]] # "idle"
      BY <1>2, Dequeue DEF Shape
    <2>4. \A a \in 1 .. Len(backlog') : backlog'[a] \notin fds' /\ peer'[backlog'[a]] # "idle"
      BY <1>2, <2>1
    <2>5. \A d \in fds' : peer'[d] # "idle"
      BY <1>2, <1>5 DEF Shape, KernelOK, Queued
    <2>6. Queued'
      BY <2>1, <2>4, <2>5 DEF Queued
    <2> QED
      BY <1>2, <1>5, <1>10, <2>1, <2>6 DEF Shape, KernelOK
  <1>12. TableOwnsFds'
    <2>1. c \notin fds
      BY <1>5 DEF Shape, KernelOK, Queued
    <2>2. \A t \in Used : conns'[t].fd = conns[t].fd /\ conns[t].fd \in fds /\ conns[t].fd # c
      BY <1>4, <1>8, <2>1 DEF Shape, TableOwnsFds, Used
    <2>3. fds' = {conns'[t].fd : t \in Used'}
      BY <1>2, <1>7, <1>8, <1>9, <2>2 DEF Shape, TableOwnsFds
    <2>4. \A t, u \in Used' : conns'[t].fd = conns'[u].fd => t = u
      BY <1>7, <1>8, <1>9, <2>2 DEF Shape, TableOwnsFds
    <2>5. \A t \in Used' : interest'[conns'[t].fd] = t
      <3> TAKE t \in Used'
      <3>1. CASE t = s
        BY <1>5, <1>7, <1>8, <1>10, <3>1 DEF Shape, KernelOK
      <3>2. CASE t # s
        BY <1>5, <1>9, <1>10, <2>2, <3>2 DEF Shape, KernelOK, TableOwnsFds
      <3> QED
        BY <3>1, <3>2
    <2> QED
      BY <2>3, <2>4, <2>5 DEF TableOwnsFds
  <1>13. Buffers'
    <2> SUFFICES ASSUME NEW t \in Slots
                 PROVE  /\ conns'[t].fd = 0 => conns'[t].buf_size = 0 /\ conns'[t].holds = {}
                        /\ conns'[t].buf_cap = 0 => conns'[t].fd = 0
                        /\ conns'[t].buf_cap > 0 => conns'[t].buf_size < conns'[t].buf_cap
                        /\ conns'[t].holds \subseteq {conns'[t].fd}
      BY DEF Buffers
    <2>1. CASE t = s
      BY <1>7, <1>8, <2>1
    <2>2. CASE t # s
      BY <1>8, <2>2 DEF Shape, Buffers
    <2> QED
      BY <2>1, <2>2
  <1>14. Counted'
    <2>1. Cardinality(Used \cup {s}) = Cardinality(Used) + 1
      BY <1>4, UsedFinite, FS_AddElement
    <2> QED
      BY <1>2, <1>9, <2>1, UsedFinite DEF Counted
  <1> QED
    BY <1>3, <1>8, <1>11, <1>12, <1>13, <1>14 DEF Shape

(***************************************************************************)
(* Reading into a buffer keeps the table right: the buffer never takes     *)
(* more than it has room for, and is doubled as soon as it is full.        *)
(***************************************************************************)
LEMMA StoreData ==
    ASSUME Shape, NEW s \in Used, Store(s)
    PROVE  Shape' /\ Used' = Used
  <1> DEFINE c == conns[s].fd
             n == Smaller(inq[c], Room(s))
  <1>1. /\ s \in Slots /\ c \in Conns /\ conns \in [Slots -> ConnType]
        /\ conns[s] \in ConnType
    BY KernelAssumption DEF Shape, Used, ConnType, Conns
  <1>2. /\ n > 0
        /\ inq' = [inq EXCEPT ![c] = inq[c] - n]
        /\ conns' = [conns EXCEPT ![s] = Grown(conns[s], n, c)]
        /\ peer' = peer /\ sent' = sent /\ backlog' = backlog
        /\ fds' = fds /\ heirs' = heirs /\ interest' = interest
    BY DEF Store, epoll
  <1>3. /\ conns[s].buf_size \in Nat /\ conns[s].buf_cap \in Nat
        /\ conns[s].buf_cap > 0 /\ conns[s].buf_size < conns[s].buf_cap
        /\ inq[c] \in Nat
    <2>1. conns[s].buf_size \in Nat /\ conns[s].buf_cap \in Nat
      BY <1>1 DEF ConnType
    <2>2. c # 0
      BY <1>1 DEF Conns
    <2>3. conns[s].buf_cap # 0 /\ (conns[s].buf_cap > 0 => conns[s].buf_size < conns[s].buf_cap)
      BY <1>1, <2>2 DEF Shape, Buffers
    <2>4. inq[c] \in Nat
      BY <1>1 DEF Shape, KernelOK
    <2> QED
      BY <2>1, <2>3, <2>4
  <1>4. n \in Nat /\ n <= inq[c] /\ conns[s].buf_size + n <= conns[s].buf_cap
    BY <1>2, <1>3 DEF Smaller, Room
  <1> HIDE DEF n
  <1>5. /\ Grown(conns[s], n, c) \in ConnType
        /\ Grown(conns[s], n, c).fd = c
        /\ Grown(conns[s], n, c).holds = conns[s].holds \cup {c}
        /\ Grown(conns[s], n, c).buf_size < Grown(conns[s], n, c).buf_cap
        /\ Grown(conns[s], n, c).buf_cap > 0
    <2> DEFINE size == conns[s].buf_size + n
               cap  == IF size >= conns[s].buf_cap THEN 2 * conns[s].buf_cap
                                                   ELSE conns[s].buf_cap
    <2>1. size \in Nat /\ cap \in Nat /\ cap > 0 /\ size < cap
      BY <1>3, <1>4
    <2>2. Grown(conns[s], n, c) =
              [conns[s] EXCEPT !.buf_size = size, !.holds = conns[s].holds \cup {c},
                               !.buf_cap = cap]
      BY DEF Grown, Extended
    <2> HIDE DEF size, cap
    <2>3. conns[s].holds \cup {c} \in SUBSET Conns
      BY <1>1 DEF ConnType
    <2> QED
      BY <1>1, <2>1, <2>2, <2>3 DEF ConnType
  <1>6. /\ conns' \in [Slots -> ConnType]
        /\ conns'[s] = Grown(conns[s], n, c)
        /\ \A t \in Slots \ {s} : conns'[t] = conns[t]
    BY <1>1, <1>2, <1>5
  <1>7. \A t \in Slots : conns'[t].fd = conns[t].fd
    BY <1>5, <1>6
  <1>8. Used' = Used
    BY <1>7 DEF Used
  <1>9. KernelOK'
    <2>1. inq' \in [Conns -> Nat]
      BY <1>1, <1>2, <1>3, <1>4 DEF Shape, KernelOK
    <2> QED
      BY <1>2, <2>1 DEF Shape, KernelOK, Queued
  <1>10. TableOwnsFds'
    BY <1>2, <1>7, <1>8 DEF Shape, TableOwnsFds, Used
  <1>11. Buffers'
    <2> SUFFICES ASSUME NEW t \in Slots
                 PROVE  /\ conns'[t].fd = 0 => conns'[t].buf_size = 0 /\ conns'[t].holds = {}
                        /\ conns'[t].buf_cap = 0 => conns'[t].fd = 0
                        /\ conns'[t].buf_cap > 0 => conns'[t].buf_size < conns'[t].buf_cap
                        /\ conns'[t].holds \subseteq {conns'[t].fd}
      BY DEF Buffers
    <2>1. CASE t = s
      <3>1. conns[s].holds \subseteq {c} /\ c # 0
        BY <1>1 DEF Shape, Buffers, Conns
      <3> QED
        BY <1>5, <1>6, <2>1, <3>1
    <2>2. CASE t # s
      BY <1>6, <2>2 DEF Shape, Buffers
    <2> QED
      BY <2>1, <2>2
  <1> QED
    BY <1>6, <1>8, <1>9, <1>10, <1>11 DEF Shape

(***************************************************************************)
(* The steps of clients and background processes leave the table alone.    *)
(***************************************************************************)
LEMMA ClientShape ==
    ASSUME Shape, Client, UNCHANGED table
    PROVE  Shape' /\ Used' = Used
  <1>1. conns' = conns /\ Used' = Used
    BY DEF table, Used
  <1>2. KernelOK
    BY DEF Shape
  <1>3. /\ KernelOK' /\ fds' = fds
        /\ \A c \in fds : interest'[c] = interest[c]
    <2>1. ASSUME NEW c \in Conns, Connect(c)
          PROVE  KernelOK' /\ fds' = fds /\ interest' = interest
      <3>1. /\ peer[c] = "idle"
            /\ peer' = [peer EXCEPT ![c] = "open"]
            /\ backlog' = Append(backlog, c)
            /\ UNCHANGED <<sent, inq, fds, heirs, interest>>
        BY <2>1 DEF Connect
      <3>2. /\ backlog' \in Seq(Conns)
            /\ Len(backlog') = Len(backlog) + 1
            /\ \A a \in 1 .. Len(backlog) : backlog'[a] = backlog[a] /\ backlog[a] \in Conns
            /\ backlog'[Len(backlog) + 1] = c
            /\ Len(backlog) \in Nat
        BY <1>2, <3>1 DEF KernelOK
      <3>3. /\ peer' \in [Conns -> PeerStates]
            /\ \A d \in Conns : peer[d] # "idle" => peer'[d] # "idle"
            /\ peer'[c] # "idle"
        BY <1>2, <3>1 DEF KernelOK, PeerStates
      <3>4. c \notin fds /\ \A a \in 1 .. Len(backlog) : backlog[a] # c
        BY <1>2, <3>1 DEF KernelOK, Queued
      <3>5. Queued'
        <4>1. \A a, b \in 1 .. Len(backlog') : backlog'[a] = backlog'[b] => a = b
          <5> DEFINE N == Len(backlog)
          <5>1. \A a, b \in 1 .. N : backlog[a] = backlog[b] => a = b
            BY <1>2 DEF KernelOK, Queued
          <5> TAKE a, b \in 1 .. Len(backlog')
          <5> HAVE backlog'[a] = backlog'[b]
          <5>2. a \in 1 .. N \/ a = N + 1
            BY <3>2
          <5>3. b \in 1 .. N \/ b = N + 1
            BY <3>2
          <5>4. CASE a \in 1 .. N /\ b \in 1 .. N
            BY <3>2, <5>1, <5>4
          <5>5. CASE a = N + 1 /\ b = N + 1
            BY <5>5
          <5>6. CASE a \in 1 .. N /\ b = N + 1
            BY <3>2, <3>4, <5>6
          <5>7. CASE a = N + 1 /\ b \in 1 .. N
            BY <3>2, <3>4, <5>7
          <5> QED
            BY <5>2, <5>3, <5>4, <5>5, <5>6, <5>7
        <4>2. \A a \in 1 .. Len(backlog') : backlog'[a] \notin fds' /\ peer'[backlog'[a]] # "idle"
          BY <1>2, <3>1, <3>2, <3>3, <3>4 DEF KernelOK, Queued
        <4>3. \A d \in fds' : peer'[d] # "idle"
          BY <1>2, <3>1, <3>3 DEF KernelOK, Queued
        <4> QED
          BY <4>1, <4>2, <4>3 DEF Queued
      <3> QED
        BY <1>2, <3>1, <3>2, <3>3, <3>5 DEF KernelOK
    <2>2. ASSUME NEW c \in Conns, NEW m \in 1 .. MsgSize[c], Send(c, m)
          PROVE  KernelOK' /\ fds' = fds /\ interest' = interest
      <3>1. /\ sent' = [sent EXCEPT ![c] = sent[c] + m]
            /\ inq' = [inq EXCEPT ![c] = inq[c] + m]
            /\ UNCHANGED <<peer, backlog, fds, heirs, interest>>
        BY <2>2 DEF Send
      <3>2. sent' \in [Conns -> Nat] /\ inq' \in [Conns -> Nat]
        BY <1>2, <3>1 DEF KernelOK
      <3> QED
        BY <1>2, <3>1, <3>2 DEF KernelOK, Queued
    <2>3. ASSUME NEW c \in Conns, NEW st \in PeerStates \ {"idle"},
                 peer' = [peer EXCEPT ![c] = st],
                 UNCHANGED <<sent, inq, backlog, fds, heirs, interest>>
          PROVE  KernelOK' /\ fds' = fds /\ interest' = interest
      <3>1. /\ peer' \in [Conns -> PeerStates]
            /\ \A d \in Conns : peer[d] # "idle" => peer'[d] # "idle"
        BY <1>2, <2>3 DEF KernelOK
      <3>2. \A a \in 1 .. Len(backlog) : backlog[a] \in Conns
        BY <1>2 DEF KernelOK
      <3> QED
        BY <1>2, <2>3, <3>1, <3>2 DEF KernelOK, Queued
    <2>4. ASSUME NEW c \in Conns, Terminate(c) \/ Reset(c) \/ ResetDone(c)
          PROVE  KernelOK' /\ fds' = fds /\ interest' = interest
      <3>1. CASE Terminate(c)
        BY <2>3, <3>1 DEF Terminate, PeerStates
      <3>2. CASE Reset(c)
        BY <2>3, <3>2 DEF Reset, PeerStates
      <3>3. CASE ResetDone(c)
        BY <2>3, <3>3 DEF ResetDone, PeerStates
      <3> QED
        BY <2>4, <3>1, <3>2, <3>3
    <2>5. ASSUME BackgroundExits
          PROVE  KernelOK' /\ fds' = fds /\ \A c \in fds : interest'[c] = interest[c]
      <3>1. heirs' = {} /\ Vanish(heirs \ fds) /\ backlog' = backlog /\ fds' = fds
        BY <2>5 DEF BackgroundExits
      <3>2. heirs \ fds \in SUBSET Conns /\ fds \in SUBSET Conns
        BY <1>2 DEF KernelOK
      <3>3. /\ peer' \in [Conns -> PeerStates]
            /\ sent' \in [Conns -> Nat]
            /\ inq' \in [Conns -> Nat]
            /\ interest' \in [Conns -> Slots \cup {NoData}]
            /\ \A c \in Conns : peer[c] # "idle" => peer'[c] # "idle"
            /\ \A c \in Conns \ (heirs \ fds) : interest'[c] = interest[c]
        BY <1>2, <3>1, <3>2, VanishFacts
      <3>4. \A a \in 1 .. Len(backlog) : backlog[a] \in Conns
        BY <1>2 DEF KernelOK
      <3>5. Queued'
        BY <1>2, <3>1, <3>2, <3>3, <3>4 DEF KernelOK, Queued
      <3> QED
        BY <1>2, <3>1, <3>2, <3>3, <3>5 DEF KernelOK
    <2> QED
      BY <2>1, <2>2, <2>4, <2>5 DEF Client
  <1>4. TableOwnsFds'
    BY <1>1, <1>3 DEF Shape, TableOwnsFds
  <1>5. Buffers'
    BY <1>1 DEF Shape, Buffers
  <1> QED
    BY <1>1, <1>3, <1>4, <1>5 DEF Shape

(***************************************************************************)
(* free_all empties the table and closes all that was in it.               *)
(***************************************************************************)
LEMMA FreeAllShape ==
    ASSUME Shape, FreeAll
    PROVE  Shape' /\ Counted'
  <1> DEFINE closed == {conns[s].fd : s \in Used}
  <1>1. /\ fds' = fds \ closed
        /\ Vanish(closed \ heirs)
        /\ conns' = [s \in Slots |-> NoConnection]
        /\ conns_total' = 0
        /\ backlog' = backlog /\ heirs' = heirs
    BY DEF FreeAll
  <1>2. closed = fds /\ fds \in SUBSET Conns /\ closed \ heirs \in SUBSET Conns
    BY DEF Shape, TableOwnsFds, KernelOK
  <1>3. fds' = {}
    BY <1>1, <1>2
  <1>4. /\ NoConnection \in ConnType /\ NoConnection.fd = 0
        /\ NoConnection.buf_size = 0 /\ NoConnection.buf_cap = 0
        /\ NoConnection.holds = {}
    BY DEF NoConnection, ConnType
  <1>5. /\ conns' \in [Slots -> ConnType]
        /\ \A s \in Slots : conns'[s] = NoConnection
    BY <1>1, <1>4
  <1>6. Used' = {}
    BY <1>4, <1>5 DEF Used
  <1>7. /\ peer' \in [Conns -> PeerStates]
        /\ sent' \in [Conns -> Nat]
        /\ inq' \in [Conns -> Nat]
        /\ interest' \in [Conns -> Slots \cup {NoData}]
        /\ \A c \in Conns : peer[c] # "idle" => peer'[c] # "idle"
    BY <1>1, <1>2, VanishFacts DEF Shape
  <1>8. KernelOK'
    <2>1. \A a \in 1 .. Len(backlog) : backlog[a] \in Conns
      BY DEF Shape, KernelOK
    <2>2. Queued'
      BY <1>1, <1>3, <1>7, <2>1 DEF Shape, KernelOK, Queued
    <2> QED
      BY <1>1, <1>3, <1>7, <2>2 DEF Shape, KernelOK
  <1>9. TableOwnsFds'
    BY <1>3, <1>6 DEF TableOwnsFds
  <1>10. Buffers'
    BY <1>4, <1>5 DEF Buffers
  <1>11. Counted'
    BY <1>1, <1>6, FS_EmptySet DEF Counted
  <1> QED
    BY <1>5, <1>8, <1>9, <1>10, <1>11 DEF Shape

(***************************************************************************)
(* A call that ends in the assertion after accept leaves the table alone.  *)
(***************************************************************************)
LEMMA AcceptAbortsShape ==
    ASSUME Shape, AcceptAborts
    PROVE  Shape'
  <1>1. /\ backlog # <<>> /\ backlog' = Tail(backlog) /\ conns' = conns
        /\ peer' = peer /\ sent' = sent /\ inq' = inq
        /\ fds' = fds /\ heirs' = heirs /\ interest' = interest
    BY DEF AcceptAborts, tcp, epoll
  <1>2. /\ backlog' \in Seq(Conns)
        /\ \A a, b \in 1 .. Len(backlog') : backlog'[a] = backlog'[b] => a = b
        /\ \A a \in 1 .. Len(backlog') : backlog'[a] \notin fds /\ peer[backlog'[a]] # "idle"
    BY <1>1, Dequeue DEF Shape
  <1>3. KernelOK'
    BY <1>1, <1>2 DEF Shape, KernelOK, Queued
  <1>4. TableOwnsFds' /\ Buffers'
    BY <1>1 DEF Shape, TableOwnsFds, Buffers, Used
  <1> QED
    BY <1>1, <1>3, <1>4 DEF Shape

(***************************************************************************)
(* The server starts with an empty table.                                  *)
(***************************************************************************)
LEMMA InitInv == Init => Inv
  <1> SUFFICES ASSUME Init PROVE Inv
    OBVIOUS
  <1>1. /\ NoConnection \in ConnType /\ NoConnection.fd = 0
        /\ NoConnection.buf_size = 0 /\ NoConnection.buf_cap = 0
        /\ NoConnection.holds = {}
    BY DEF NoConnection, ConnType
  <1>2. /\ conns \in [Slots -> ConnType]
        /\ \A s \in Slots : conns[s] = NoConnection
    BY <1>1 DEF Init
  <1>3. Used = {}
    BY <1>1, <1>2 DEF Used
  <1>4. KernelOK
    BY DEF Init, KernelInit, KernelOK, Queued, PeerStates
  <1>5. TableOwnsFds
    BY <1>3 DEF Init, KernelInit, TableOwnsFds
  <1>6. Buffers
    BY <1>1, <1>2 DEF Buffers
  <1>7. Counted
    BY <1>3, FS_EmptySet DEF Counted, Init
  <1>8. Scalars /\ Handling
    BY DEF Init, Scalars, Handling
  <1> QED
    BY <1>2, <1>4, <1>5, <1>6, <1>7, <1>8 DEF Inv, Shape, Counted

(***************************************************************************)
(* Every step keeps the invariant.                                         *)
(***************************************************************************)
LEMMA NextInv == Inv /\ [Next]_vars => Inv'
  <1> SUFFICES ASSUME Inv, [Next]_vars PROVE Inv'
    OBVIOUS
  <1>1. Shape /\ Scalars /\ Handling /\ conns_total \in Nat /\ (~Aborted => Counted)
    BY DEF Inv
  <1>2. ASSUME pc' = IF Len(events) = 1 THEN "wait" ELSE "next"
        PROVE  /\ pc' \in {"wait", "next"}
               /\ Handling'
               /\ ~Aborted'
    BY <1>2 DEF Handling, Aborted
  <1>3. ASSUME NEW s \in Used, free_conn(s), EndEvent, ~Aborted,
               UNCHANGED <<script_n, orphans, ring, clk>>
        PROVE  Inv'
    <2>1. Shape' /\ Counted'
      BY <1>1, <1>3, FreeConn
    <2>2. pc' \in {"wait", "next"} /\ Handling'
      BY <1>2, <1>3 DEF EndEvent
    <2>3. Scalars'
      BY <1>1, <1>3, <2>2 DEF Scalars
    <2> QED
      BY <2>1, <2>2, <2>3 DEF Inv, Counted
  <1>4. ASSUME UNCHANGED <<kvars, table>>, Scalars', Handling', Aborted => Aborted'
        PROVE  Inv'
    <2>1. Shape' /\ (Counted => Counted') /\ conns_total' = conns_total
      BY <1>1, <1>4, ShapeUnchanged DEF table
    <2> QED
      BY <1>1, <1>4, <2>1 DEF Inv
  <1>5. CASE EpollWait
    <2>1. /\ conns' = conns /\ conns_total' = conns_total /\ pc = "wait" /\ pc' = "next"
          /\ UNCHANGED <<peer, sent, inq, backlog, fds, heirs, interest>>
          /\ UNCHANGED <<script_n, ring, clk>>
          /\ orphans' = {interest[c] : c \in heirs \ fds} \ {NoData}
      BY <1>5 DEF EpollWait, epoll_wait, Deliver, tcp, table
    <2>2. heirs' \in SUBSET Conns /\ orphans' \in SUBSET Slots
      BY <1>1, <2>1 DEF Shape, KernelOK
    <2>3. Shape' /\ (Counted => Counted')
      BY <1>1, <2>1, <2>2, SameTable
    <2> QED
      BY <1>1, <2>1, <2>2, <2>3 DEF Inv, Scalars, Handling, Aborted
  <1>6. CASE EpollSleep
    <2>1. /\ conns' = conns /\ conns_total' = conns_total /\ pc' = pc /\ pc = "wait"
          /\ UNCHANGED <<peer, sent, inq, backlog, fds, heirs, interest>>
          /\ UNCHANGED <<script_n, orphans, ring, clk>>
      BY <1>6 DEF EpollSleep, epoll_sleep, tcp, svars
    <2>2. heirs' \in SUBSET Conns
      BY <1>1, <2>1 DEF Shape, KernelOK
    <2>3. Shape' /\ (Counted => Counted')
      BY <1>1, <2>1, <2>2, SameTable
    <2> QED
      BY <1>1, <2>1, <2>3 DEF Inv, Scalars, Handling, Aborted
  <1>7. CASE EpollWaitFails
    BY <1>1, <1>4, <1>7 DEF EpollWaitFails, Scalars, Handling, Aborted
  <1>8. CASE EvictOldest
    <2>1. pc = "next" /\ ~Aborted /\ UNCHANGED <<script_n, orphans, ring, clk, events>>
      BY <1>8 DEF EvictOldest, Aborted
    <2>2. CASE Oldest = {}
      <3>1. pc' = "assert_min_conn" /\ UNCHANGED <<kvars, table>>
        BY <1>8, <2>2 DEF EvictOldest
      <3> QED
        BY <1>1, <1>4, <2>1, <3>1 DEF Scalars, Handling, Aborted
    <2>3. CASE Oldest # {}
      <3>1. pc' = "accept" /\ \E s \in Oldest : free_conn(s)
        BY <1>8, <2>3 DEF EvictOldest
      <3>2. PICK s \in Used : free_conn(s)
        BY <3>1 DEF Oldest
      <3>3. Shape' /\ Counted'
        BY <1>1, <2>1, <3>2, FreeConn
      <3> QED
        BY <1>1, <2>1, <3>1, <3>3 DEF Inv, Counted, Scalars, Handling
    <2> QED
      BY <2>2, <2>3
  <1>9. CASE AcceptFails
    BY <1>1, <1>2, <1>4, <1>9 DEF AcceptFails, AtAccept, EndEvent, Scalars, Aborted
  <1>10. CASE Accept
    <2>1. Admit /\ EndEvent /\ ~Aborted /\ UNCHANGED <<script_n, orphans, ring>>
      BY <1>10 DEF Accept, Admit, AtAccept, Aborted
    <2>2. Shape' /\ Counted' /\ clk' \in Nat
      BY <1>1, <2>1, AdmitConn DEF Scalars
    <2>3. pc' \in {"wait", "next"} /\ Handling'
      BY <1>2, <2>1 DEF EndEvent
    <2>4. Scalars'
      BY <1>1, <2>1, <2>2, <2>3 DEF Scalars
    <2> QED
      BY <2>2, <2>3, <2>4 DEF Inv, Counted
  <1>11. CASE AcceptAborts
    <2>1. Shape'
      BY <1>1, <1>11, AcceptAbortsShape
    <2>2. /\ pc' = "assert_conn_fd" /\ conns_total' = conns_total + 1
          /\ UNCHANGED <<script_n, orphans, ring, clk>>
      BY <1>11 DEF AcceptAborts
    <2> QED
      BY <1>1, <2>1, <2>2 DEF Inv, Scalars, Handling, Aborted
  <1>12. CASE ConnEvent
    <2>1. UNCHANGED <<kvars, table>> /\ UNCHANGED <<script_n, orphans, ring, clk, events>> /\ pc = "next"
      BY <1>12 DEF ConnEvent
    <2>2. Used' = Used /\ event' = event
      BY <2>1 DEF table, Used, event
    <2>3. /\ pc' \in {"return", "assert_in_use", "recv", "hup"}
          /\ pc' \in {"recv", "hup"} => event.data \in Used
      BY <1>12 DEF ConnEvent
    <2> QED
      BY <1>1, <1>4, <2>1, <2>2, <2>3 DEF Scalars, Handling, Aborted
  <1>13. CASE Recv
    <2>1. PICK s \in Slots :
              /\ s = event.data
              /\ RecvData(s) \/ RecvTooMuch(s) \/ RecvNothing(s) \/ RecvError(s)
      BY <1>13 DEF Recv
    <2>2. pc = "recv" /\ UNCHANGED <<script_n, orphans, ring, clk>> /\ ~Aborted
      BY <1>13 DEF Recv, Aborted
    <2>3. s \in Used
      BY <1>1, <2>1, <2>2 DEF Handling
    <2>4. CASE RecvData(s)
      <3>1. Store(s) /\ pc' = pc /\ conns_total' = conns_total /\ events' = events
        BY <2>4 DEF RecvData, Store
      <3>2. Shape' /\ Used' = Used
        BY <1>1, <2>3, <3>1, StoreData
      <3> QED
        BY <1>1, <2>2, <3>1, <3>2 DEF Inv, Scalars, Handling, Aborted, Counted, event
    <2>5. CASE RecvTooMuch(s)
      BY <1>3, <2>2, <2>3, <2>5 DEF RecvTooMuch
    <2>6. CASE RecvNothing(s)
      <3>1. pc' = "hup" /\ UNCHANGED <<kvars, table>> /\ events' = events
        BY <2>6 DEF RecvNothing
      <3>2. Used' = Used /\ event' = event
        BY <3>1 DEF table, Used, event
      <3> QED
        BY <1>1, <1>4, <2>1, <2>2, <2>3, <3>1, <3>2 DEF Scalars, Handling, Aborted
    <2>7. CASE RecvError(s)
      BY <1>3, <2>2, <2>3, <2>7 DEF RecvError
    <2> QED
      BY <2>1, <2>4, <2>5, <2>6, <2>7
  <1>14. CASE Authenticate
    <2>1. /\ UNCHANGED <<kvars, table>> /\ UNCHANGED <<clk, events, orphans>>
          /\ pc = "hup" /\ event.data \in Used
      BY <1>1, <1>14 DEF Authenticate, Handling
    <2> DEFINE Result(r) ==
                /\ ring' = r.ring
                /\ script_n' = IF r.verdict = "hit" THEN script_n + 1 ELSE script_n
                /\ pc' = CASE r.verdict = "hit"     -> "exec"
                           [] r.verdict = "miss"    -> "reject"
                           [] r.verdict = "expired" -> "return"
    <2>a. PICK s \in Slots, now \in Times :
              \E r \in PassResults(ring, Received(s), now) : Result(r)
      BY <1>14 DEF Authenticate
    <2>2. PICK r \in PassResults(ring, Received(s), now) : Result(r)
      BY <2>a
    <2>3. r.ring \in SUBSET Certs /\ r.verdict \in {"hit", "miss", "expired"}
      BY <1>1, PassTypes DEF Scalars
    <2>4. pc' \in {"exec", "reject", "return"} /\ script_n' \in Nat
      BY <1>1, <2>2, <2>3 DEF Scalars
    <2>5. Used' = Used /\ event' = event
      BY <2>1 DEF table, Used, event
    <2>6. Scalars'
      BY <1>1, <2>1, <2>2, <2>3, <2>4 DEF Scalars
    <2> QED
      BY <1>1, <1>4, <2>1, <2>4, <2>5, <2>6 DEF Handling, Aborted
  <1>15. CASE ExecScript
    <2>1. PICK s \in Slots :
              heirs' = IF conns[s].fd \in Forking THEN heirs \cup fds ELSE heirs
      BY <1>15 DEF ExecScript
    <2>2. /\ conns' = conns /\ conns_total' = conns_total /\ pc = "exec" /\ pc' = "ran"
          /\ UNCHANGED <<peer, sent, inq, backlog, fds, interest>>
          /\ UNCHANGED <<script_n, orphans, ring, clk, events>>
      BY <1>15 DEF ExecScript, tcp, epoll, table
    <2>3. heirs' \in SUBSET Conns
      BY <1>1, <2>1 DEF Shape, KernelOK
    <2>4. Shape' /\ Used' = Used
      BY <1>1, <2>2, <2>3, SameTable
    <2> QED
      BY <1>1, <2>2, <2>4 DEF Inv, Scalars, Handling, Aborted, Counted, event
  <1>16. CASE ExecFails
    <2>1. UNCHANGED <<kvars, table>> /\ UNCHANGED <<script_n, orphans, ring, clk, events>>
          /\ pc = "exec" /\ pc' = "ran"
      BY <1>16 DEF ExecFails
    <2>2. Used' = Used /\ event' = event
      BY <2>1 DEF table, Used, event
    <2> QED
      BY <1>1, <1>4, <2>1, <2>2 DEF Scalars, Handling, Aborted
  <1>17. CASE CloseVerified
    BY <1>1, <1>3, <1>17 DEF CloseVerified, Handling, Aborted
  <1>18. CASE CloseOnError
    BY <1>1, <1>3, <1>18 DEF CloseOnError, Handling, Aborted
  <1>19. CASE KeepOpen
    BY <1>1, <1>2, <1>4, <1>19 DEF KeepOpen, EndEvent, Scalars, Aborted
  <1>20. CASE FreeAll
    <2>1. Shape' /\ Counted'
      BY <1>1, <1>20, FreeAllShape
    <2>2. pc' = "down" /\ script_n' = 0 /\ UNCHANGED <<orphans, ring, clk>>
      BY <1>20 DEF FreeAll
    <2> QED
      BY <1>1, <2>1, <2>2 DEF Inv, Scalars, Handling, Counted
  <1>21. CASE ClientStep
    <2>1. Client /\ UNCHANGED table /\ UNCHANGED svars
      BY <1>21 DEF ClientStep, svars, table
    <2>2. Shape' /\ Used' = Used
      BY <1>1, <2>1, ClientShape
    <2>3. /\ pc' = pc /\ conns_total' = conns_total /\ event' = event
          /\ UNCHANGED <<script_n, orphans, ring, clk>>
      BY <2>1 DEF svars, event
    <2> QED
      BY <1>1, <2>2, <2>3 DEF Inv, Scalars, Handling, Aborted, Counted
  <1>22. CASE UNCHANGED vars
    <2>1. /\ UNCHANGED <<kvars, table>> /\ UNCHANGED svars /\ conns' = conns
      BY <1>22 DEF vars, svars, table
    <2>2. Used' = Used /\ event' = event /\ pc' = pc /\ UNCHANGED <<script_n, orphans, ring, clk>>
      BY <2>1 DEF svars, Used, event
    <2> QED
      BY <1>1, <1>4, <2>1, <2>2 DEF Scalars, Handling, Aborted
  <1> QED
    BY <1>5, <1>6, <1>7, <1>8, <1>9, <1>10, <1>11, <1>12, <1>13, <1>14, <1>15, <1>16,
       <1>17, <1>18, <1>19, <1>20, <1>21, <1>22 DEF Next, ServerStep

LEMMA Invariance == Spec => []Inv
  BY InitInv, NextInv, PTL DEF Spec

-----------------------------------------------------------------------------

(***************************************************************************)
(* The server's state keeps its types, whatever clients and scripts do.    *)
(***************************************************************************)
THEOREM TypeCorrect == Spec => []TypeOK
  <1>1. Inv => TypeOK
    BY DEF Inv, Shape, Scalars, KernelOK, TypeOK, ConnType
  <1> QED
    BY <1>1, Invariance, PTL

(***************************************************************************)
(* conns_total, which accept and free_conn maintain incrementally, is the  *)
(* number of slots in use, as long as no assertion has failed.             *)
(***************************************************************************)
THEOREM CountIsExact == Spec => []ConnsTotalExact
  <1>1. Inv => ConnsTotalExact
    BY DEF Inv, Counted, ConnsTotalExact
  <1> QED
    BY <1>1, Invariance, PTL

(***************************************************************************)
(* The connection table and the server's open descriptors agree, and each  *)
(* registration with epoll names the slot that holds its connection.       *)
(***************************************************************************)
THEOREM TableIsExact == Spec => []TableOwnsFds
  <1>1. Inv => TableOwnsFds
    BY DEF Inv, Shape
  <1> QED
    BY <1>1, Invariance, PTL

(***************************************************************************)
(* free_conn leaves no bytes behind for the next user of a buffer.         *)
(***************************************************************************)
THEOREM BuffersNeverMix == Spec => []OwnBytes
  <1>1. Inv => OwnBytes
    BY DEF Inv, Shape, Buffers, OwnBytes
  <1> QED
    BY <1>1, Invariance, PTL

(***************************************************************************)
(* A slot in use has room for at least one more byte.                      *)
(***************************************************************************)
LEMMA RoomLeft ==
    ASSUME Inv, NEW s \in Used
    PROVE  Room(s) > 0
  <1>1. /\ s \in Slots /\ conns[s] \in ConnType /\ conns[s].fd # 0
    BY DEF Inv, Shape, Used, ConnType, Conns
  <1>2. conns[s].buf_cap \in Nat /\ conns[s].buf_size \in Nat
    BY <1>1 DEF ConnType
  <1>3. conns[s].buf_cap # 0 /\ (conns[s].buf_cap > 0 => conns[s].buf_size < conns[s].buf_cap)
    BY <1>1 DEF Inv, Shape, Buffers
  <1> QED
    BY <1>2, <1>3 DEF Room

(***************************************************************************)
(* Doubling the buffer as soon as it is full always leaves recv room.      *)
(***************************************************************************)
THEOREM RecvHasRoom == Spec => []BufRoom
  <1>1. Inv => BufRoom
    BY RoomLeft DEF BufRoom
  <1> QED
    BY <1>1, Invariance, PTL

=============================================================================
