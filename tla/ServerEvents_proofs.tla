------------------------- MODULE ServerEvents_proofs -------------------------
(***************************************************************************)
(* Proofs about the events of a batch: what the server may rely on between *)
(* the epoll_wait that took an event and the step that handles it, while   *)
(* earlier events of the batch close connections, clients go on sending,   *)
(* terminating and resetting, and new connections arrive.                  *)
(***************************************************************************)
EXTENDS Server_proofs, SequenceTheorems, WellFoundedInduction

Items == Conns \cup {Listener}

Distinct(s) == \A a, b \in 1 .. Len(s) : s[a] = s[b] => a = b

EventType ==
    [data : Slots \cup {MAX_INT32}, events : SUBSET {"IN", "RDHUP", "HUP", "ERR"},
     conn : Items]

HangUp(e) == e.events \cap {"RDHUP", "HUP"} # {}

(***************************************************************************)
(* Epoll lists each item at most once, and only registered ones, which are *)
(* connections the server or a process it left behind has open.            *)
(***************************************************************************)
ReadyOK ==
    /\ ready \in Seq(Items)
    /\ Distinct(ready)
    /\ \A a \in 1 .. Len(ready) : Registered(ready[a])
    /\ \A c \in Conns : interest[c] # NoData => c \in fds \cup heirs

(***************************************************************************)
(* Nothing has been read from a connection that has not been accepted, and *)
(* an open connection has not left the kernel.                             *)
(***************************************************************************)
Waiting ==
    /\ \A c \in Conns : peer[c] = "idle" => sent[c] = inq[c]
    /\ \A c \in heirs : peer[c] # "idle"
    /\ \A c \in fds : peer[c] # "gone"
    /\ \A a \in 1 .. Len(backlog) :
          /\ backlog[a] \notin heirs
          /\ peer[backlog[a]] # "gone"
          /\ sent[backlog[a]] = inq[backlog[a]]

(***************************************************************************)
(* Each event of the batch is for another item; one that reports a hang-up *)
(* also asks to read, and its peer has terminated by then.                 *)
(***************************************************************************)
BatchOK ==
    /\ events \in Seq(EventType)
    /\ \A a, b \in 1 .. Len(events) : events[a].conn = events[b].conn => a = b
    /\ \A a \in 1 .. Len(events) : events[a].data = MAX_INT32 <=> events[a].conn = Listener
    /\ \A a \in 1 .. Len(events) : HangUp(events[a]) =>
          /\ "IN" \in events[a].events
          /\ events[a].conn \in Conns
          /\ peer[events[a].conn] \in {"fin", "reset", "gone"}

(***************************************************************************)
(* The event being handled.                                                *)
(***************************************************************************)
Current ==
    /\ pc \in {"next", "accept", "recv", "hup", "exec", "ran", "reject"} => events # <<>>
    /\ pc = "accept" => event.data = MAX_INT32

(***************************************************************************)
(* Only the server shortens the accept queue, once for its one event.      *)
(***************************************************************************)
Listening ==
    pc # "assert_conn_fd" =>
        \A a \in 1 .. Len(events) : events[a].conn = Listener => backlog # <<>>

(***************************************************************************)
(* What a client has sent is in the buffer or still queued, and once recv  *)
(* has found nothing more on a connection that had hung up, that is all.   *)
(***************************************************************************)
Streams ==
    \A s \in Used : conns[s].buf_size + inq[conns[s].fd] = sent[conns[s].fd]

Drained ==
    /\ pc \in {"exec", "reject"} => HungUp
    /\ /\ pc \in {"hup", "exec", "reject"}
       /\ HungUp
       /\ event.conn = conns[event.data].fd
       => peer[event.conn] = "fin" /\ inq[event.conn] = 0

EInv == ReadyOK /\ Waiting /\ BatchOK /\ Current /\ Listening /\ Streams /\ Drained

(***************************************************************************)
(* Apart from the orphaned slots, the events of a batch are for different  *)
(* slots, and these stay in use until their turn; while a slot has been    *)
(* freed for a new connection, all the others are in use.                  *)
(***************************************************************************)
Alive ==
    /\ \A a, b \in 1 .. Len(events) :
          events[a].data = events[b].data => a = b \/ events[a].data \in orphans
    /\ pc \notin {"accept", "down", "assert_conn_fd"} =>
          \A a \in 1 .. Len(events) : events[a].data \in Used \cup orphans \cup {MAX_INT32}
    /\ pc = "accept" => \E s \in Slots : Used = Slots \ {s}
    /\ pc # "assert_min_conn"
    /\ pc = "assert_in_use" => event.data \in orphans
    /\ pc = "assert_conn_fd" => FirstFree # {}

-----------------------------------------------------------------------------

(***************************************************************************)
(* Every set of natural numbers with an element has a least one.           *)
(***************************************************************************)
LEMMA LeastNat ==
    ASSUME NEW T \in SUBSET Nat, T # {}
    PROVE  \E m \in T : \A n \in T : m <= n
  <1> DEFINE Below(n) == 0 .. n - 1
             Belows == {Below(n) : n \in T}
             R == StrictSubsetOrdering(Nat)
  <1>1. \A n \in T : n \in Nat /\ IsFiniteSet(Below(n)) /\ Below(n) \in SUBSET Nat
    BY FS_Interval
  <1>2. Belows \subseteq FiniteSubsetsOf(Nat) /\ Belows # {}
    BY <1>1 DEF FiniteSubsetsOf
  <1>3. IsWellFoundedOn(R, FiniteSubsetsOf(Nat))
    BY FS_StrictSubsetOrderingWellFounded
  <1>4. \E x \in Belows : \A y \in Belows : ~ (<<y, x>> \in R)
    <2> HIDE DEF Belows, R
    <2> QED
      BY <1>2, <1>3, WFMin
  <1>5. PICK m \in T : \A y \in Belows : ~ (<<y, Below(m)>> \in R)
    BY <1>4
  <1>6. ASSUME NEW n \in T, n < m PROVE FALSE
    <2>1. Below(n) \subseteq Below(m) /\ Below(n) # Below(m)
      <3>1. n \in Below(m) /\ n \notin Below(n)
        BY <1>6
      <3>2. Below(n) \subseteq Below(m)
        BY <1>6
      <3> QED
        BY <3>1, <3>2
    <2>2. Below(n) \in Belows /\ Below(n) \in SUBSET Nat /\ Below(m) \in SUBSET Nat
      BY <1>1, <1>6
    <2>3. <<Below(n), Below(m)>> \in R
      <3> HIDE DEF Below
      <3> QED
        BY <2>1, <2>2 DEF StrictSubsetOrdering
    <2> QED
      BY <1>5, <2>2, <2>3
  <1> QED
    BY <1>6

(***************************************************************************)
(* A finite set of positions has a k-th one for every k up to its size.    *)
(***************************************************************************)
LEMMA NthExists ==
    ASSUME NEW n \in Nat, NEW P \in SUBSET (1 .. n),
           NEW k \in Nat, 1 <= k, k <= Cardinality(P)
    PROVE  /\ Nth(P, k) \in P
           /\ Cardinality({q \in P : q <= Nth(P, k)}) = k
  <1> DEFINE Upto(m) == {q \in P : q <= m}
             T == {m \in Nat : Cardinality(Upto(m)) >= k}
  <1>0. \A q \in P : q \in Nat /\ 1 <= q /\ q <= n
    OBVIOUS
  <1>1. IsFiniteSet(P) /\ Cardinality(P) \in Nat
    <2>1. IsFiniteSet(1 .. n)
      BY FS_Interval
    <2>2. IsFiniteSet(P)
      BY <2>1, FS_Subset
    <2> QED
      BY <2>2, FS_CardinalityType
  <1>2. \A m \in Nat : Upto(m) \in SUBSET P /\ IsFiniteSet(Upto(m)) /\ Cardinality(Upto(m)) \in Nat
    BY <1>1, FS_Subset, FS_CardinalityType
  <1>3. Upto(n) = P
    BY <1>0
  <1>4. n \in T
    BY <1>1, <1>3
  <1>5. PICK m \in T : \A j \in T : m <= j
    <2> HIDE DEF T
    <2>1. T \in SUBSET Nat
      BY DEF T
    <2> QED
      BY <1>4, <2>1, LeastNat
  <1>6. Upto(0) = {}
    <2>1. \A q \in P : ~(q <= 0)
      BY <1>0
    <2> QED
      BY <2>1
  <1>7. m \in Nat /\ m # 0 /\ Cardinality(Upto(m)) >= k
    BY <1>1, <1>5, <1>6, FS_EmptySet
  <1>8. m - 1 \in Nat /\ Cardinality(Upto(m - 1)) < k
    <2>1. m - 1 \in Nat /\ m - 1 \notin T
      <3> HIDE DEF T
      <3> QED
        BY <1>5, <1>7
    <2>2. Cardinality(Upto(m - 1)) \in Nat
      BY <1>2, <2>1
    <2>3. ~(Cardinality(Upto(m - 1)) >= k)
      BY <2>1
    <2> QED
      BY <2>1, <2>2, <2>3
  <1>9. m \in P
    <2> SUFFICES ASSUME m \notin P PROVE FALSE
      OBVIOUS
    <2>1. \A q \in P : q <= m <=> q <= m - 1
      BY <1>0, <1>7
    <2>2. Upto(m) = Upto(m - 1)
      BY <2>1
    <2> QED
      BY <1>2, <1>7, <1>8, <2>2
  <1>10. Upto(m) = Upto(m - 1) \cup {m} /\ m \notin Upto(m - 1)
    <2>1. \A q \in P : q <= m <=> q <= m - 1 \/ q = m
      BY <1>0, <1>7
    <2>2. ~(m <= m - 1) /\ m <= m
      BY <1>7
    <2> QED
      BY <1>9, <2>1, <2>2
  <1>11. Cardinality(Upto(m)) = Cardinality(Upto(m - 1)) + 1
    <2> HIDE DEF Upto
    <2> QED
      BY <1>2, <1>8, <1>10, FS_AddElement
  <1>12. Cardinality(Upto(m)) = k
    <2> HIDE DEF Upto
    <2>1. Cardinality(Upto(m - 1)) \in Nat
      BY <1>2, <1>8
    <2> QED
      BY <1>7, <1>8, <1>11, <2>1
  <1> QED
    BY <1>9, <1>12 DEF Nth

LEMMA PickFacts ==
    ASSUME NEW S, NEW s \in Seq(S), NEW P \in SUBSET (1 .. Len(s))
    PROVE  /\ Cardinality(P) \in Nat
           /\ Pick(s, P) \in Seq(S)
           /\ Len(Pick(s, P)) = Cardinality(P)
           /\ \A k \in 1 .. Cardinality(P) : Nth(P, k) \in P /\ Pick(s, P)[k] = s[Nth(P, k)]
           /\ \A j, k \in 1 .. Cardinality(P) : Nth(P, j) = Nth(P, k) => j = k
           /\ Distinct(s) => Distinct(Pick(s, P))
  <1> DEFINE n == Cardinality(P)
  <1>1. Len(s) \in Nat /\ IsFiniteSet(P)
    <2>1. Len(s) \in Nat
      OBVIOUS
    <2>2. IsFiniteSet(1 .. Len(s))
      BY <2>1, FS_Interval
    <2> QED
      BY <2>1, <2>2, FS_Subset
  <1>2. n \in Nat
    BY <1>1, FS_CardinalityType
  <1>3. \A k \in 1 .. n : Nth(P, k) \in P /\ Cardinality({q \in P : q <= Nth(P, k)}) = k
    <2> TAKE k \in 1 .. n
    <2>1. k \in Nat /\ 1 <= k /\ k <= Cardinality(P)
      BY <1>2
    <2> QED
      BY <1>1, <2>1, NthExists
  <1>4. \A j, k \in 1 .. n : Nth(P, j) = Nth(P, k) => j = k
    <2> TAKE j, k \in 1 .. n
    <2> HAVE Nth(P, j) = Nth(P, k)
    <2> QED
      BY <1>3
  <1>5. \A k \in 1 .. n : s[Nth(P, k)] \in S
    <2> TAKE k \in 1 .. n
    <2>1. Nth(P, k) \in 1 .. Len(s)
      BY <1>3
    <2> QED
      BY <2>1
  <1>6. Pick(s, P) = [k \in 1 .. n |-> s[Nth(P, k)]]
    BY DEF Pick
  <1> HIDE DEF n
  <1>7. /\ Pick(s, P) \in Seq(S)
        /\ Len(Pick(s, P)) = n
        /\ \A k \in 1 .. n : Pick(s, P)[k] = s[Nth(P, k)]
    BY <1>2, <1>5, <1>6
  <1>8. ASSUME Distinct(s) PROVE Distinct(Pick(s, P))
    <2> SUFFICES ASSUME NEW j \in 1 .. n, NEW k \in 1 .. n, Pick(s, P)[j] = Pick(s, P)[k]
                 PROVE  j = k
      BY <1>7 DEF Distinct
    <2>1. Nth(P, j) \in 1 .. Len(s) /\ Nth(P, k) \in 1 .. Len(s)
      BY <1>3
    <2>2. s[Nth(P, j)] = s[Nth(P, k)]
      BY <1>7
    <2>3. Nth(P, j) = Nth(P, k)
      BY <1>8, <2>1, <2>2 DEF Distinct
    <2> QED
      BY <1>4, <2>3
  <1> QED
    BY <1>2, <1>3, <1>4, <1>7, <1>8 DEF n

-----------------------------------------------------------------------------

(***************************************************************************)
(* An item that wakes up is listed once.                                   *)
(***************************************************************************)
LEMMA WakeReady ==
    ASSUME ReadyOK, NEW x \in Items, Wake(x), UNCHANGED <<interest, fds, heirs>>
    PROVE  ReadyOK'
  <1>1. CASE Registered(x) /\ ~Contains(ready, x)
    <2>1. ready' = Append(ready, x) /\ ready \in Seq(Items)
      BY <1>1 DEF Wake, ReadyOK
    <2>2. /\ ready' \in Seq(Items) /\ Len(ready') = Len(ready) + 1
          /\ \A a \in 1 .. Len(ready) : ready'[a] = ready[a] /\ ready[a] # x
          /\ ready'[Len(ready) + 1] = x
      BY <1>1, <2>1 DEF Contains
    <2>3. Distinct(ready')
      BY <2>1, <2>2 DEF ReadyOK, Distinct
    <2>4. \A a \in 1 .. Len(ready') : ready'[a] = Listener \/ interest'[ready'[a]] # NoData
      BY <1>1, <2>1, <2>2 DEF ReadyOK, Registered
    <2> QED
      BY <2>2, <2>3, <2>4 DEF ReadyOK, Registered
  <1>2. CASE ~(Registered(x) /\ ~Contains(ready, x))
    <2>1. ready' = ready
      BY <1>2 DEF Wake
    <2> QED
      BY <2>1 DEF ReadyOK, Registered, Distinct
  <1> QED
    BY <1>1, <1>2

(***************************************************************************)
(* Connections that leave the kernel take their places in the lists along, *)
(* and leave those of the others alone.                                    *)
(***************************************************************************)
LEMMA VanishKeeps ==
    ASSUME Shape, ReadyOK, Waiting, NEW cs \in SUBSET (fds \cup heirs), Vanish(cs),
           fds' \cup heirs' = (fds \cup heirs) \ cs, fds' \subseteq fds,
           heirs' \subseteq heirs, backlog' = backlog
    PROVE  /\ ReadyOK' /\ Waiting'
           /\ \A c \in cs : peer'[c] = "gone"
           /\ \A c \in Conns \ cs : peer'[c] = peer[c] /\ sent'[c] = sent[c] /\ inq'[c] = inq[c]
  <1> DEFINE P == {p \in 1 .. Len(ready) : ready[p] \notin cs}
  <1>1. /\ fds \in SUBSET Conns /\ heirs \in SUBSET Conns /\ backlog \in Seq(Conns)
        /\ cs \in SUBSET Conns /\ Queued
        /\ ready \in Seq(Items)
    BY DEF Shape, KernelOK, ReadyOK
  <1>2. /\ \A c \in cs : peer'[c] = "gone" /\ interest'[c] = NoData
        /\ \A c \in Conns \ cs : /\ peer'[c] = peer[c] /\ sent'[c] = sent[c]
                                  /\ inq'[c] = inq[c] /\ interest'[c] = interest[c]
        /\ ready' = Pick(ready, P)
    BY <1>1 DEF Vanish
  <1>3. ReadyOK'
    <2>1. P \in SUBSET (1 .. Len(ready))
      OBVIOUS
    <2>2. /\ Cardinality(P) \in Nat
          /\ ready' \in Seq(Items)
          /\ Len(ready') = Cardinality(P)
          /\ \A k \in 1 .. Cardinality(P) : Nth(P, k) \in P /\ ready'[k] = ready[Nth(P, k)]
          /\ Distinct(ready')
      <3> HIDE DEF P
      <3> QED
        BY <1>1, <1>2, <2>1, PickFacts DEF ReadyOK
    <2>3. ASSUME NEW a \in 1 .. Len(ready')
          PROVE  ready'[a] = Listener \/ interest'[ready'[a]] # NoData
      <3>1. /\ Nth(P, a) \in 1 .. Len(ready) /\ ready'[a] = ready[Nth(P, a)]
            /\ ready[Nth(P, a)] \notin cs
        BY <2>2
      <3>2. ready'[a] \in Items /\ ready'[a] \notin cs /\ Registered(ready'[a])
        BY <1>1, <3>1 DEF ReadyOK
      <3> QED
        BY <1>2, <3>2 DEF Registered, Items
    <2>4. \A c \in Conns : interest'[c] # NoData => c \in fds' \cup heirs'
      BY <1>2 DEF ReadyOK
    <2> QED
      BY <2>2, <2>3, <2>4 DEF ReadyOK, Registered
  <1>4. Waiting'
    <2>1. \A c \in Conns : peer'[c] = "idle" => sent'[c] = inq'[c]
      BY <1>2 DEF Waiting
    <2>2. \A c \in heirs' : peer'[c] # "idle"
      BY <1>1, <1>2 DEF Waiting
    <2>3. \A c \in fds' : peer'[c] # "gone"
      BY <1>1, <1>2 DEF Waiting
    <2>4. ASSUME NEW a \in 1 .. Len(backlog)
          PROVE  /\ backlog[a] \notin heirs'
                 /\ peer'[backlog[a]] # "gone"
                 /\ sent'[backlog[a]] = inq'[backlog[a]]
      <3>1. backlog[a] \in Conns \ cs
        BY <1>1 DEF Waiting, Queued
      <3> QED
        BY <1>2, <3>1 DEF Waiting
    <2> QED
      BY <2>1, <2>2, <2>3, <2>4 DEF Waiting
  <1> QED
    BY <1>2, <1>3, <1>4
(***************************************************************************)
(* The events of a batch stay what they are while no terminated connection *)
(* comes back to life, and so does what is left of them after one has been *)
(* handled.                                                                *)
(***************************************************************************)
StaysTerminated ==
    \A c \in Conns : peer[c] \in {"fin", "reset", "gone"} => peer'[c] \in {"fin", "reset", "gone"}

LEMMA BatchKept ==
    ASSUME BatchOK, events' = events, StaysTerminated
    PROVE  BatchOK'
  BY DEF BatchOK, StaysTerminated, HangUp

LEMMA BatchTail ==
    ASSUME BatchOK, events # <<>>, EndEvent, StaysTerminated
    PROVE  /\ BatchOK' /\ Current'
           /\ pc' \in {"wait", "next"}
           /\ Len(events') \in Nat
           /\ \A a \in 1 .. Len(events') :
                 /\ a + 1 \in 1 .. Len(events) /\ a + 1 # 1
                 /\ events'[a] = events[a + 1]
  <1> DEFINE N == Len(events)
  <1>1. events \in Seq(EventType) /\ N \in Nat /\ N > 0
    BY DEF BatchOK
  <1>2. events' = Tail(events) /\ pc' = IF N = 1 THEN "wait" ELSE "next"
    BY DEF EndEvent
  <1>3. /\ events' \in Seq(EventType)
        /\ Len(events') = N - 1
        /\ \A a \in 1 .. Len(events') : a + 1 \in 1 .. N /\ a + 1 # 1 /\ events'[a] = events[a + 1]
    BY <1>1, <1>2
  <1>4. BatchOK'
    <2>1. ASSUME NEW a \in 1 .. Len(events'), NEW b \in 1 .. Len(events'),
                 events'[a].conn = events'[b].conn
          PROVE  a = b
      <3>1. a + 1 \in 1 .. N /\ b + 1 \in 1 .. N /\ events[a + 1].conn = events[b + 1].conn
        BY <1>3, <2>1
      <3>2. a + 1 = b + 1
        BY <3>1 DEF BatchOK
      <3> QED
        BY <1>1, <1>3, <3>2
    <2>2. ASSUME NEW a \in 1 .. Len(events')
          PROVE  /\ events'[a].data = MAX_INT32 <=> events'[a].conn = Listener
                 /\ HangUp(events'[a]) =>
                       /\ "IN" \in events'[a].events
                       /\ events'[a].conn \in Conns
                       /\ peer'[events'[a].conn] \in {"fin", "reset", "gone"}
      <3>1. a + 1 \in 1 .. N /\ events'[a] = events[a + 1]
        BY <1>3
      <3> QED
        BY <3>1 DEF BatchOK, StaysTerminated
    <2> QED
      BY <1>3, <2>1, <2>2 DEF BatchOK, HangUp
  <1>5. Current' /\ pc' \in {"wait", "next"}
    <2>1. CASE N = 1
      BY <1>2, <2>1 DEF Current
    <2>2. CASE N # 1
      <3>1. events' # <<>>
        BY <1>1, <1>3, <2>2
      <3> QED
        BY <1>2, <2>2, <3>1 DEF Current
    <2> QED
      BY <2>1, <2>2
  <1> QED
    BY <1>1, <1>3, <1>4, <1>5

(***************************************************************************)
(* Steps that touch neither the table nor the kernel.                      *)
(***************************************************************************)
LEMMA KernelKept ==
    ASSUME ReadyOK, Waiting, Streams, Shape, UNCHANGED kvars, conns' = conns
    PROVE  ReadyOK' /\ Waiting' /\ Streams' /\ StaysTerminated
  <1>1. UNCHANGED <<peer, sent, inq, backlog, fds, heirs, interest, ready>>
    BY DEF kvars
  <1>2. ReadyOK'
    BY <1>1 DEF ReadyOK, Registered, Distinct
  <1>3. Waiting'
    BY <1>1 DEF Waiting
  <1>4. Streams'
    BY <1>1 DEF Streams, Used
  <1> QED
    BY <1>1, <1>2, <1>3, <1>4 DEF StaysTerminated

LEMMA MovesOn ==
    ASSUME Inv, EInv, UNCHANGED kvars, conns' = conns, events' = events,
           Current', Drained', pc # "assert_conn_fd"
    PROVE  EInv'
  <1>1. ReadyOK' /\ Waiting' /\ Streams' /\ StaysTerminated /\ backlog' = backlog
    BY KernelKept DEF Inv, EInv, kvars
  <1>2. BatchOK'
    BY <1>1, BatchKept DEF EInv
  <1>3. Listening'
    BY <1>1 DEF EInv, Listening
  <1> QED
    BY <1>1, <1>2, <1>3 DEF EInv

LEMMA NextEvent ==
    ASSUME EInv, events # <<>>, EndEvent, ReadyOK', Waiting', Streams',
           StaysTerminated, pc # "assert_conn_fd",
           \/ backlog' = backlog
           \/ event.conn = Listener
    PROVE  EInv'
  <1>1. /\ BatchOK' /\ Current' /\ pc' \in {"wait", "next"}
        /\ Len(events') \in Nat
        /\ \A a \in 1 .. Len(events') :
                 /\ a + 1 \in 1 .. Len(events) /\ a + 1 # 1
                 /\ events'[a] = events[a + 1]
    BY BatchTail DEF EInv
  <1>2. Drained'
    BY <1>1 DEF Drained
  <1>3. Listening'
    <2> SUFFICES ASSUME NEW a \in 1 .. Len(events'), events'[a].conn = Listener
                 PROVE  backlog' # <<>>
      BY DEF Listening
    <2>1. a + 1 \in 1 .. Len(events) /\ a + 1 # 1 /\ events[a + 1].conn = Listener
      BY <1>1
    <2>2. 1 \in 1 .. Len(events) /\ event = events[1]
      BY DEF EInv, BatchOK, event
    <2>3. event.conn # Listener
      BY <2>1, <2>2 DEF EInv, BatchOK
    <2> QED
      BY <2>1, <2>3 DEF EInv, Listening
  <1> QED
    BY <1>1, <1>2, <1>3 DEF EInv

(***************************************************************************)
(* free_conn takes one connection out of all the lists it is in.           *)
(***************************************************************************)
LEMMA FreeKeeps ==
    ASSUME Shape, ReadyOK, Waiting, Streams, NEW s \in Used, free_conn(s)
    PROVE  /\ ReadyOK' /\ Waiting' /\ Streams' /\ StaysTerminated
           /\ backlog' = backlog /\ heirs' = heirs
           /\ Used' = Used \ {s}
  <1> DEFINE c == conns[s].fd
             cs == {c} \ heirs
  <1>1. /\ s \in Slots /\ c \in Conns /\ c \in fds /\ c # 0
        /\ conns \in [Slots -> ConnType]
    BY KernelAssumption DEF Shape, Used, TableOwnsFds, ConnType, Conns
  <1>2. /\ conns' = [conns EXCEPT ![s] = Cleared(conns[s])]
        /\ fds' = fds \ {c}
        /\ Vanish(cs)
        /\ backlog' = backlog /\ heirs' = heirs
    BY DEF free_conn, close, Leave
  <1>3. cs \in SUBSET (fds \cup heirs) /\ cs \in SUBSET Conns
    BY <1>1
  <1>4. fds' \cup heirs' = (fds \cup heirs) \ cs /\ fds' \subseteq fds /\ heirs' \subseteq heirs
    BY <1>2
  <1>5. /\ ReadyOK' /\ Waiting'
        /\ \A d \in cs : peer'[d] = "gone"
        /\ \A d \in Conns \ cs : peer'[d] = peer[d] /\ sent'[d] = sent[d] /\ inq'[d] = inq[d]
    <2> HIDE DEF cs, c
    <2> QED
      BY <1>2, <1>3, <1>4, VanishKeeps
  <1>6. StaysTerminated
    BY <1>5 DEF StaysTerminated
  <1>7. Cleared(conns[s]).fd = 0
    BY <1>1 DEF Cleared, ConnType
  <1>8. conns'[s].fd = 0 /\ \A t \in Slots \ {s} : conns'[t] = conns[t]
    BY <1>1, <1>2, <1>7
  <1>9. Used' = Used \ {s}
    BY <1>1, <1>8 DEF Used
  <1>10. Streams'
    <2> SUFFICES ASSUME NEW t \in Used'
                 PROVE  conns'[t].buf_size + inq'[conns'[t].fd] = sent'[conns'[t].fd]
      BY DEF Streams
    <2>1. t \in Used /\ t # s /\ conns'[t] = conns[t]
      BY <1>8, <1>9 DEF Used
    <2>2. conns[t].fd \in Conns \ cs
      <3>1. conns[t].fd \in fds /\ conns[t].fd # c
        BY <1>1, <2>1 DEF Shape, TableOwnsFds
      <3> QED
        BY <3>1 DEF Shape, KernelOK
    <2> QED
      BY <1>5, <2>1, <2>2 DEF Streams
  <1> QED
    BY <1>2, <1>5, <1>6, <1>9, <1>10

(***************************************************************************)
(* A connection that is accepted enters epoll for the first time, with all *)
(* that its client has sent still to be read.                              *)
(***************************************************************************)
LEMMA AdmitKeeps ==
    ASSUME Shape, ReadyOK, Waiting, Streams, Admit
    PROVE  /\ ReadyOK' /\ Waiting' /\ Streams' /\ StaysTerminated /\ heirs' = heirs
           /\ \E s \in FirstFree : Used' = Used \cup {s}
  <1> DEFINE c == Head(backlog)
  <1>1. PICK s \in FirstFree :
            /\ epoll_add(c, s)
            /\ conns' = [conns EXCEPT ![s] = Opened(conns[s], c, clk')]
    BY DEF Admit
  <1>2. /\ backlog # <<>> /\ backlog' = Tail(backlog)
        /\ fds' = fds \cup {c}
        /\ peer' = peer /\ sent' = sent /\ inq' = inq /\ heirs' = heirs
    BY DEF Admit, tcp
  <1>3. /\ conns \in [Slots -> ConnType] /\ s \in Slots /\ s \notin Used
        /\ backlog \in Seq(Conns) /\ interest \in [Conns -> Slots \cup {NoData}]
    BY <1>1 DEF Shape, KernelOK, FirstFree
  <1>4. c \in Conns /\ c = backlog[1] /\ 1 \in 1 .. Len(backlog) /\ c > 0
    <2>1. c \in Conns /\ c = backlog[1] /\ 1 \in 1 .. Len(backlog)
      BY <1>2, <1>3
    <2>2. \A d \in Conns : d > 0
      BY KernelAssumption DEF Conns
    <2> QED
      BY <2>1, <2>2
  <1>5. /\ c \notin fds /\ c \notin heirs /\ peer[c] # "gone" /\ peer[c] # "idle"
        /\ sent[c] = inq[c]
    BY <1>4 DEF Waiting, Shape, KernelOK, Queued
  <1>6. interest[c] = NoData /\ NoData \notin Slots
    BY <1>4, <1>5 DEF ReadyOK, NoData, Slots
  <1>7. \A a \in 1 .. Len(ready) : ready[a] # c
    BY <1>4, <1>6 DEF ReadyOK, Registered, Listener
  <1>8. /\ interest' = [interest EXCEPT ![c] = s]
        /\ ready' = IF Events(c) # {} THEN Append(ready, c) ELSE ready
    BY <1>1 DEF epoll_add
  <1>9. /\ interest'[c] = s
        /\ \A d \in Conns \ {c} : interest'[d] = interest[d]
    BY <1>3, <1>4, <1>8
  <1>10. ReadyOK'
    <2>1. \A d \in Conns : interest'[d] # NoData => d \in fds' \cup heirs'
      BY <1>2, <1>9 DEF ReadyOK
    <2>2. \A x \in Items : x = Listener \/ interest[x] # NoData => x = Listener \/ interest'[x] # NoData
      BY <1>6, <1>9 DEF Items
    <2>3. CASE ready' = ready
      BY <2>1, <2>2, <2>3 DEF ReadyOK, Registered, Distinct
    <2>4. CASE ready' = Append(ready, c)
      <3> HIDE DEF c
      <3>1. ready \in Seq(Items) /\ c \in Items
        BY <1>4 DEF ReadyOK, Items
      <3>2. /\ ready' \in Seq(Items) /\ Len(ready') = Len(ready) + 1
            /\ \A a \in 1 .. Len(ready) : ready'[a] = ready[a] /\ ready[a] \in Items
            /\ ready'[Len(ready) + 1] = c
            /\ Len(ready) \in Nat
        BY <2>4, <3>1
      <3>3. Distinct(ready')
        BY <1>7, <3>2 DEF ReadyOK, Distinct
      <3>4. \A a \in 1 .. Len(ready') : ready'[a] = Listener \/ interest'[ready'[a]] # NoData
        <4> TAKE a \in 1 .. Len(ready')
        <4>1. CASE a = Len(ready) + 1
          BY <1>3, <1>6, <1>9, <3>2, <4>1
        <4>2. CASE a # Len(ready) + 1
          <5>1. a \in 1 .. Len(ready)
            BY <3>2, <4>2
          <5> QED
            BY <2>2, <3>2, <5>1 DEF ReadyOK, Registered
        <4> QED
          BY <4>1, <4>2
      <3> QED
        BY <2>1, <3>2, <3>3, <3>4 DEF ReadyOK, Registered
    <2> QED
      BY <1>8, <2>3, <2>4
  <1>11. Waiting'
    <2>1. \A a \in 1 .. Len(backlog') : a + 1 \in 1 .. Len(backlog) /\ backlog'[a] = backlog[a + 1]
      BY <1>2, <1>3
    <2> QED
      BY <1>2, <1>5, <2>1 DEF Waiting
  <1>12. /\ Opened(conns[s], c, clk').fd = c
         /\ Opened(conns[s], c, clk').buf_size = conns[s].buf_size
         /\ conns[s].buf_size = 0
    <2>1. conns[s] \in ConnType /\ conns[s].fd = 0
      BY <1>3 DEF Used, ConnType, Conns
    <2> QED
      BY <1>3, <2>1 DEF Opened, ConnType, Shape, Buffers
  <1>13. /\ conns'[s].fd = c /\ conns'[s].buf_size = 0
         /\ \A t \in Slots \ {s} : conns'[t] = conns[t]
    BY <1>1, <1>3, <1>12
  <1>14. Used' = Used \cup {s}
    BY <1>3, <1>4, <1>13 DEF Used
  <1>15. Streams'
    <2> SUFFICES ASSUME NEW t \in Used'
                 PROVE  conns'[t].buf_size + inq'[conns'[t].fd] = sent'[conns'[t].fd]
      BY DEF Streams
    <2>1. CASE t = s
      <3>1. inq[c] \in Nat
        BY <1>4 DEF Shape, KernelOK
      <3> QED
        BY <1>2, <1>5, <1>13, <2>1, <3>1
    <2>2. CASE t # s
      BY <1>2, <1>13, <1>14, <2>2 DEF Streams, Used
    <2> QED
      BY <2>1, <2>2
  <1>16. StaysTerminated
    BY <1>2 DEF StaysTerminated
  <1> QED
    BY <1>1, <1>2, <1>10, <1>11, <1>14, <1>15, <1>16

(***************************************************************************)
(* recv moves bytes from the kernel's queue to the end of the buffer.      *)
(***************************************************************************)
LEMMA StoreKeeps ==
    ASSUME Shape, ReadyOK, Waiting, Streams, NEW s \in Used, Store(s)
    PROVE  ReadyOK' /\ Waiting' /\ Streams' /\ StaysTerminated /\ backlog' = backlog
  <1> DEFINE c == conns[s].fd
             n == Smaller(inq[c], Room(s))
  <1>1. /\ s \in Slots /\ c \in Conns /\ c \in fds
        /\ conns \in [Slots -> ConnType] /\ inq \in [Conns -> Nat]
    BY KernelAssumption DEF Shape, KernelOK, Used, TableOwnsFds, ConnType, Conns
  <1>2. /\ inq' = [inq EXCEPT ![c] = inq[c] - n]
        /\ conns' = [conns EXCEPT ![s] = Grown(conns[s], n, c)]
        /\ UNCHANGED <<peer, sent, backlog, fds, heirs, interest, ready>>
    BY DEF Store, epoll
  <1>3. n \in Int
    <2>1. inq[c] \in Nat /\ conns[s].buf_cap \in Nat /\ conns[s].buf_size \in Nat
      BY <1>1 DEF ConnType
    <2> QED
      BY <2>1 DEF Smaller, Room
  <1>4. Grown(conns[s], n, c).fd = c /\ Grown(conns[s], n, c).buf_size = conns[s].buf_size + n
    <2> HIDE DEF n
    <2>1. conns[s] \in ConnType
      BY <1>1
    <2> QED
      BY <2>1 DEF Grown, Extended, ConnType
  <1>5. /\ conns'[s].fd = c /\ conns'[s].buf_size = conns[s].buf_size + n
        /\ \A t \in Slots \ {s} : conns'[t] = conns[t]
        /\ inq'[c] = inq[c] - n
        /\ \A d \in Conns \ {c} : inq'[d] = inq[d]
    <2> HIDE DEF n
    <2> QED
      BY <1>1, <1>2, <1>4
  <1> HIDE DEF n
  <1>6. ReadyOK' /\ StaysTerminated
    BY <1>2 DEF ReadyOK, Registered, Distinct, StaysTerminated
  <1>7. Waiting'
    <2>1. \A a \in 1 .. Len(backlog) : backlog[a] \in Conns \ {c}
      BY <1>1 DEF Shape, KernelOK, Queued
    <2>2. peer[c] # "idle"
      BY <1>1 DEF Shape, KernelOK, Queued
    <2> QED
      BY <1>2, <1>5, <2>1, <2>2 DEF Waiting
  <1>8. Used' = Used
    BY <1>1, <1>5 DEF Used
  <1>9. Streams'
    <2> SUFFICES ASSUME NEW t \in Used
                 PROVE  conns'[t].buf_size + inq'[conns'[t].fd] = sent'[conns'[t].fd]
      BY <1>8 DEF Streams
    <2>1. CASE t = s
      <3>1. conns[s].buf_size \in Nat /\ inq[c] \in Nat
        BY <1>1 DEF ConnType
      <3>2. conns[s].buf_size + inq[c] = sent[c]
        BY DEF Streams
      <3> HIDE DEF c
      <3> QED
        BY <1>2, <1>3, <1>5, <2>1, <3>1, <3>2
    <2>2. CASE t # s
      <3>1. conns[t].fd \in Conns \ {c} /\ conns'[t] = conns[t]
        BY <1>1, <1>5, <2>2 DEF Shape, KernelOK, TableOwnsFds, Used
      <3> QED
        BY <1>2, <1>5, <3>1 DEF Streams
    <2> QED
      BY <2>1, <2>2
  <1> QED
    BY <1>2, <1>6, <1>7, <1>9

(***************************************************************************)
(* What the events of an item tell about it.                               *)
(***************************************************************************)
LEMMA EventsFacts ==
    ASSUME NEW x \in Items
    PROVE  /\ Events(x) \in SUBSET {"IN", "RDHUP", "HUP", "ERR"}
           /\ x = Listener /\ Events(x) # {} => backlog # <<>>
           /\ Events(x) \cap {"RDHUP", "HUP"} # {} =>
                 /\ x # Listener
                 /\ "IN" \in Events(x)
                 /\ peer[x] \in {"fin", "reset"}
  <1>1. CASE x = Listener
    BY <1>1 DEF Events
  <1>2. CASE x # Listener
    BY <1>2 DEF Events
  <1> QED
    BY <1>1, <1>2

(***************************************************************************)
(* epoll_wait reports a non-empty part of the ready list up to some point. *)
(***************************************************************************)
LEMMA BatchFacts ==
    ASSUME ready \in Seq(Items), ReadyNow # {}
    PROVE  /\ Batch \in SUBSET (1 .. Len(ready))
           /\ \A p \in Batch : Events(ready[p]) # {}
           /\ Cardinality(Batch) \in Nat \ {0}
           /\ Walked(Batch) \in 0 .. Len(ready)
           /\ \A p \in Batch : p <= Walked(Batch)
  <1> DEFINE Rank(p) == {q \in ReadyNow : q <= p}
  <1>1. /\ Len(ready) \in Nat /\ ReadyNow \in SUBSET (1 .. Len(ready))
        /\ Batch \in SUBSET ReadyNow
    BY DEF ReadyNow, Batch
  <1>2. IsFiniteSet(1 .. Len(ready))
    BY <1>1, FS_Interval
  <1>3. IsFiniteSet(ReadyNow) /\ IsFiniteSet(Batch)
    BY <1>1, <1>2, FS_Subset
  <1>4. Cardinality(ReadyNow) \in Nat /\ Cardinality(Batch) \in Nat /\ Cardinality(ReadyNow) # 0
    BY <1>3, FS_CardinalityType, FS_EmptySet
  <1>5. Batch # {}
    <2>1. 1 \in Nat /\ 1 <= 1 /\ 1 <= Cardinality(ReadyNow)
      BY <1>4
    <2>2. Nth(ReadyNow, 1) \in ReadyNow /\ Cardinality({q \in ReadyNow : q <= Nth(ReadyNow, 1)}) = 1
      BY <1>1, <2>1, NthExists
    <2> QED
      BY <2>2, KernelAssumption DEF Batch
  <1>6. Cardinality(Batch) # 0
    BY <1>3, <1>5, FS_EmptySet
  <1>7. \A p \in Batch : Events(ready[p]) # {}
    BY DEF Batch, ReadyNow
  <1>8. CASE Cardinality(Batch) < MaxEvents
    BY <1>1, <1>4, <1>6, <1>7, <1>8 DEF Walked
  <1>9. CASE ~(Cardinality(Batch) < MaxEvents)
    <2> DEFINE w == Nth(Batch, MaxEvents)
               First == {q \in Batch : q <= w}
    <2>0. \A p \in Batch : p \in Nat /\ 1 <= p /\ p <= Len(ready)
      BY <1>1
    <2>1. Walked(Batch) = w
      BY <1>9 DEF Walked
    <2>2. MaxEvents \in Nat /\ 1 <= MaxEvents /\ MaxEvents <= Cardinality(Batch)
      BY <1>4, <1>9, KernelAssumption
    <2>3. w \in Batch /\ Cardinality(First) = MaxEvents
      BY <1>1, <2>2, NthExists
    <2>4. ASSUME NEW p \in Batch, ~(p <= w) PROVE FALSE
      <3>1. p \in Nat /\ w \in Nat /\ w < p
        <4> HIDE DEF w, First
        <4>1. p \in Nat /\ w \in Nat
          BY <2>0, <2>3, <2>4
        <4> QED
          BY <2>4, <4>1
      <3>2. p \in ReadyNow /\ Cardinality(Rank(p)) <= MaxEvents
        BY <2>4 DEF Batch
      <3>3. First \in SUBSET Batch /\ p \notin First
        BY <2>4
      <3>4. First \cup {p} \subseteq Rank(p)
        <4>1. \A q \in First : q \in ReadyNow /\ q <= p
          BY <1>1, <3>1
        <4>2. p <= p
          BY <3>1
        <4> QED
          BY <3>2, <4>1, <4>2
      <3>5. IsFiniteSet(Rank(p)) /\ IsFiniteSet(First)
        BY <1>3, FS_Subset
      <3> HIDE DEF First, Rank
      <3>6. Cardinality(First \cup {p}) = MaxEvents + 1
        BY <2>3, <3>3, <3>5, FS_AddElement
      <3>7. Cardinality(First \cup {p}) <= Cardinality(Rank(p)) /\ Cardinality(Rank(p)) \in Nat
        BY <3>4, <3>5, FS_Subset, FS_CardinalityType
      <3> QED
        BY <2>2, <3>2, <3>6, <3>7
    <2> HIDE DEF w, First
    <2>5. w \in 0 .. Len(ready)
      BY <1>1, <2>0, <2>3
    <2> QED
      BY <1>1, <1>4, <1>6, <1>7, <2>1, <2>4, <2>5
  <1> QED
    BY <1>8, <1>9

(***************************************************************************)
(* Moving the reported items to the end of the list repeats none.          *)
(***************************************************************************)
Requeued(s, w, P) == SubSeq(s, w + 1, Len(s)) \o Pick(s, P)

LEMMA Requeue ==
    ASSUME NEW S, NEW s \in Seq(S), Distinct(s), NEW P \in SUBSET (1 .. Len(s)),
           NEW w \in Nat, w <= Len(s), \A p \in P : p <= w
    PROVE  /\ Requeued(s, w, P) \in Seq(S)
           /\ Distinct(Requeued(s, w, P))
           /\ \A a \in 1 .. Len(Requeued(s, w, P)) :
                 \E p \in 1 .. Len(s) : Requeued(s, w, P)[a] = s[p]
  <1> DEFINE r == Requeued(s, w, P)
             tail == SubSeq(s, w + 1, Len(s))
             n == Cardinality(P)
             L == Len(s) - w
             pos(a) == IF a <= L THEN w + a ELSE Nth(P, a - L)
  <1>1. /\ n \in Nat
        /\ Pick(s, P) \in Seq(S)
        /\ Len(Pick(s, P)) = n
        /\ \A k \in 1 .. n : Nth(P, k) \in P /\ Pick(s, P)[k] = s[Nth(P, k)]
        /\ \A j, k \in 1 .. n : Nth(P, j) = Nth(P, k) => j = k
    BY PickFacts
  <1>2. Len(s) \in Nat /\ w \in Nat /\ L \in Nat /\ w <= Len(s)
    OBVIOUS
  <1>3. tail \in Seq(S) /\ Len(tail) = L /\ \A a \in 1 .. L : tail[a] = s[w + a]
    BY <1>2
  <1>a. r = tail \o Pick(s, P)
    BY DEF Requeued
  <1> HIDE DEF tail, n, r
  <1>4. /\ r \in Seq(S)
        /\ Len(r) = L + n
        /\ \A a \in 1 .. L + n : r[a] = IF a <= L THEN tail[a] ELSE Pick(s, P)[a - L]
    <2> DEFINE pk == Pick(s, P)
    <2>1. tail \in Seq(S) /\ pk \in Seq(S) /\ Len(tail) = L /\ Len(pk) = n /\ r = tail \o pk
      BY <1>a, <1>1, <1>3
    <2> HIDE DEF pk, L
    <2>2. /\ tail \o pk \in Seq(S)
          /\ Len(tail \o pk) = Len(tail) + Len(pk)
          /\ \A a \in 1 .. Len(tail) + Len(pk) :
                (tail \o pk)[a] = IF a <= Len(tail) THEN tail[a] ELSE pk[a - Len(tail)]
      BY <2>1, ConcatProperties
    <2> QED
      BY <2>1, <2>2 DEF pk
  <1> HIDE DEF L
  <1>5. ASSUME NEW a \in 1 .. L + n PROVE r[a] = s[pos(a)] /\ pos(a) \in 1 .. Len(s)
    <2>1. CASE a <= L
      BY <1>2, <1>3, <1>4, <2>1 DEF L
    <2>2. CASE ~(a <= L)
      <3>1. a - L \in 1 .. n
        BY <1>1, <1>2, <2>2
      <3>2. Nth(P, a - L) \in P /\ Pick(s, P)[a - L] = s[Nth(P, a - L)]
        BY <1>1, <3>1
      <3> QED
        BY <1>4, <2>2, <3>2
    <2> QED
      BY <2>1, <2>2
  <1>6. ASSUME NEW a \in 1 .. L + n, NEW b \in 1 .. L + n, pos(a) = pos(b) PROVE a = b
    <2>1. ASSUME NEW j \in 1 .. L + n, ~(j <= L)
          PROVE  j - L \in 1 .. n /\ Nth(P, j - L) \in Nat /\ Nth(P, j - L) <= w
      <3>1. j - L \in 1 .. n
        BY <1>1, <1>2, <2>1
      <3>2. Nth(P, j - L) \in P
        BY <1>1, <3>1
      <3>3. \A p \in P : p \in Nat /\ p <= w
        OBVIOUS
      <3> QED
        BY <3>1, <3>2, <3>3
    <2>2. CASE a <= L /\ b <= L
      BY <1>2, <1>6, <2>2
    <2>3. CASE a <= L /\ ~(b <= L)
      <3>1. Nth(P, b - L) \in Nat /\ Nth(P, b - L) <= w
        BY <2>1, <2>3
      <3>2. w + a = Nth(P, b - L)
        BY <1>6, <2>3
      <3>3. a \in Nat /\ a >= 1
        BY <1>2
      <3> QED
        BY <1>2, <3>1, <3>2, <3>3
    <2>4. CASE ~(a <= L) /\ b <= L
      <3>1. Nth(P, a - L) \in Nat /\ Nth(P, a - L) <= w
        BY <2>1, <2>4
      <3>2. w + b = Nth(P, a - L)
        BY <1>6, <2>4
      <3>3. b \in Nat /\ b >= 1
        BY <1>2
      <3> QED
        BY <1>2, <3>1, <3>2, <3>3
    <2>5. CASE ~(a <= L) /\ ~(b <= L)
      <3>1. a - L \in 1 .. n /\ b - L \in 1 .. n
        BY <2>1, <2>5
      <3>2. Nth(P, a - L) = Nth(P, b - L)
        BY <1>6, <2>5
      <3>3. a - L = b - L
        BY <1>1, <3>1, <3>2
      <3>4. a \in Int /\ b \in Int
        OBVIOUS
      <3> QED
        BY <1>2, <3>3, <3>4
    <2> QED
      BY <2>2, <2>3, <2>4, <2>5
  <1>7. Distinct(r)
    <2> SUFFICES ASSUME NEW a \in 1 .. L + n, NEW b \in 1 .. L + n, r[a] = r[b]
                 PROVE  a = b
      BY <1>4 DEF Distinct
    <2> HIDE DEF pos
    <2>1. pos(a) = pos(b)
      BY <1>5 DEF Distinct
    <2> QED
      BY <1>6, <2>1
  <1>8. \A a \in 1 .. Len(r) : \E p \in 1 .. Len(s) : r[a] = s[p]
    <2> HIDE DEF pos
    <2> QED
      BY <1>4, <1>5
  <1> QED
    BY <1>4, <1>7, <1>8 DEF r

(***************************************************************************)
(* A new batch.                                                            *)
(***************************************************************************)
LEMMA DeliverBatch ==
    ASSUME Shape, ReadyOK, epoll_wait(events')
    PROVE  /\ ReadyOK' /\ BatchOK' /\ events' # <<>>
           /\ \A a \in 1 .. Len(events') : events'[a].conn = Listener => backlog # <<>>
           /\ \A a \in 1 .. Len(events') : events'[a].conn # Listener =>
                 /\ events'[a].conn \in fds \cup heirs
                 /\ events'[a].data = interest[events'[a].conn]
           /\ UNCHANGED <<peer, sent, inq, backlog, fds, heirs, interest>>
  <1> DEFINE n == Cardinality(Batch)
             item(k) == ready[Nth(Batch, k)]
  <1>1. /\ ReadyNow # {}
        /\ events' = [k \in 1 .. n |-> Report(item(k))]
        /\ ready' = SubSeq(ready, Walked(Batch) + 1, Len(ready)) \o Pick(ready, Batch)
        /\ UNCHANGED <<peer, sent, inq, backlog, fds, heirs, interest>>
    BY DEF epoll_wait, Deliver, tcp
  <1>2. ready \in Seq(Items) /\ Distinct(ready)
    BY DEF ReadyOK
  <1>3. /\ Batch \in SUBSET (1 .. Len(ready))
        /\ \A p \in Batch : Events(ready[p]) # {}
        /\ n \in Nat \ {0}
        /\ Walked(Batch) \in 0 .. Len(ready)
        /\ \A p \in Batch : p <= Walked(Batch)
    BY <1>1, <1>2, BatchFacts
  <1>4. /\ \A k \in 1 .. n : Nth(Batch, k) \in Batch
        /\ \A j, k \in 1 .. n : Nth(Batch, j) = Nth(Batch, k) => j = k
    BY <1>2, <1>3, PickFacts
  <1>5. ReadyOK'
    <2>1. /\ ready' \in Seq(Items) /\ Distinct(ready')
          /\ \A a \in 1 .. Len(ready') : \E p \in 1 .. Len(ready) : ready'[a] = ready[p]
      <3> DEFINE w == Walked(Batch)
      <3>1. /\ w \in Nat /\ w <= Len(ready) /\ \A p \in Batch : p <= w
            /\ ready' = Requeued(ready, w, Batch)
        BY <1>1, <1>2, <1>3 DEF Requeued
      <3>2. Batch \in SUBSET (1 .. Len(ready))
        BY <1>3
      <3> HIDE DEF w, item, n
      <3> QED
        BY <1>2, <3>1, <3>2, Requeue
    <2> QED
      BY <1>1, <2>1 DEF ReadyOK, Registered
  <1>6. ASSUME NEW k \in 1 .. n
        PROVE  /\ item(k) \in Items /\ Events(item(k)) # {}
               /\ item(k) # Listener => /\ item(k) \in Conns /\ item(k) \in fds \cup heirs
                                        /\ interest[item(k)] \in Slots
    <2>1. Nth(Batch, k) \in Batch /\ Nth(Batch, k) \in 1 .. Len(ready)
      BY <1>3, <1>4
    <2>2. item(k) \in Items /\ Events(item(k)) # {} /\ Registered(item(k))
      BY <1>2, <1>3, <2>1 DEF ReadyOK
    <2> HIDE DEF item
    <2> QED
      BY <2>2 DEF Items, Registered, ReadyOK, Shape, KernelOK
  <1>7. ASSUME NEW j \in 1 .. n, NEW k \in 1 .. n, item(j) = item(k) PROVE j = k
    <2>1. Nth(Batch, j) \in 1 .. Len(ready) /\ Nth(Batch, k) \in 1 .. Len(ready)
      BY <1>3, <1>4
    <2>2. Nth(Batch, j) = Nth(Batch, k)
      BY <1>2, <1>7, <2>1 DEF Distinct
    <2> QED
      BY <1>4, <2>2
  <1> HIDE DEF item, n
  <1>8. \A s \in Slots : s # MAX_INT32
    BY ServerAssumption DEF Slots, MAX_INT32
  <1>9. ASSUME NEW k \in 1 .. n
        PROVE  /\ Report(item(k)) \in EventType
               /\ Report(item(k)).conn = item(k)
               /\ Report(item(k)).events = Events(item(k))
               /\ Report(item(k)).data = IF item(k) = Listener THEN MAX_INT32
                                                              ELSE interest[item(k)]
    <2>1. Events(item(k)) \in SUBSET {"IN", "RDHUP", "HUP", "ERR"}
      BY <1>6, EventsFacts
    <2> QED
      BY <1>6, <2>1 DEF Report, EventType
  <1>10. /\ events' \in Seq(EventType) /\ Len(events') = n
         /\ \A k \in 1 .. n : events'[k] = Report(item(k))
    <2> DEFINE rep(k) == Report(item(k))
    <2>1. n \in Nat /\ events' = [k \in 1 .. n |-> rep(k)]
      BY <1>1, <1>3
    <2>2. \A k \in 1 .. n : rep(k) \in EventType
      BY <1>9
    <2>3. \A k \in 1 .. n : rep(k) = Report(item(k))
      OBVIOUS
    <2> HIDE DEF rep
    <2>4. events' \in [1 .. n -> EventType]
      BY <2>1, <2>2
    <2>5. events' \in Seq(EventType) /\ Len(events') = n
      BY <2>1, <2>4, SeqDef, LenProperties
    <2> QED
      BY <2>1, <2>3, <2>5
  <1>11. ASSUME NEW k \in 1 .. n
         PROVE  /\ events'[k].data = MAX_INT32 <=> events'[k].conn = Listener
                /\ HangUp(events'[k]) =>
                      /\ "IN" \in events'[k].events
                      /\ events'[k].conn \in Conns
                      /\ peer'[events'[k].conn] \in {"fin", "reset", "gone"}
                /\ events'[k].conn = Listener => backlog # <<>>
                /\ events'[k].conn # Listener =>
                      /\ events'[k].conn \in fds \cup heirs
                      /\ events'[k].data = interest[events'[k].conn]
    <2>1. /\ events'[k].conn = item(k) /\ events'[k].events = Events(item(k))
          /\ events'[k].data = IF item(k) = Listener THEN MAX_INT32 ELSE interest[item(k)]
      BY <1>9, <1>10
    <2>2. /\ item(k) = Listener /\ Events(item(k)) # {} => backlog # <<>>
          /\ Events(item(k)) \cap {"RDHUP", "HUP"} # {} =>
                 /\ item(k) # Listener
                 /\ "IN" \in Events(item(k))
                 /\ peer[item(k)] \in {"fin", "reset"}
      BY <1>6, EventsFacts
    <2>3. /\ events'[k].data = MAX_INT32 <=> events'[k].conn = Listener
          /\ events'[k].conn = Listener => backlog # <<>>
          /\ events'[k].conn # Listener => /\ events'[k].conn \in fds \cup heirs
                                           /\ events'[k].data = interest[events'[k].conn]
      BY <1>6, <1>8, <2>1, <2>2
    <2>4. HangUp(events'[k]) =>
                      /\ "IN" \in events'[k].events
                      /\ events'[k].conn \in Conns
                      /\ peer'[events'[k].conn] \in {"fin", "reset", "gone"}
      BY <1>1, <1>6, <2>1, <2>2 DEF HangUp
    <2> QED
      BY <2>3, <2>4
  <1>12. BatchOK'
    <2>1. \A a, b \in 1 .. Len(events') : events'[a].conn = events'[b].conn => a = b
      BY <1>7, <1>9, <1>10
    <2> QED
      BY <1>10, <1>11, <2>1 DEF BatchOK, HangUp
  <1>13. events' # <<>>
    BY <1>3, <1>10
  <1> QED
    BY <1>1, <1>5, <1>10, <1>11, <1>12, <1>13

(***************************************************************************)
(* The clients and the kernel change nothing behind the server's back: the *)
(* accept queue only grows, and a connection that has terminated sends     *)
(* nothing more.                                                           *)
(***************************************************************************)
LEMMA ClientKeeps ==
    ASSUME Shape, ReadyOK, Waiting, Streams, Client, conns' = conns
    PROVE  /\ ReadyOK' /\ Waiting' /\ Streams' /\ StaysTerminated
           /\ backlog # <<>> => backlog' # <<>>
           /\ heirs' = {} \/ heirs' = heirs
           /\ \A c \in fds : peer[c] = "fin" => peer'[c] = "fin" /\ inq'[c] = inq[c]
  <1>0. /\ peer \in [Conns -> PeerStates] /\ sent \in [Conns -> Nat] /\ inq \in [Conns -> Nat]
        /\ backlog \in Seq(Conns) /\ fds \in SUBSET Conns /\ heirs \in SUBSET Conns /\ Queued
        /\ \A s \in Used : conns[s].fd \in fds /\ conns[s].buf_size \in Nat
    BY DEF Shape, KernelOK, TableOwnsFds, Used, ConnType
  <1> DEFINE Kept ==
           /\ ReadyOK' /\ Waiting' /\ Streams' /\ StaysTerminated
           /\ backlog # <<>> => backlog' # <<>>
           /\ heirs' = {} \/ heirs' = heirs
           /\ \A c \in fds : peer[c] = "fin" => peer'[c] = "fin" /\ inq'[c] = inq[c]
  <1>1. ASSUME NEW c \in Conns, Connect(c) PROVE Kept
    <2>1. /\ peer[c] = "idle" /\ peer' = [peer EXCEPT ![c] = "open"]
          /\ backlog' = Append(backlog, c) /\ Wake(Listener)
          /\ UNCHANGED <<sent, inq, fds, heirs, interest>>
      BY <1>1 DEF Connect
    <2>2. ReadyOK'
      BY <2>1, WakeReady DEF Items
    <2>3. /\ Len(backlog') = Len(backlog) + 1 /\ Len(backlog) \in Nat
          /\ \A a \in 1 .. Len(backlog) : backlog'[a] = backlog[a] /\ backlog[a] \in Conns
          /\ backlog'[Len(backlog) + 1] = c
          /\ backlog' # <<>>
      <3>1. backlog \in Seq(Conns) /\ c \in Conns /\ backlog' = Append(backlog, c)
        BY <1>0, <2>1
      <3> QED
        BY <3>1
    <2>4. peer'[c] = "open" /\ \A d \in Conns \ {c} : peer'[d] = peer[d]
      BY <1>0, <2>1
    <2>5. c \notin heirs /\ c \notin fds /\ sent[c] = inq[c]
      BY <1>0, <2>1 DEF Waiting, Queued
    <2>6. Waiting'
      <3>1. \A a \in 1 .. Len(backlog') : /\ backlog'[a] \notin heirs'
                                          /\ peer'[backlog'[a]] # "gone"
                                          /\ sent'[backlog'[a]] = inq'[backlog'[a]]
        <4> TAKE a \in 1 .. Len(backlog')
        <4>1. CASE a = Len(backlog) + 1
          BY <2>1, <2>3, <2>4, <2>5, <4>1
        <4>2. CASE a # Len(backlog) + 1
          <5>1. a \in 1 .. Len(backlog)
            BY <2>3, <4>2
          <5> QED
            BY <2>1, <2>3, <2>4, <5>1 DEF Waiting
        <4> QED
          BY <4>1, <4>2
      <3> QED
        BY <1>0, <2>1, <2>4, <2>5, <3>1 DEF Waiting
    <2>7. Streams' /\ StaysTerminated
      BY <2>1, <2>4 DEF Streams, Used, StaysTerminated
    <2> QED
      BY <1>0, <2>1, <2>2, <2>3, <2>4, <2>5, <2>6, <2>7
  <1>2. ASSUME NEW c \in Conns, NEW n \in 1 .. MsgSize[c], Send(c, n) PROVE Kept
    <2>1. /\ peer[c] = "open"
          /\ sent' = [sent EXCEPT ![c] = sent[c] + n] /\ inq' = [inq EXCEPT ![c] = inq[c] + n]
          /\ Wake(c) /\ UNCHANGED <<peer, backlog, fds, heirs, interest>>
      BY <1>2 DEF Send
    <2>2. n \in Nat
      BY KernelAssumption
    <2>3. ReadyOK'
      BY <2>1, WakeReady DEF Items
    <2>4. /\ sent'[c] = sent[c] + n /\ inq'[c] = inq[c] + n
          /\ \A d \in Conns \ {c} : sent'[d] = sent[d] /\ inq'[d] = inq[d]
      BY <1>0, <2>1
    <2>5. \A d \in Conns : sent[d] = inq[d] => sent'[d] = inq'[d]
      BY <2>4
    <2>6. \A a \in 1 .. Len(backlog) : backlog[a] \in Conns
      BY <1>0
    <2>7. Waiting'
      BY <1>0, <2>1, <2>5, <2>6 DEF Waiting
    <2>8. Streams'
      <3> SUFFICES ASSUME NEW s \in Used
                   PROVE  conns[s].buf_size + inq'[conns[s].fd] = sent'[conns[s].fd]
        BY DEF Streams, Used
      <3> DEFINE d == conns[s].fd
      <3>1. d \in Conns /\ conns[s].buf_size \in Nat /\ inq[d] \in Nat
        BY <1>0
      <3>2. conns[s].buf_size + inq[d] = sent[d]
        BY DEF Streams
      <3> HIDE DEF d
      <3>3. conns[s].buf_size + inq'[d] = sent'[d]
        BY <2>2, <2>4, <3>1, <3>2
      <3> QED
        BY <3>3 DEF d
    <2>9. \A d \in fds : peer[d] = "fin" => peer'[d] = "fin" /\ inq'[d] = inq[d]
      BY <1>0, <2>1, <2>4
    <2> QED
      BY <2>1, <2>3, <2>7, <2>8, <2>9 DEF StaysTerminated
  <1>3. ASSUME NEW c \in Conns, NEW new \in {"fin", "resetting", "reset"},
               peer[c] \in {"open", "resetting"}, peer' = [peer EXCEPT ![c] = new], ReadyOK',
               UNCHANGED <<sent, inq, backlog, fds, heirs>>
        PROVE  Kept
    <2>1. peer'[c] = new /\ \A d \in Conns \ {c} : peer'[d] = peer[d]
      BY <1>0, <1>3
    <2>2. \A a \in 1 .. Len(backlog) : backlog[a] \in Conns
      BY <1>0
    <2>3. Waiting'
      BY <1>0, <1>3, <2>1, <2>2 DEF Waiting
    <2>4. Streams' /\ StaysTerminated
      BY <1>3, <2>1 DEF Streams, Used, StaysTerminated
    <2> QED
      BY <1>0, <1>3, <2>1, <2>3, <2>4
  <1>4. ASSUME NEW c \in Conns, Terminate(c) PROVE Kept
    <2>1. ReadyOK'
      BY <1>4, WakeReady DEF Terminate, Items
    <2> QED
      BY <1>3, <1>4, <2>1 DEF Terminate
  <1>5. ASSUME NEW c \in Conns, Reset(c) PROVE Kept
    <2>1. ReadyOK'
      BY <1>5 DEF Reset, ReadyOK, Registered, Distinct
    <2> QED
      BY <1>3, <1>5, <2>1 DEF Reset
  <1>6. ASSUME NEW c \in Conns, ResetDone(c) PROVE Kept
    <2>1. ReadyOK'
      BY <1>6, WakeReady DEF ResetDone, Items
    <2> QED
      BY <1>3, <1>6, <2>1 DEF ResetDone
  <1>7. ASSUME BackgroundExits PROVE Kept
    <2> DEFINE cs == heirs \ fds
    <2>1. heirs' = {} /\ Vanish(cs) /\ backlog' = backlog /\ fds' = fds
      BY <1>7 DEF BackgroundExits
    <2>2. cs \in SUBSET (fds \cup heirs) /\ cs \cap fds = {}
      OBVIOUS
    <2>3. fds' \cup heirs' = (fds \cup heirs) \ cs /\ fds' \subseteq fds /\ heirs' \subseteq heirs
      BY <2>1
    <2> HIDE DEF cs
    <2>4. /\ ReadyOK' /\ Waiting'
          /\ \A c \in cs : peer'[c] = "gone"
          /\ \A c \in Conns \ cs : peer'[c] = peer[c] /\ sent'[c] = sent[c] /\ inq'[c] = inq[c]
      BY <2>1, <2>2, <2>3, VanishKeeps
    <2>5. StaysTerminated
      BY <2>4 DEF StaysTerminated
    <2>6. Streams'
      <3> SUFFICES ASSUME NEW s \in Used
                   PROVE  conns[s].buf_size + inq'[conns[s].fd] = sent'[conns[s].fd]
        BY DEF Streams, Used
      <3>1. conns[s].fd \in Conns \ cs
        BY <1>0, <2>2
      <3> QED
        BY <2>4, <3>1 DEF Streams
    <2> QED
      BY <1>0, <2>1, <2>2, <2>4, <2>5, <2>6
  <1> QED
    BY <1>1, <1>2, <1>4, <1>5, <1>6, <1>7 DEF Client

LEMMA InitEvents == Init => EInv
  <1> SUFFICES ASSUME Init PROVE EInv
    OBVIOUS
  <1>1. Used = {}
    BY DEF Init, Used, NoConnection
  <1>2. ReadyOK
    BY DEF Init, KernelInit, ReadyOK, Distinct
  <1>3. Waiting
    BY DEF Init, KernelInit, Waiting
  <1>4. BatchOK
    BY DEF Init, BatchOK
  <1>5. Current /\ Listening /\ Drained
    BY DEF Init, Current, Listening, Drained
  <1>6. Streams
    BY <1>1 DEF Streams
  <1> QED
    BY <1>2, <1>3, <1>4, <1>5, <1>6 DEF EInv

(***************************************************************************)
(* The server calls accept only for an event of the listening socket.      *)
(***************************************************************************)
LEMMA AtListener ==
    ASSUME EInv, AtAccept
    PROVE  /\ events # <<>> /\ event = events[1] /\ 1 \in 1 .. Len(events)
           /\ pc # "assert_conn_fd" /\ event.conn = Listener /\ event.data = MAX_INT32
  <1>1. events # <<>> /\ pc # "assert_conn_fd" /\ event.data = MAX_INT32
    BY DEF EInv, AtAccept, Current
  <1>2. 1 \in 1 .. Len(events) /\ event = events[1]
    BY <1>1 DEF EInv, BatchOK, event
  <1> QED
    BY <1>1, <1>2 DEF EInv, BatchOK

(***************************************************************************)
(* free_all closes what is left.                                           *)
(***************************************************************************)
LEMMA FreeAllKeeps ==
    ASSUME Inv, EInv, FreeAll
    PROVE  EInv'
  <1> DEFINE closed == {conns[s].fd : s \in Used}
             cs == closed \ heirs
  <1>1. /\ pc = "return" /\ pc' = "down" /\ events' = events
        /\ fds' = fds \ closed /\ Vanish(cs) /\ backlog' = backlog /\ heirs' = heirs
        /\ conns' = [s \in Slots |-> NoConnection]
    BY DEF FreeAll
  <1>2. closed = fds
    BY DEF Inv, Shape, TableOwnsFds
  <1>3. /\ cs \in SUBSET (fds \cup heirs) /\ fds' \cup heirs' = (fds \cup heirs) \ cs
        /\ fds' \subseteq fds /\ heirs' \subseteq heirs
    BY <1>1, <1>2
  <1> HIDE DEF closed, cs
  <1>4. /\ ReadyOK' /\ Waiting'
        /\ \A c \in cs : peer'[c] = "gone"
        /\ \A c \in Conns \ cs : peer'[c] = peer[c] /\ sent'[c] = sent[c] /\ inq'[c] = inq[c]
    BY <1>1, <1>3, VanishKeeps DEF Inv, EInv
  <1>5. StaysTerminated
    BY <1>4 DEF StaysTerminated
  <1>6. BatchOK'
    BY <1>1, <1>5, BatchKept DEF EInv
  <1>7. Used' = {}
    BY <1>1 DEF Used, NoConnection
  <1>8. Streams'
    BY <1>7 DEF Streams
  <1>9. Current' /\ Listening' /\ Drained'
    BY <1>1 DEF EInv, Current, Listening, Drained
  <1> QED
    BY <1>4, <1>6, <1>8, <1>9 DEF EInv

(***************************************************************************)
(* Every step keeps the invariant.                                         *)
(***************************************************************************)
(***************************************************************************)
(* A pass over the keys ends in one of the three ways.                     *)
(***************************************************************************)
LEMMA AuthenticateMoves ==
    ASSUME Inv, Authenticate PROVE pc' \in {"exec", "reject", "return"}
  <1> DEFINE Result(r) ==
           pc' = CASE r.verdict = "hit"     -> "exec"
                   [] r.verdict = "miss"    -> "reject"
                   [] r.verdict = "expired" -> "return"
  <1>1. PICK s \in Slots, now \in Times :
            \E r \in PassResults(ring, Received(s), now) : Result(r)
    BY DEF Authenticate
  <1>2. PICK r \in PassResults(ring, Received(s), now) : Result(r)
    BY <1>1
  <1>3. r.verdict \in {"hit", "miss", "expired"}
    BY PassTypes DEF Inv, Scalars
  <1> QED
    BY <1>2, <1>3

LEMMA NextEvents == Inv /\ EInv /\ [Next]_vars => EInv'
  <1> SUFFICES ASSUME Inv, EInv, [Next]_vars PROVE EInv'
    OBVIOUS
  <1>1. /\ Shape /\ Handling /\ (~Aborted => Counted)
        /\ ReadyOK /\ Waiting /\ BatchOK /\ Current /\ Listening /\ Streams /\ Drained
    BY DEF Inv, EInv
  <1>2. ASSUME NEW s \in Used, free_conn(s), EndEvent, events # <<>>, pc # "assert_conn_fd"
        PROVE  EInv'
    BY <1>1, <1>2, FreeKeeps, NextEvent
  <1>3. CASE EpollWait
    <2>1. pc' = "next" /\ conns' = conns /\ epoll_wait(events')
      BY <1>3 DEF EpollWait, table
    <2>2. /\ ReadyOK' /\ BatchOK' /\ events' # <<>>
          /\ \A a \in 1 .. Len(events') : events'[a].conn = Listener => backlog # <<>>
          /\ UNCHANGED <<peer, sent, inq, backlog, fds, heirs, interest>>
      BY <1>1, <2>1, DeliverBatch
    <2>3. Waiting'
      BY <1>1, <2>2 DEF Waiting
    <2>4. Streams'
      BY <1>1, <2>1, <2>2 DEF Streams, Used
    <2>5. Current' /\ Drained' /\ Listening'
      BY <2>1, <2>2 DEF Current, Drained, Listening
    <2> QED
      BY <2>2, <2>3, <2>4, <2>5 DEF EInv
  <1>4. CASE EpollSleep
    <2>1. /\ pc = "wait" /\ pc' = pc /\ conns' = conns /\ events' = events /\ ready' = <<>>
          /\ UNCHANGED <<peer, sent, inq, backlog, fds, heirs, interest>>
      BY <1>4 DEF EpollSleep, epoll_sleep, svars, tcp
    <2>2. ReadyOK'
      BY <1>1, <2>1 DEF ReadyOK, Distinct
    <2>3. Waiting' /\ StaysTerminated
      BY <1>1, <2>1 DEF Waiting, StaysTerminated
    <2>4. Streams'
      BY <1>1, <2>1 DEF Streams, Used
    <2>5. BatchOK'
      BY <1>1, <2>1, <2>3, BatchKept
    <2>6. Current' /\ Drained' /\ Listening'
      BY <1>1, <2>1 DEF Current, Drained, Listening
    <2> QED
      BY <2>2, <2>3, <2>4, <2>5, <2>6 DEF EInv
  <1>5. CASE EpollWaitFails
    <2>1. pc = "wait" /\ pc' = "return" /\ UNCHANGED kvars /\ conns' = conns /\ events' = events
      BY <1>5 DEF EpollWaitFails, table
    <2>2. Current' /\ Drained'
      BY <2>1 DEF Current, Drained
    <2> QED
      BY <2>1, <2>2, MovesOn
  <1>6. CASE EvictOldest
    <2>1. pc = "next" /\ event.data = MAX_INT32 /\ events' = events /\ event' = event
      BY <1>6 DEF EvictOldest, event
    <2>2. CASE Oldest = {}
      <3>1. pc' = "assert_min_conn" /\ UNCHANGED kvars /\ conns' = conns
        BY <1>6, <2>2 DEF EvictOldest, table
      <3>2. Current' /\ Drained'
        BY <3>1 DEF Current, Drained
      <3> QED
        BY <2>1, <3>1, <3>2, MovesOn
    <2>3. CASE Oldest # {}
      <3>1. pc' = "accept" /\ \E s \in Oldest : free_conn(s)
        BY <1>6, <2>3 DEF EvictOldest
      <3>2. PICK s \in Used : free_conn(s)
        BY <3>1 DEF Oldest
      <3>3. ReadyOK' /\ Waiting' /\ Streams' /\ StaysTerminated /\ backlog' = backlog
        BY <1>1, <3>2, FreeKeeps
      <3>4. BatchOK'
        BY <1>1, <2>1, <3>3, BatchKept
      <3>5. Current' /\ Drained' /\ Listening'
        BY <1>1, <2>1, <3>1, <3>3 DEF Current, Drained, Listening
      <3> QED
        BY <3>3, <3>4, <3>5 DEF EInv
    <2> QED
      BY <2>2, <2>3
  <1>7. ASSUME AtAccept
        PROVE  /\ events # <<>> /\ pc # "assert_conn_fd" /\ event.conn = Listener
               /\ event.data = MAX_INT32
    BY <1>7, AtListener
  <1>8. CASE AcceptFails
    <2>1. AtAccept /\ EndEvent /\ UNCHANGED kvars /\ conns' = conns
      BY <1>8 DEF AcceptFails, table
    <2>2. ReadyOK' /\ Waiting' /\ Streams' /\ StaysTerminated
      BY <1>1, <2>1, KernelKept
    <2> QED
      BY <1>7, <2>1, <2>2, NextEvent
  <1>9. CASE Accept
    <2>1. AtAccept /\ EndEvent /\ Admit
      BY <1>9 DEF Accept, Admit
    <2>2. ReadyOK' /\ Waiting' /\ Streams' /\ StaysTerminated
      BY <1>1, <2>1, AdmitKeeps
    <2> QED
      BY <1>7, <2>1, <2>2, NextEvent
  <1>10. CASE AcceptAborts
    <2>1. /\ backlog # <<>> /\ backlog' = Tail(backlog) /\ pc' = "assert_conn_fd"
          /\ conns' = conns /\ events' = events
          /\ UNCHANGED <<peer, sent, inq, fds, heirs, interest, ready>>
      BY <1>10 DEF AcceptAborts, tcp, epoll
    <2>2. backlog \in Seq(Conns)
      BY <1>1 DEF Shape, KernelOK
    <2>3. \A a \in 1 .. Len(backlog') : a + 1 \in 1 .. Len(backlog) /\ backlog'[a] = backlog[a + 1]
      BY <2>1, <2>2
    <2>4. Waiting'
      BY <1>1, <2>1, <2>3 DEF Waiting
    <2>5. ReadyOK' /\ StaysTerminated
      BY <1>1, <2>1 DEF ReadyOK, Registered, Distinct, StaysTerminated
    <2>6. Streams'
      BY <1>1, <2>1 DEF Streams, Used
    <2>7. BatchOK'
      BY <1>1, <2>1, <2>5, BatchKept
    <2>8. Current' /\ Drained' /\ Listening'
      BY <2>1 DEF Current, Drained, Listening
    <2> QED
      BY <2>4, <2>5, <2>6, <2>7, <2>8 DEF EInv
  <1>11. ASSUME pc \in {"next", "recv", "hup", "exec", "ran", "reject"}
         PROVE  /\ events # <<>> /\ event = events[1] /\ 1 \in 1 .. Len(events)
                /\ pc # "assert_conn_fd"
                /\ HungUp => "IN" \in event.events /\ event.conn \in Conns
                             /\ peer[event.conn] \in {"fin", "reset", "gone"}
    <2>1. events # <<>> /\ pc # "assert_conn_fd"
      BY <1>1, <1>11 DEF Current
    <2>2. event = events[1] /\ 1 \in 1 .. Len(events)
      BY <1>1, <2>1 DEF BatchOK, event
    <2> QED
      BY <1>1, <2>1, <2>2 DEF BatchOK, HangUp, HungUp
  <1>12. CASE ConnEvent
    <2>1. pc = "next" /\ UNCHANGED kvars /\ conns' = conns /\ events' = events /\ event' = event
      BY <1>12 DEF ConnEvent, table, event
    <2>2. /\ pc' \in {"return", "assert_in_use", "recv", "hup"}
          /\ pc' = "hup" => "IN" \notin event.events
      BY <1>12 DEF ConnEvent
    <2>3. Current'
      BY <1>11, <2>1, <2>2 DEF Current
    <2>4. HungUp' <=> HungUp
      BY <2>1 DEF HungUp
    <2>5. Drained'
      BY <1>11, <2>1, <2>2, <2>4 DEF Drained
    <2> QED
      BY <2>1, <2>3, <2>5, MovesOn
  <1>13. CASE Recv
    <2>1. PICK s \in Slots :
              /\ s = event.data
              /\ RecvData(s) \/ RecvTooMuch(s) \/ RecvNothing(s) \/ RecvError(s)
      BY <1>13 DEF Recv
    <2>2. pc = "recv" /\ s \in Used /\ events # <<>> /\ pc # "assert_conn_fd"
      BY <1>1, <1>11, <1>13, <2>1 DEF Recv, Handling
    <2>3. CASE RecvData(s)
      <3>1. Store(s) /\ pc' = pc /\ events' = events
        BY <2>3 DEF RecvData, Store
      <3>2. ReadyOK' /\ Waiting' /\ Streams' /\ StaysTerminated /\ backlog' = backlog
        BY <1>1, <2>2, <3>1, StoreKeeps
      <3>3. BatchOK'
        BY <1>1, <3>1, <3>2, BatchKept
      <3>4. Current' /\ Drained' /\ Listening'
        BY <1>1, <2>2, <3>1, <3>2 DEF Current, Drained, Listening
      <3> QED
        BY <3>2, <3>3, <3>4 DEF EInv
    <2>4. CASE RecvTooMuch(s)
      BY <1>2, <2>2, <2>4 DEF RecvTooMuch
    <2>5. CASE RecvNothing(s)
      <3>1. pc' = "hup" /\ UNCHANGED kvars /\ conns' = conns /\ events' = events /\ event' = event
        BY <2>5 DEF RecvNothing, table, event
      <3>2. inq[conns[s].fd] = 0 /\ peer[conns[s].fd] \in {"open", "fin"}
        <4>1. Room(s) > 0
          BY <2>2, RoomLeft
        <4>2. Room(s) # 0
          BY <4>1
        <4> QED
          BY <2>5, <4>2 DEF RecvNothing
      <3>3. conns[s].fd \in fds
        BY <1>1, <2>2 DEF Shape, TableOwnsFds
      <3>4. /\ event.conn' = event.conn /\ event.data' = event.data
            /\ peer' = peer /\ inq' = inq /\ (HungUp' <=> HungUp)
        BY <3>1 DEF HungUp, kvars
      <3>5. HungUp /\ event.conn = conns[s].fd => peer[event.conn] = "fin"
        BY <1>1, <1>11, <2>2, <3>2, <3>3 DEF Waiting
      <3>6. Drained'
        BY <2>1, <3>1, <3>2, <3>4, <3>5 DEF Drained
      <3>7. Current'
        BY <2>2, <3>1 DEF Current
      <3> QED
        BY <2>2, <3>1, <3>6, <3>7, MovesOn
    <2>6. CASE RecvError(s)
      BY <1>2, <2>2, <2>6 DEF RecvError
    <2> QED
      BY <2>1, <2>3, <2>4, <2>5, <2>6
  <1>14. ASSUME UNCHANGED kvars, conns' = conns, events' = events,
                pc \in {"hup", "exec"}, HungUp, pc' \in {"exec", "reject", "ran", "return"}
         PROVE  EInv'
    <2>1. /\ event' = event /\ (HungUp' <=> HungUp) /\ peer' = peer /\ inq' = inq
          /\ events # <<>> /\ pc # "assert_conn_fd"
      BY <1>11, <1>14 DEF event, HungUp, kvars
    <2>2. Current' /\ Drained'
      BY <1>1, <1>14, <2>1 DEF Current, Drained
    <2> QED
      BY <1>14, <2>1, <2>2, MovesOn
  <1>15. CASE Authenticate
    <2>1. pc = "hup" /\ HungUp /\ UNCHANGED kvars /\ conns' = conns /\ events' = events
      BY <1>15 DEF Authenticate, table
    <2>2. pc' \in {"exec", "reject", "return"}
      BY <1>15, AuthenticateMoves
    <2> QED
      BY <1>14, <2>1, <2>2
  <1>16. CASE ExecScript
    <2>1. PICK s \in Slots :
              heirs' = IF conns[s].fd \in Forking THEN heirs \cup fds ELSE heirs
      BY <1>16 DEF ExecScript
    <2>2. /\ pc = "exec" /\ pc' = "ran" /\ conns' = conns /\ events' = events /\ event' = event
          /\ UNCHANGED <<peer, sent, inq, backlog, fds, interest, ready>>
      BY <1>16 DEF ExecScript, tcp, epoll, table, event
    <2>3. heirs' \subseteq heirs \cup fds /\ heirs \subseteq heirs'
      BY <2>1
    <2>4. ReadyOK' /\ StaysTerminated
      BY <1>1, <2>2, <2>3 DEF ReadyOK, Registered, Distinct, StaysTerminated
    <2>5. Waiting'
      BY <1>1, <2>2, <2>3 DEF Waiting, Shape, KernelOK, Queued
    <2>6. Streams'
      BY <1>1, <2>2 DEF Streams, Used
    <2>7. BatchOK'
      BY <1>1, <2>2, <2>4, BatchKept
    <2>8. Current' /\ Drained' /\ Listening'
      BY <1>1, <2>2 DEF Current, Drained, Listening
    <2> QED
      BY <2>4, <2>5, <2>6, <2>7, <2>8 DEF EInv
  <1>17. CASE ExecFails
    BY <1>1, <1>14, <1>17 DEF ExecFails, table, Drained
  <1>18. CASE CloseVerified
    <2>1. pc \in {"ran", "reject"} /\ EndEvent /\ \E s \in Slots : s = event.data /\ free_conn(s)
      BY <1>18 DEF CloseVerified
    <2> QED
      BY <1>1, <1>2, <1>11, <2>1 DEF Handling
  <1>19. CASE CloseOnError
    <2>1. pc = "hup" /\ EndEvent /\ \E s \in Slots : s = event.data /\ free_conn(s)
      BY <1>19 DEF CloseOnError
    <2> QED
      BY <1>1, <1>2, <1>11, <2>1 DEF Handling
  <1>20. CASE KeepOpen
    <2>1. pc = "hup" /\ EndEvent /\ UNCHANGED kvars /\ conns' = conns
      BY <1>20 DEF KeepOpen, table
    <2>2. ReadyOK' /\ Waiting' /\ Streams' /\ StaysTerminated /\ backlog' = backlog
      BY <1>1, <2>1, KernelKept DEF kvars
    <2> QED
      BY <1>11, <2>1, <2>2, NextEvent
  <1>21. CASE FreeAll
    BY <1>21, FreeAllKeeps
  <1>22. CASE ClientStep
    <2>1. /\ Client /\ Up /\ conns' = conns /\ events' = events /\ pc' = pc /\ event' = event
      BY <1>22 DEF ClientStep, svars, event
    <2>2. /\ ReadyOK' /\ Waiting' /\ Streams' /\ StaysTerminated
          /\ backlog # <<>> => backlog' # <<>>
          /\ \A c \in fds : peer[c] = "fin" => peer'[c] = "fin" /\ inq'[c] = inq[c]
      BY <1>1, <2>1, ClientKeeps
    <2>3. BatchOK'
      BY <1>1, <2>1, <2>2, BatchKept
    <2>4. Current' /\ Listening'
      BY <1>1, <2>1, <2>2 DEF Current, Listening
    <2>5. Drained'
      <3>1. pc \in {"hup", "exec", "reject"} => conns[event.data].fd \in fds
        BY <1>1 DEF Handling, Shape, TableOwnsFds
      <3>2. HungUp' <=> HungUp
        BY <2>1 DEF HungUp
      <3> QED
        BY <1>1, <2>1, <2>2, <3>1, <3>2 DEF Drained
    <2> QED
      BY <2>2, <2>3, <2>4, <2>5 DEF EInv
  <1>23. CASE UNCHANGED vars
    <2>1. UNCHANGED kvars /\ conns' = conns /\ events' = events /\ event' = event /\ pc' = pc
      BY <1>23 DEF vars, svars, event
    <2>2. ReadyOK' /\ Waiting' /\ Streams' /\ StaysTerminated /\ backlog' = backlog
          /\ peer' = peer /\ inq' = inq
      BY <1>1, <2>1, KernelKept DEF kvars
    <2>3. BatchOK'
      BY <1>1, <2>1, <2>2, BatchKept
    <2>4. Current' /\ Drained' /\ Listening'
      BY <1>1, <2>1, <2>2 DEF Current, Drained, Listening, HungUp
    <2> QED
      BY <2>2, <2>3, <2>4 DEF EInv
  <1> QED
    BY <1>3, <1>4, <1>5, <1>6, <1>8, <1>9, <1>10, <1>12, <1>13, <1>15, <1>16, <1>17,
       <1>18, <1>19, <1>20, <1>21, <1>22, <1>23 DEF Next, ServerStep

LEMMA EventsInvariance == Spec => [](Inv /\ EInv)
  <1>1. Inv /\ EInv /\ [Next]_vars => (Inv /\ EInv)'
    BY NextInv, NextEvents
  <1> QED
    BY InitInv, InitEvents, <1>1, PTL DEF Spec

(***************************************************************************)
(* accept is called at most once for the one event of the listening socket *)
(* in a batch, which was reported while the queue was not empty, and only  *)
(* the server itself takes connections out of the queue: the blocking call *)
(* at main.c:268 finds one, however many clients come, go or are evicted.  *)
(***************************************************************************)
THEOREM AcceptFindsConnection == Spec => []AcceptNeverBlocks
  <1>1. ASSUME EInv, AtAccept PROVE backlog # <<>>
    BY <1>1, AtListener DEF EInv, Listening
  <1>2. EInv => AcceptNeverBlocks
    BY <1>1 DEF AcceptNeverBlocks
  <1> QED
    BY <1>2, EventsInvariance, PTL

(***************************************************************************)
(* A hang-up is reported together with EPOLLIN, so the recv loop runs to   *)
(* the end of the stream before the script is authenticated: the buffer    *)
(* holds all that the client sent, and a reset connection is closed        *)
(* instead.  This is for the connection the event was reported for; for    *)
(* another one accepted into its slot it fails (run server_stale).         *)
(***************************************************************************)
THEOREM VerifiesWholeStream == Spec => []WholeStream
  <1>1. ASSUME Inv, EInv, Verifying, event.conn = conns[event.data].fd
        PROVE  /\ peer[event.conn] = "fin" /\ inq[event.conn] = 0
               /\ conns[event.data].buf_size = sent[event.conn]
    <2> DEFINE s == event.data
               c == event.conn
    <2>1. s \in Used /\ c = conns[s].fd
      BY <1>1 DEF Verifying
    <2>2. peer[c] = "fin" /\ inq[c] = 0
      BY <1>1 DEF Verifying, EInv, Drained
    <2>3. conns[s].buf_size + inq[c] = sent[c]
      BY <1>1, <2>1 DEF EInv, Streams
    <2>4. conns[s].buf_size \in Nat
      BY <1>1, <2>1 DEF Inv, Shape, Used, ConnType
    <2> HIDE DEF s, c
    <2>5. conns[s].buf_size = sent[c]
      BY <2>2, <2>3, <2>4
    <2> QED
      BY <2>2, <2>5 DEF s, c
  <1>2. Inv /\ EInv => WholeStream
    BY <1>1 DEF WholeStream
  <1> QED
    BY <1>2, EventsInvariance, PTL

-----------------------------------------------------------------------------

(***************************************************************************)
(* The searches of the event loop over a table that is full, or not.       *)
(***************************************************************************)
LEMMA FullTable ==
    ASSUME Counted
    PROVE  /\ conns_total >= MaxConcurrency => Used = Slots
           /\ conns_total < MaxConcurrency => Slots \ Used # {}
           /\ Slots # {}
  <1>1. IsFiniteSet(Slots) /\ Cardinality(Slots) = MaxConcurrency
    BY ServerAssumption, FS_Interval DEF Slots
  <1>2. Used \in SUBSET Slots
    BY DEF Used
  <1>3. /\ Cardinality(Used) <= Cardinality(Slots)
        /\ Cardinality(Slots) = Cardinality(Used) => Slots = Used
    BY <1>1, <1>2, FS_Subset
  <1>4. conns_total \in Nat /\ conns_total = Cardinality(Used) /\ MaxConcurrency \in Nat \ {0}
    BY ServerAssumption DEF Counted
  <1>5. conns_total >= MaxConcurrency => Used = Slots
    BY <1>1, <1>3, <1>4
  <1>6. conns_total < MaxConcurrency => Used # Slots
    BY <1>1, <1>4
  <1>7. 0 \in Slots
    BY <1>4 DEF Slots
  <1> QED
    BY <1>2, <1>5, <1>6, <1>7

LEMMA FirstFreeExists ==
    ASSUME Slots \ Used # {}
    PROVE  FirstFree # {}
  <1> DEFINE Free == Slots \ Used
  <1>1. Free \in SUBSET Nat
    BY ServerAssumption DEF Slots
  <1>2. PICK m \in Free : \A n \in Free : m <= n
    <2> HIDE DEF Free
    <2>1. Free # {}
      BY DEF Free
    <2> QED
      BY <1>1, <2>1, LeastNat
  <1> QED
    BY <1>2 DEF FirstFree

LEMMA OldestExists ==
    ASSUME Shape, Used # {}
    PROVE  Oldest # {}
  <1> DEFINE time(s) == conns[s].open_time
             Ages == {time(s) : s \in Used}
  <1>1. \A s \in Used : s \in Nat /\ time(s) \in Nat
    BY ServerAssumption DEF Used, Slots, Shape, ConnType
  <1>2. Ages \in SUBSET Nat /\ Ages # {}
    BY <1>1
  <1>3. PICK t \in Ages : \A u \in Ages : t <= u
    <2> HIDE DEF Ages
    <2> QED
      BY <1>2, LeastNat
  <1> DEFINE First == {s \in Used : time(s) = t}
  <1>4. First \in SUBSET Nat /\ First # {}
    BY <1>1, <1>3
  <1>5. PICK s \in First : \A u \in First : s <= u
    <2> HIDE DEF First
    <2> QED
      BY <1>4, LeastNat
  <1>6. s \in Oldest
    <2>1. s \in Used /\ s \in Nat /\ time(s) = t
      BY <1>1, <1>5
    <2>2. ASSUME NEW u \in Used \ {s}
          PROVE  time(s) < time(u) \/ (time(s) = time(u) /\ s < u)
      <3>1. u \in Nat /\ time(u) \in Nat /\ time(s) \in Nat /\ time(u) \in Ages /\ u # s
        BY <1>1, <2>1
      <3>2. time(s) <= time(u)
        BY <1>3, <2>1, <3>1
      <3>3. time(s) = time(u) => s <= u
        BY <1>5, <2>1, <3>1
      <3> HIDE DEF time
      <3> QED
        BY <2>1, <3>1, <3>2, <3>3
    <2> QED
      BY <2>1, <2>2 DEF Oldest
  <1> QED
    BY <1>6

-----------------------------------------------------------------------------

(***************************************************************************)
(* The steps that leave the batch alone, and those that end an event.      *)
(***************************************************************************)
LEMMA AliveMoves ==
    ASSUME Alive, events' = events, orphans' = orphans, Used' = Used,
           pc \notin {"accept", "down", "assert_conn_fd"},
           pc' \notin {"accept", "assert_conn_fd", "assert_min_conn", "assert_in_use"}
    PROVE  Alive'
  BY DEF Alive

LEMMA AliveTail ==
    ASSUME Alive, BatchOK, events # <<>>, EndEvent, StaysTerminated,
           orphans \subseteq orphans',
           \A a \in 1 .. Len(events) : a # 1 =>
               events[a].data \in Used' \cup orphans' \cup {MAX_INT32}
    PROVE  Alive'
  <1>1. /\ pc' \in {"wait", "next"}
        /\ Len(events') \in Nat
        /\ \A a \in 1 .. Len(events') :
              /\ a + 1 \in 1 .. Len(events) /\ a + 1 # 1
              /\ events'[a] = events[a + 1]
    BY BatchTail
  <1>2. ASSUME NEW a \in 1 .. Len(events'), NEW b \in 1 .. Len(events'),
               events'[a].data = events'[b].data, events'[a].data \notin orphans'
        PROVE  a = b
    <2>1. a + 1 = b + 1
      BY <1>1, <1>2 DEF Alive
    <2> QED
      BY <1>1, <2>1
  <1>3. \A a \in 1 .. Len(events') : events'[a].data \in Used' \cup orphans' \cup {MAX_INT32}
    BY <1>1
  <1> QED
    BY <1>1, <1>2, <1>3 DEF Alive

(***************************************************************************)
(* Closing the connection an event is for frees a slot that no later event *)
(* of the batch is for.                                                    *)
(***************************************************************************)
LEMMA AliveClosed ==
    ASSUME Alive, Shape, EInv, events # <<>>, event.data \in Used, free_conn(event.data), EndEvent,
           orphans' = orphans, pc \notin {"accept", "down", "assert_conn_fd"}
    PROVE  Alive'
  <1>1. StaysTerminated /\ Used' = Used \ {event.data}
    BY FreeKeeps DEF EInv
  <1>2. event = events[1] /\ 1 \in 1 .. Len(events)
    BY DEF EInv, BatchOK, event
  <1>3. ASSUME NEW a \in 1 .. Len(events), a # 1
        PROVE  events[a].data \in Used' \cup orphans' \cup {MAX_INT32}
    <2>1. events[a].data \in Used \cup orphans \cup {MAX_INT32}
      BY DEF Alive
    <2>2. events[a].data # event.data \/ events[a].data \in orphans
      BY <1>2, <1>3 DEF Alive
    <2> QED
      BY <1>1, <2>1, <2>2
  <1> QED
    BY <1>1, <1>3, AliveTail DEF EInv

LEMMA EventData ==
    ASSUME BatchOK
    PROVE  /\ DOMAIN events = 1 .. Len(events)
           /\ \A a \in 1 .. Len(events) : events[a].data \in Slots \cup {MAX_INT32}
  <1>1. events \in Seq(EventType)
    BY DEF BatchOK
  <1>2. \A a \in 1 .. Len(events) : events[a] \in EventType
    BY <1>1
  <1>3. \A e \in EventType : e.data \in Slots \cup {MAX_INT32}
    BY DEF EventType
  <1> QED
    BY <1>1, <1>2, <1>3

LEMMA InitAlive == Init => Alive
  BY DEF Init, Alive

LEMMA NextAlive ==
    ASSUME Inv, EInv, Alive, [Next]_vars
    PROVE  Alive'
  <1>1. Shape /\ Scalars /\ Handling /\ (~Aborted => Counted)
    BY DEF Inv
  <1>2. conns' = conns => Used' = Used
    BY DEF Used
  <1>3. ASSUME pc \in {"next", "recv", "hup", "exec", "ran", "reject"}
        PROVE  /\ events # <<>> /\ event = events[1] /\ 1 \in 1 .. Len(events)
               /\ event.data \in Used \cup orphans \cup {MAX_INT32}
    <2>1. events # <<>>
      BY <1>3 DEF EInv, Current
    <2>2. event = events[1] /\ 1 \in 1 .. Len(events)
      BY <2>1 DEF EInv, BatchOK, event
    <2> QED
      BY <1>3, <2>1, <2>2 DEF Alive
  <1>4. ASSUME pc \in {"recv", "hup", "exec", "ran", "reject"}, EndEvent,
               NEW s \in Slots, s = event.data, free_conn(s), orphans' = orphans
        PROVE  Alive'
    BY <1>1, <1>3, <1>4, AliveClosed DEF Handling
  <1>5. CASE EpollWait
    <2>1. /\ epoll_wait(events') /\ pc' = "next" /\ conns' = conns
          /\ orphans' = {interest[c] : c \in heirs \ fds} \ {NoData}
      BY <1>5 DEF EpollWait, table
    <2>2. /\ BatchOK'
          /\ \A a \in 1 .. Len(events') : events'[a].conn # Listener =>
                /\ events'[a].conn \in fds \cup heirs
                /\ events'[a].data = interest[events'[a].conn]
      BY <1>1, <2>1, DeliverBatch DEF EInv
    <2>3. \A a \in 1 .. Len(events') :
             /\ events'[a].data \in Slots \cup {MAX_INT32}
             /\ events'[a].conn = Listener <=> events'[a].data = MAX_INT32
             /\ \A b \in 1 .. Len(events') : events'[a].conn = events'[b].conn => a = b
      <3>1. \A a \in 1 .. Len(events') : events'[a] \in EventType
        BY <2>2 DEF BatchOK
      <3> QED
        BY <2>2, <3>1 DEF BatchOK, EventType
    <2>4. ASSUME NEW a \in 1 .. Len(events'),
                 events'[a].conn # Listener, events'[a].data \notin orphans'
          PROVE  events'[a].data \in Used /\ conns[events'[a].data].fd = events'[a].conn
      <3>1. events'[a].data # NoData
        BY <2>3, ServerAssumption DEF NoData, Slots, MAX_INT32
      <3>2. events'[a].conn \in fds
        BY <2>1, <2>2, <2>4, <3>1
      <3>3. PICK s \in Used : events'[a].conn = conns[s].fd
        BY <1>1, <3>2 DEF Shape, TableOwnsFds
      <3>4. events'[a].data = s
        BY <1>1, <2>2, <2>4, <3>3 DEF Shape, TableOwnsFds
      <3> QED
        BY <3>3, <3>4
    <2>5. \A a \in 1 .. Len(events') : events'[a].data \in Used' \cup orphans' \cup {MAX_INT32}
      BY <1>2, <2>1, <2>3, <2>4
    <2>6. \A a, b \in 1 .. Len(events') :
             events'[a].data = events'[b].data => a = b \/ events'[a].data \in orphans'
      BY <2>3, <2>4
    <2> QED
      BY <2>1, <2>5, <2>6 DEF Alive
  <1>6. CASE EpollSleep
    BY <1>2, <1>6, AliveMoves DEF EpollSleep, svars, Alive
  <1>7. CASE EpollWaitFails
    BY <1>2, <1>7, AliveMoves DEF EpollWaitFails, kvars, table
  <1>8. CASE EvictOldest
    <2>1. /\ pc = "next" /\ conns_total >= MaxConcurrency
          /\ events' = events /\ orphans' = orphans
      BY <1>8 DEF EvictOldest
    <2>2. Used = Slots /\ Slots # {}
      BY <1>1, <2>1, FullTable DEF Aborted
    <2>3. Oldest # {}
      BY <1>1, <2>2, OldestExists
    <2>4. pc' = "accept" /\ \E s \in Oldest : free_conn(s)
      BY <1>8, <2>3 DEF EvictOldest
    <2>5. PICK s \in Used : free_conn(s)
      BY <2>4 DEF Oldest
    <2>6. Used' = Used \ {s}
      BY <1>1, <2>5, FreeKeeps DEF EInv
    <2>7. s \in Slots /\ Used' = Slots \ {s}
      BY <2>2, <2>6
    <2> QED
      BY <2>1, <2>4, <2>6, <2>7 DEF Alive
  <1>9. ASSUME AtAccept
         PROVE  /\ events # <<>> /\ Slots \ Used # {} /\ FirstFree # {}
                /\ \A s \in FirstFree, a \in 1 .. Len(events) :
                      events[a].data \in (Used \cup {s}) \cup orphans \cup {MAX_INT32}
    <2>1. events # <<>>
      BY <1>9, AtListener
    <2>2. \A a \in 1 .. Len(events) : events[a].data \in Slots \cup {MAX_INT32}
      BY EventData DEF EInv
    <2>3. CASE pc = "accept"
      <3>1. PICK t \in Slots : Used = Slots \ {t}
        BY <2>3 DEF Alive
      <3>2. Slots \ Used = {t}
        BY <3>1
      <3>3. FirstFree # {} /\ FirstFree \subseteq {t}
        BY <3>2, FirstFreeExists DEF FirstFree
      <3> QED
        BY <2>1, <2>2, <3>1, <3>2, <3>3
    <2>4. CASE pc = "next" /\ conns_total < MaxConcurrency
      <3>1. Slots \ Used # {}
        BY <1>1, <2>4, FullTable DEF Aborted
      <3> QED
        BY <2>1, <2>4, <3>1, FirstFreeExists DEF Alive
    <2> QED
      BY <1>9, <2>3, <2>4 DEF AtAccept
  <1>10. CASE AcceptFails
    <2>1. /\ AtAccept /\ EndEvent /\ UNCHANGED kvars /\ conns' = conns
          /\ orphans' = IF pc = "accept" THEN orphans \cup (Slots \ Used) ELSE orphans
      BY <1>10 DEF AcceptFails, table
    <2>2. StaysTerminated
      BY <1>1, <2>1, KernelKept DEF EInv
    <2>3. ASSUME NEW a \in 1 .. Len(events)
          PROVE  events[a].data \in Used' \cup orphans' \cup {MAX_INT32}
      <3>1. CASE pc = "accept"
        <4>1. events[a].data \in Slots \cup {MAX_INT32}
          BY EventData DEF EInv
        <4> QED
          BY <1>2, <2>1, <3>1, <4>1
      <3>2. CASE pc = "next"
        BY <1>2, <2>1, <3>2 DEF Alive
      <3> QED
        BY <2>1, <3>1, <3>2 DEF AtAccept
    <2> QED
      BY <1>9, <2>1, <2>2, <2>3, AliveTail DEF EInv
  <1>11. CASE Accept
    <2>1. AtAccept /\ EndEvent /\ Admit /\ orphans' = orphans
      BY <1>11 DEF Accept, Admit
    <2>2. StaysTerminated /\ \E s \in FirstFree : Used' = Used \cup {s}
      BY <1>1, <2>1, AdmitKeeps DEF EInv
    <2>3. \A a \in 1 .. Len(events) :
             events[a].data \in Used' \cup orphans' \cup {MAX_INT32}
      BY <1>9, <2>1, <2>2
    <2> QED
      BY <1>9, <2>1, <2>2, <2>3, AliveTail DEF EInv
  <1>12. CASE AcceptAborts
    <2>1. /\ AtAccept /\ pc' = "assert_conn_fd" /\ conns' = conns
          /\ events' = events /\ orphans' = orphans
      BY <1>12 DEF AcceptAborts
    <2>2. FirstFree' # {}
      BY <1>2, <1>9, <2>1 DEF FirstFree
    <2> QED
      BY <2>1, <2>2 DEF Alive
  <1>13. CASE ConnEvent
    <2>1. /\ pc = "next" /\ conns' = conns /\ events' = events /\ orphans' = orphans
          /\ event' = event
      BY <1>13 DEF ConnEvent, table, event
    <2>2. event.data \in Used \cup orphans /\ event.data \in Slots
      BY <1>1, <1>3, <1>13 DEF ConnEvent, Used, Scalars
    <2>3. CASE event.data \in Used
      <3>1. pc' \in {"recv", "hup"}
        BY <1>13, <2>2, <2>3 DEF ConnEvent
      <3> QED
        BY <1>2, <2>1, <3>1, AliveMoves
    <2>4. CASE event.data \notin Used
      <3>1. pc' = "assert_in_use" /\ event.data \in orphans
        BY <1>13, <2>2, <2>4 DEF ConnEvent
      <3> QED
        BY <1>2, <2>1, <3>1 DEF Alive
    <2> QED
      BY <2>3, <2>4
  <1>14. CASE Recv
    <2>1. PICK s \in Slots :
              /\ s = event.data
              /\ RecvData(s) \/ RecvTooMuch(s) \/ RecvNothing(s) \/ RecvError(s)
      BY <1>14 DEF Recv
    <2>2. pc = "recv" /\ s \in Used /\ orphans' = orphans
      BY <1>1, <1>14, <2>1 DEF Recv, Handling
    <2>3. CASE RecvData(s)
      <3>1. /\ pc' = pc /\ events' = events
            /\ \E n, c : conns' = [conns EXCEPT ![s] = Grown(conns[s], n, c)]
        BY <2>3 DEF RecvData, Store
      <3>2. \A t \in Slots : conns'[t].fd = conns[t].fd
        BY <1>1, <3>1 DEF Shape, ConnType, Grown, Extended
      <3>3. Used' = Used
        BY <3>2 DEF Used
      <3> QED
        BY <2>2, <3>1, <3>3, AliveMoves
    <2>4. CASE RecvTooMuch(s)
      BY <1>4, <2>1, <2>2, <2>4 DEF RecvTooMuch
    <2>5. CASE RecvNothing(s)
      BY <1>2, <2>2, <2>5, AliveMoves DEF RecvNothing, kvars, table
    <2>6. CASE RecvError(s)
      BY <1>4, <2>1, <2>2, <2>6 DEF RecvError
    <2> QED
      BY <2>1, <2>3, <2>4, <2>5, <2>6
  <1>15. CASE Authenticate
    <2>1. pc = "hup" /\ conns' = conns /\ events' = events /\ orphans' = orphans
      BY <1>15 DEF Authenticate, table
    <2>2. pc' \in {"exec", "reject", "return"}
      BY <1>15, AuthenticateMoves
    <2> QED
      BY <1>2, <2>1, <2>2, AliveMoves
  <1>16. CASE ExecScript
    <2>1. /\ pc = "exec" /\ pc' = "ran" /\ conns' = conns
          /\ events' = events /\ orphans' = orphans
      BY <1>16 DEF ExecScript, table
    <2> QED
      BY <1>2, <2>1, AliveMoves
  <1>17. CASE ExecFails
    BY <1>2, <1>17, AliveMoves DEF ExecFails, kvars, table
  <1>18. CASE CloseVerified
    BY <1>4, <1>18 DEF CloseVerified
  <1>19. CASE CloseOnError
    BY <1>4, <1>19 DEF CloseOnError
  <1>20. CASE KeepOpen
    <2>1. pc = "hup" /\ EndEvent /\ UNCHANGED kvars /\ conns' = conns /\ orphans' = orphans
      BY <1>20 DEF KeepOpen, table
    <2>2. StaysTerminated
      BY <1>1, <2>1, KernelKept DEF EInv
    <2>3. \A a \in 1 .. Len(events) :
             events[a].data \in Used' \cup orphans' \cup {MAX_INT32}
      BY <1>2, <2>1 DEF Alive
    <2> QED
      BY <1>3, <2>1, <2>2, <2>3, AliveTail DEF EInv
  <1>21. CASE FreeAll
    BY <1>21 DEF FreeAll, Alive
  <1>22. CASE ClientStep \/ UNCHANGED vars
    <2>1. /\ conns' = conns /\ events' = events /\ pc' = pc /\ orphans' = orphans
          /\ event' = event
      BY <1>22 DEF ClientStep, vars, svars, event
    <2>2. FirstFree' = FirstFree
      BY <1>2, <2>1 DEF FirstFree
    <2> QED
      BY <1>2, <2>1, <2>2 DEF Alive
  <1> QED
    BY <1>5, <1>6, <1>7, <1>8, <1>10, <1>11, <1>12, <1>13, <1>14, <1>15, <1>16, <1>17,
       <1>18, <1>19, <1>20, <1>21, <1>22 DEF Next, ServerStep

(***************************************************************************)
(* For every number of connections and slots, every batch size, every      *)
(* order of the clients' steps, every failing system call and every script *)
(* that leaves a process behind: a full table has an oldest connection, an *)
(* accepted connection has a free slot (so that only epoll_ctl can make    *)
(* the assertion at main.c:305 fail), and an event finds its slot in use,  *)
(* because the slot freed for a new connection is taken by it before the   *)
(* rest of the batch is handled, unless accept failed after the eviction   *)
(* or a background process kept a closed connection registered.            *)
(***************************************************************************)
THEOREM AssertionsExplained == Spec => []AssertionsHold
  <1>1. Inv /\ EInv /\ Alive /\ [Next]_vars => Alive'
    BY NextAlive
  <1>2. EInv /\ Alive => AssertionsHold
    <2> SUFFICES ASSUME EInv, Alive PROVE AssertionsHold
      OBVIOUS
    <2>1. \A k \in DOMAIN events : events[k].data \in Slots \cup {MAX_INT32}
      BY EventData DEF EInv
    <2> QED
      BY <2>1 DEF Alive, AssertionsHold
  <1> QED
    BY <1>1, <1>2, InitAlive, EventsInvariance, PTL DEF Spec

=============================================================================
