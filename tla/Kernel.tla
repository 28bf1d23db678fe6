------------------------------- MODULE Kernel -------------------------------
(***************************************************************************)
(* The part of Linux the server relies on, modelled from the calls in      *)
(* main.c: the clients' TCP connections, the listening socket's accept     *)
(* queue, the server's connection descriptors, and the epoll instance with *)
(* its registrations and its first-in first-out list of ready items.       *)
(*                                                                         *)
(* A connection is named by a positive number, which also stands for its   *)
(* descriptor.  Each client carries out one connection.                    *)
(***************************************************************************)
EXTENDS Integers, SequencesExt

CONSTANTS
    NConns,     \* number of connections clients may open
    MsgSize,    \* number of bytes the client of each connection sends
    Resetters,  \* connections whose client may reset them
    TcpBacklog, \* TCP_BACKLOG
    MaxEvents   \* MAX_EPOLL_EVENTS

Conns == 1 .. NConns
Listener == 0
NoData == -1
MAX_INT32 == 2147483647

ASSUME KernelAssumption ==
    /\ NConns \in Nat
    /\ MsgSize \in [Conns -> Nat]
    /\ Resetters \subseteq Conns
    /\ TcpBacklog \in Nat
    /\ MaxEvents \in Nat \ {0}

VARIABLES
    peer,       \* what the client of each connection has done
    sent,       \* bytes it has sent
    inq,        \* bytes received by the kernel and not yet read
    backlog,    \* connections waiting in the accept queue
    fds,        \* connections whose descriptor the server has open
    heirs,      \* connections a background process of a script has inherited
    interest,   \* user data of each connection's epoll registration
    ready       \* epoll's ready list

tcp   == <<peer, sent, inq>>
epoll == <<interest, ready>>
kvars == <<peer, sent, inq, backlog, fds, heirs, interest, ready>>

PeerStates == {"idle", "open", "fin", "resetting", "reset", "gone"}

KernelInit ==
    /\ peer = [c \in Conns |-> "idle"]
    /\ sent = [c \in Conns |-> 0]
    /\ inq = [c \in Conns |-> 0]
    /\ backlog = <<>>
    /\ fds = {}
    /\ heirs = {}
    /\ interest = [c \in Conns |-> NoData]
    /\ ready = <<>>

(***************************************************************************)
(* The elements of a sequence at some of its positions, in their order:    *)
(* the k-th of them is at the position that has k of the positions up to   *)
(* and including it.                                                       *)
(***************************************************************************)
Nth(positions, k) ==
    CHOOSE p \in positions : Cardinality({q \in positions : q <= p}) = k

Pick(s, positions) == [k \in 1 .. Cardinality(positions) |-> s[Nth(positions, k)]]

(***************************************************************************)
(* The events of an item that epoll_wait would report now.  The listening  *)
(* socket is registered for EPOLLIN, a connection for EPOLLIN and          *)
(* EPOLLRDHUP; EPOLLERR and EPOLLHUP are always reported.  While a reset   *)
(* is being processed the error may be seen before the hang-up.            *)
(***************************************************************************)
Events(x) ==
    IF x = Listener
      THEN {e \in {"IN"} : backlog # <<>>}
      ELSE {e \in {"IN"} : inq[x] > 0 \/ peer[x] \in {"fin", "reset"}} \cup
           {e \in {"RDHUP"} : peer[x] \in {"fin", "reset"}} \cup
           {e \in {"HUP"} : peer[x] = "reset"} \cup
           {e \in {"ERR"} : peer[x] \in {"resetting", "reset"}}

Registered(x) == x = Listener \/ interest[x] # NoData

Wake(x) ==
    ready' = IF Registered(x) /\ ~Contains(ready, x) THEN Append(ready, x) ELSE ready

-----------------------------------------------------------------------------

(***************************************************************************)
(* The clients and the network.                                            *)
(***************************************************************************)
Connect(c) ==
    /\ peer[c] = "idle"
    /\ Len(backlog) <= TcpBacklog
    /\ peer' = [peer EXCEPT ![c] = "open"]
    /\ backlog' = Append(backlog, c)
    /\ Wake(Listener)
    /\ UNCHANGED <<sent, inq, fds, heirs, interest>>

Send(c, n) ==
    /\ peer[c] = "open"
    /\ sent[c] + n <= MsgSize[c]
    /\ sent' = [sent EXCEPT ![c] = @ + n]
    /\ inq' = [inq EXCEPT ![c] = @ + n]
    /\ Wake(c)
    /\ UNCHANGED <<peer, backlog, fds, heirs, interest>>

(***************************************************************************)
(* The client closes its end, perhaps before it has sent everything.       *)
(***************************************************************************)
Terminate(c) ==
    /\ peer[c] = "open"
    /\ peer' = [peer EXCEPT ![c] = "fin"]
    /\ Wake(c)
    /\ UNCHANGED <<sent, inq, backlog, fds, heirs, interest>>

Reset(c) ==
    /\ c \in Resetters
    /\ peer[c] = "open"
    /\ peer' = [peer EXCEPT ![c] = "resetting"]
    /\ UNCHANGED <<sent, inq, backlog, fds, heirs, interest, ready>>

ResetDone(c) ==
    /\ peer[c] = "resetting"
    /\ peer' = [peer EXCEPT ![c] = "reset"]
    /\ Wake(c)
    /\ UNCHANGED <<sent, inq, backlog, fds, heirs, interest>>

(***************************************************************************)
(* A connection leaves the kernel, and epoll, when the last descriptor to  *)
(* it is closed.                                                           *)
(***************************************************************************)
Vanish(cs) ==
    /\ peer' = [c \in Conns |-> IF c \in cs THEN "gone" ELSE peer[c]]
    /\ sent' = [c \in Conns |-> IF c \in cs THEN 0 ELSE sent[c]]
    /\ inq' = [c \in Conns |-> IF c \in cs THEN 0 ELSE inq[c]]
    /\ interest' = [c \in Conns |-> IF c \in cs THEN NoData ELSE interest[c]]
    /\ ready' = Pick(ready, {p \in 1 .. Len(ready) : ready[p] \notin cs})

BackgroundExits ==
    /\ heirs # {}
    /\ heirs' = {}
    /\ Vanish(heirs \ fds)
    /\ UNCHANGED <<backlog, fds>>

Client ==
    \/ \E c \in Conns :
          \/ Connect(c)
          \/ \E n \in 1 .. MsgSize[c] : Send(c, n)
          \/ Terminate(c)
          \/ Reset(c)
          \/ ResetDone(c)
    \/ BackgroundExits

-----------------------------------------------------------------------------

(***************************************************************************)
(* System calls.                                                           *)
(***************************************************************************)
ReadyNow == {p \in 1 .. Len(ready) : Events(ready[p]) # {}}

(***************************************************************************)
(* epoll_wait walks the ready list until it has filled the caller's array. *)
(* Items with no events are dropped, the reported ones, being level        *)
(* triggered, go to the end of the list.                                   *)
(***************************************************************************)
Batch == {p \in ReadyNow : Cardinality({q \in ReadyNow : q <= p}) <= MaxEvents}

Walked(batch) ==
    IF Cardinality(batch) < MaxEvents THEN Len(ready) ELSE Nth(batch, MaxEvents)

Report(x) ==
    [data   |-> IF x = Listener THEN MAX_INT32 ELSE interest[x],
     events |-> Events(x),
     conn   |-> x]      \* history: the item the event was reported for

Deliver(events, level) ==
    /\ ReadyNow # {}
    /\ \E batch \in {Batch} :
          /\ events = [k \in 1 .. Cardinality(batch) |-> Report(ready[Nth(batch, k)])]
          /\ ready' = SubSeq(ready, Walked(batch) + 1, Len(ready))
                      \o Pick(ready, IF level THEN batch ELSE {})
    /\ UNCHANGED <<tcp, backlog, fds, heirs, interest>>

epoll_wait_edge(events) == Deliver(events, FALSE)    \* mutant: EPOLLET

epoll_wait(events) == Deliver(events, TRUE)

(***************************************************************************)
(* With nothing to report, epoll_wait empties the ready list and sleeps.   *)
(***************************************************************************)
epoll_sleep ==
    /\ ready # <<>>
    /\ ReadyNow = {}
    /\ ready' = <<>>
    /\ UNCHANGED <<tcp, backlog, fds, heirs, interest>>

epoll_add(c, data) ==
    /\ interest' = [interest EXCEPT ![c] = data]
    /\ ready' = IF Events(c) # {} THEN Append(ready, c) ELSE ready

close(c) ==
    /\ fds' = fds \ {c}
    /\ Vanish({c} \ heirs)
    /\ UNCHANGED <<backlog, heirs>>

=============================================================================
