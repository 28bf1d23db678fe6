------------------------------- MODULE Server -------------------------------
(***************************************************************************)
(* The event loop of main_protected, from the first epoll_wait on, with    *)
(* free_conn and free_all: a single thread that takes batches of epoll     *)
(* events, accepts connections into a fixed table, reads each connection   *)
(* until it terminates, and then authenticates and runs what it sent.      *)
(* Clients act between any two system calls of the server.                 *)
(***************************************************************************)
EXTENDS Kernel, PubKeys

CONSTANTS
    MaxConcurrency, \* MAX_CONCURRENCY
    InitCap,        \* KILOBYTE, a buffer's first capacity
    MaxScript,      \* MAX_SCRIPT_SIZE
    Msg,            \* what the client of each connection sends, as a buffer
    ClockSteps,     \* how far clock() may advance between two accepts
    Forking,        \* connections whose script leaves a background process
    Failing         \* system calls that may fail

Slots == 0 .. MaxConcurrency - 1

ASSUME ServerAssumption ==
    /\ MaxConcurrency \in Nat \ {0} /\ MaxConcurrency <= MAX_INT32
    /\ InitCap \in Nat \ {0}
    /\ MaxScript \in Nat \ {0}
    /\ Msg \in [Conns -> Inputs]
    /\ \A c \in Conns : Msg[c].size = MsgSize[c]
    /\ ClockSteps \subseteq Nat
    /\ Forking \subseteq Conns
    /\ Failing \subseteq {"epoll_wait", "accept", "epoll_ctl", "exec"}

VARIABLES
    conns,          \* resources->conns
    conns_total,    \* resources->conns_total
    script_n,       \* resources->script_n
    ring,           \* the keys in resources->keys below keys_size
    clk,            \* clock()
    events,         \* the events of the batch not yet handled
    orphans,        \* history: slots an event of the batch may find unused
    pc              \* where the server is

table == <<conns, conns_total>>
svars == <<conns, conns_total, script_n, ring, clk, events, orphans, pc>>
vars  == <<kvars, svars>>

(***************************************************************************)
(* An unused connection.  buf == NULL exactly when buf_cap = 0.  holds is  *)
(* the set of connections whose bytes are among the first buf_size.        *)
(***************************************************************************)
NoConnection ==
    [fd |-> 0, open_time |-> 0, buf_size |-> 0, buf_cap |-> 0, holds |-> {}]

Init ==
    /\ KernelInit
    /\ conns = [s \in Slots |-> NoConnection]
    /\ conns_total = 0
    /\ script_n = 0
    /\ ring = Certs
    /\ clk = 0
    /\ events = <<>>
    /\ orphans = {}
    /\ pc = "wait"

Aborted == pc \in {"assert_min_conn", "assert_conn_fd", "assert_in_use"}

Up == pc # "down" /\ ~Aborted

-----------------------------------------------------------------------------

(***************************************************************************)
(* epoll_wait.  Connections that only background processes have open are   *)
(* still registered, under the slots they once had.                        *)
(***************************************************************************)
EpollWait ==
    /\ pc = "wait"
    /\ epoll_wait(events')
    /\ pc' = "next"
    /\ orphans' = {interest[c] : c \in heirs \ fds} \ {NoData}
    /\ UNCHANGED <<table, script_n, ring, clk>>

EpollSleep ==
    /\ pc = "wait"
    /\ epoll_sleep
    /\ UNCHANGED svars

EpollWaitFails ==
    /\ pc = "wait"
    /\ "epoll_wait" \in Failing
    /\ pc' = "return"
    /\ UNCHANGED <<kvars, table, script_n, orphans, ring, clk, events>>

(***************************************************************************)
(* On to the next event of the batch, or back to epoll_wait.               *)
(***************************************************************************)
EndEvent ==
    /\ events' = Tail(events)
    /\ pc' = IF Len(events) = 1 THEN "wait" ELSE "next"

event == Head(events)

Leave(s, left, total) ==
    /\ conns' = [conns EXCEPT ![s] = left]
    /\ conns_total' = total

Cleared(conn) ==
    [conn EXCEPT !.fd = 0, !.buf_size = 0, !.holds = {}, !.open_time = 0]

(***************************************************************************)
(* free_conn.  The buffer and its capacity are kept for the next user.     *)
(***************************************************************************)
FreeKeepsBytes(s) ==        \* mutant: buf_size is not reset
    /\ close(conns[s].fd)
    /\ Leave(s, [conns[s] EXCEPT !.fd = 0, !.open_time = 0], conns_total - 1)

FreeKeepsCount(s) ==        \* mutant: conns_total is not decremented
    close(conns[s].fd) /\ Leave(s, Cleared(conns[s]), conns_total)

FreeCountsTwice(s) ==       \* mutant: the caller decrements it as well
    close(conns[s].fd) /\ Leave(s, Cleared(conns[s]), conns_total - 2)

FreeLeaksFd(s) ==           \* mutant: the descriptor is not closed
    UNCHANGED kvars /\ Leave(s, Cleared(conns[s]), conns_total - 1)

free_conn(s) ==
    /\ close(conns[s].fd)
    /\ Leave(s, Cleared(conns[s]), conns_total - 1)

-----------------------------------------------------------------------------

(***************************************************************************)
(* An event of the listening socket.  A full table first gives up its      *)
(* oldest connection; among equally old ones the lowest index.             *)
(***************************************************************************)
Used == {s \in Slots : conns[s].fd > 0}

Oldest ==
    {s \in Used : \A t \in Used \ {s} :
        \/ conns[s].open_time < conns[t].open_time
        \/ conns[s].open_time = conns[t].open_time /\ s < t}

EvictWithoutAccept ==       \* mutant: the event ends with the eviction
    /\ pc = "next"
    /\ event.data = MAX_INT32
    /\ conns_total >= MaxConcurrency
    /\ \E s \in Oldest : free_conn(s)
    /\ EndEvent
    /\ UNCHANGED <<script_n, orphans, ring, clk>>

EvictOldest ==
    /\ pc = "next"
    /\ event.data = MAX_INT32
    /\ conns_total >= MaxConcurrency
    /\ IF Oldest = {}
         THEN pc' = "assert_min_conn" /\ UNCHANGED <<kvars, table>>
         ELSE pc' = "accept" /\ \E s \in Oldest : free_conn(s)
    /\ UNCHANGED <<script_n, orphans, ring, clk, events>>

AtAccept ==
    \/ pc = "accept"
    \/ pc = "next" /\ event.data = MAX_INT32 /\ conns_total < MaxConcurrency

(***************************************************************************)
(* A failing accept ends the event.  The slot of a connection evicted for  *)
(* it stays unused, whatever else the batch holds for it.                  *)
(***************************************************************************)
AcceptFails ==
    /\ AtAccept
    /\ "accept" \in Failing
    /\ EndEvent
    /\ orphans' = IF pc = "accept" THEN orphans \cup (Slots \ Used) ELSE orphans
    /\ UNCHANGED <<kvars, table, script_n, ring, clk>>

(***************************************************************************)
(* The lowest unused slot takes the connection.  If there were none, or    *)
(* if epoll refuses the registration, conn_fd stays set and the assertion  *)
(* after the search fails.                                                 *)
(***************************************************************************)
FirstFree == {s \in Slots \ Used : \A t \in Slots \ Used : s <= t}

Opened(conn, c, now) ==
    [conn EXCEPT !.fd = c,
                 !.open_time = now,
                 !.buf_cap = IF conn.buf_cap = 0 THEN InitCap ELSE conn.buf_cap]

Admit ==
    /\ AtAccept
    /\ backlog # <<>>
    /\ backlog' = Tail(backlog)
    /\ fds' = fds \cup {Head(backlog)}
    /\ conns_total' = conns_total + 1
    /\ \E s \in FirstFree :
          /\ epoll_add(Head(backlog), s)
          /\ clk' \in {clk + d : d \in ClockSteps}
          /\ conns' = [conns EXCEPT ![s] = Opened(@, Head(backlog), clk')]
    /\ UNCHANGED <<tcp, heirs, script_n, orphans, ring>>

AcceptAgain == Admit /\ pc' = "accept" /\ UNCHANGED events     \* mutant

Accept == Admit /\ EndEvent

AcceptAborts ==
    /\ AtAccept
    /\ backlog # <<>>
    /\ FirstFree = {} \/ "epoll_ctl" \in Failing
    /\ backlog' = Tail(backlog)
    /\ conns_total' = conns_total + 1
    /\ pc' = "assert_conn_fd"
    /\ UNCHANGED <<tcp, fds, heirs, epoll, conns, script_n, orphans, ring, clk,
                   events>>

-----------------------------------------------------------------------------

(***************************************************************************)
(* An event of a connection.  Its slot must be in use; data that is no     *)
(* slot at all ends the server.                                            *)
(***************************************************************************)
ConnEvent ==
    /\ pc = "next"
    /\ event.data # MAX_INT32
    /\ pc' = CASE event.data \notin Slots     -> "return"
               [] event.data \notin Used      -> "assert_in_use"
               [] event.data \in Used /\ "IN" \in event.events    -> "recv"
               [] event.data \in Used /\ "IN" \notin event.events -> "hup"
    /\ UNCHANGED <<kvars, table, script_n, orphans, ring, clk, events>>

Room(s) == conns[s].buf_cap - conns[s].buf_size

(***************************************************************************)
(* recv returns data: the buffer fills, and is doubled when it is full, or *)
(* the connection is closed when it has sent too much.                     *)
(***************************************************************************)
Extended(conn, n, c, cap) ==
    [conn EXCEPT !.buf_size = conn.buf_size + n,
                 !.holds = conn.holds \cup {c},
                 !.buf_cap = cap]

GrownTooLate(conn, n, c) ==     \* mutant: > for >=
    Extended(conn, n, c, IF conn.buf_size + n > conn.buf_cap THEN 2 * conn.buf_cap
                                                             ELSE conn.buf_cap)

Grown(conn, n, c) ==
    Extended(conn, n, c, IF conn.buf_size + n >= conn.buf_cap THEN 2 * conn.buf_cap
                                                              ELSE conn.buf_cap)

Smaller(a, b) == IF a < b THEN a ELSE b

Store(s) ==
    LET c == conns[s].fd
        n == Smaller(inq[c], Room(s))
    IN  /\ n > 0
        /\ conns[s].buf_size + n < MaxScript
        /\ inq' = [inq EXCEPT ![c] = @ - n]
        /\ conns' = [conns EXCEPT ![s] = Grown(@, n, c)]
        /\ UNCHANGED <<peer, sent, backlog, fds, heirs, epoll, conns_total, events>>

RecvOnce(s) == Store(s) /\ pc' = "hup"      \* mutant: no loop around recv

RecvData(s) == Store(s) /\ UNCHANGED pc

RecvTooMuch(s) ==
    /\ Smaller(inq[conns[s].fd], Room(s)) > 0
    /\ conns[s].buf_size + Smaller(inq[conns[s].fd], Room(s)) >= MaxScript
    /\ free_conn(s)
    /\ EndEvent

(***************************************************************************)
(* recv returns 0, at the end of the stream or for want of room, or fails  *)
(* with EAGAIN because everything has been read.                           *)
(***************************************************************************)
RecvNothing(s) ==
    /\ \/ Room(s) = 0
       \/ inq[conns[s].fd] = 0 /\ peer[conns[s].fd] \in {"open", "fin"}
    /\ pc' = "hup"
    /\ UNCHANGED <<kvars, table, events>>

RecvError(s) ==
    /\ Room(s) > 0
    /\ inq[conns[s].fd] = 0
    /\ peer[conns[s].fd] \in {"resetting", "reset"}
    /\ free_conn(s)
    /\ EndEvent

Recv ==
    /\ pc = "recv"
    /\ \E s \in Slots :
          /\ s = event.data
          /\ \/ RecvData(s)
             \/ RecvTooMuch(s)
             \/ RecvNothing(s)
             \/ RecvError(s)
    /\ UNCHANGED <<script_n, orphans, ring, clk>>

-----------------------------------------------------------------------------

(***************************************************************************)
(* The connection hung up: what it sent is authenticated.  A signature     *)
(* covers the whole script, so it fits only a complete buffer that holds   *)
(* the bytes of this connection and of no other.                           *)
(***************************************************************************)
HungUpFully == "HUP" \in event.events       \* mutant: EPOLLRDHUP is not tested

HungUp == event.events \cap {"RDHUP", "HUP"} # {}

Received(s) ==
    LET msg == Msg[conns[s].fd]
    IN  [size     |-> conns[s].buf_size,
         newlines |-> {n \in msg.newlines : n < conns[s].buf_size},
         signers  |-> IF /\ conns[s].holds = {conns[s].fd}
                         /\ conns[s].buf_size = msg.size
                        THEN msg.signers ELSE {}]

Authenticate ==
    /\ pc = "hup"
    /\ HungUp
    /\ \E s \in Slots, now \in Times :
          /\ s = event.data
          /\ \E r \in PassResults(ring, Received(s), now) :
                /\ ring' = r.ring
                /\ script_n' = IF r.verdict = "hit" THEN script_n + 1 ELSE script_n
                /\ pc' = CASE r.verdict = "hit"     -> "exec"
                           [] r.verdict = "miss"    -> "reject"
                           [] r.verdict = "expired" -> "return"
    /\ UNCHANGED <<kvars, table, clk, events, orphans>>

(***************************************************************************)
(* exec_script, which returns when the script has finished.  The           *)
(* descriptors are not close-on-exec: a process that the script leaves in  *)
(* the background keeps every connection open at that time alive.          *)
(***************************************************************************)
ExecScript ==
    /\ pc = "exec"
    /\ \E s \in Slots :
          /\ s = event.data
          /\ heirs' = IF conns[s].fd \in Forking THEN heirs \cup fds ELSE heirs
    /\ pc' = "ran"
    /\ UNCHANGED <<tcp, backlog, fds, epoll, table, script_n, orphans, ring, clk,
                   events>>

ExecFails ==
    /\ pc = "exec"
    /\ "exec" \in Failing
    /\ pc' = "ran"
    /\ UNCHANGED <<kvars, table, script_n, orphans, ring, clk, events>>

CloseVerified ==
    /\ pc \in {"ran", "reject"}
    /\ \E s \in Slots :
          /\ s = event.data
          /\ free_conn(s)
    /\ EndEvent
    /\ UNCHANGED <<script_n, orphans, ring, clk>>

(***************************************************************************)
(* No hang-up: close after an error, otherwise wait for more.              *)
(***************************************************************************)
CloseOnError ==
    /\ pc = "hup"
    /\ ~HungUp
    /\ "ERR" \in event.events
    /\ \E s \in Slots : s = event.data /\ free_conn(s)
    /\ EndEvent
    /\ UNCHANGED <<script_n, orphans, ring, clk>>

KeepOpen ==
    /\ pc = "hup"
    /\ ~HungUp
    /\ "ERR" \notin event.events
    /\ EndEvent
    /\ UNCHANGED <<kvars, table, script_n, orphans, ring, clk>>

(***************************************************************************)
(* free_all, after main_protected has returned.                            *)
(***************************************************************************)
FreeAll ==
    /\ pc = "return"
    /\ pc' = "down"
    /\ LET closed == {conns[s].fd : s \in Used}
       IN  /\ fds' = fds \ closed
           /\ Vanish(closed \ heirs)
    /\ conns' = [s \in Slots |-> NoConnection]
    /\ conns_total' = 0
    /\ script_n' = 0
    /\ UNCHANGED <<backlog, heirs, ring, clk, events, orphans>>

-----------------------------------------------------------------------------

ServerStep ==
    \/ EpollWait \/ EpollSleep
    \/ EvictOldest \/ AcceptFails \/ Accept \/ AcceptAborts
    \/ ConnEvent \/ Recv
    \/ Authenticate \/ ExecScript \/ ExecFails \/ CloseVerified
    \/ CloseOnError \/ KeepOpen
    \/ FreeAll

ClientStep == Up /\ Client /\ UNCHANGED svars

Next == ServerStep \/ EpollWaitFails \/ ClientStep

Spec == Init /\ [][Next]_vars

(***************************************************************************)
(* The server's thread is never blocked for good: epoll_wait returns when  *)
(* an item is ready, and the scripts are assumed to finish.  A reset that  *)
(* has arrived is processed by the kernel, and accept does not fail for    *)
(* ever.  With nothing ready, epoll_wait may also wait for ever: that it   *)
(* fails some day, which would end the server, is not relied on.           *)
(***************************************************************************)
FairSpec ==
    /\ Spec
    /\ WF_vars(ServerStep)
    /\ SF_vars(Accept)
    /\ \A c \in Conns : WF_vars(Up /\ ResetDone(c) /\ UNCHANGED svars)

-----------------------------------------------------------------------------

TypeOK ==
    /\ conns \in [Slots -> [fd : Conns \cup {0}, open_time : Nat, buf_size : Nat,
                            buf_cap : Nat, holds : SUBSET Conns]]
    /\ conns_total \in Nat
    /\ script_n \in Nat
    /\ ring \in SUBSET Certs
    /\ clk \in Nat
    /\ orphans \in SUBSET Slots
    /\ pc \in {"wait", "next", "accept", "recv", "hup", "exec", "ran", "reject",
               "return", "down", "assert_min_conn", "assert_conn_fd", "assert_in_use"}
    /\ peer \in [Conns -> PeerStates]
    /\ sent \in [Conns -> Nat]
    /\ inq \in [Conns -> Nat]
    /\ backlog \in Seq(Conns)
    /\ fds \in SUBSET Conns
    /\ heirs \in SUBSET Conns
    /\ interest \in [Conns -> Slots \cup {NoData}]

(***************************************************************************)
(* The counter that decides whether to evict, and on which the assertions  *)
(* on min_conn (main.c:260) and on conn_fd (main.c:305) rest, is the       *)
(* number of slots in use.                                                 *)
(***************************************************************************)
ConnsTotalExact == ~Aborted => conns_total = Cardinality(Used)

(***************************************************************************)
(* No descriptor is leaked or closed behind the table's back: the slots in *)
(* use hold the server's open connections, each once, and each is          *)
(* registered with epoll under the index of its own slot.                  *)
(***************************************************************************)
TableOwnsFds ==
    /\ fds = {conns[s].fd : s \in Used}
    /\ \A s, t \in Used : conns[s].fd = conns[t].fd => s = t
    /\ \A s \in Used : interest[conns[s].fd] = s

(***************************************************************************)
(* A buffer that is reused never carries bytes of an earlier connection    *)
(* into the script of a later one.                                         *)
(***************************************************************************)
OwnBytes == \A s \in Slots : conns[s].holds \subseteq {conns[s].fd}

(***************************************************************************)
(* recv is never asked for 0 bytes: it would return 0, and a connection    *)
(* with data still queued would be taken to have ended.                    *)
(***************************************************************************)
BufRoom == \A s \in Used : Room(s) > 0

(***************************************************************************)
(* What is authenticated in answer to a connection's own hang-up is all    *)
(* that its client sent before it terminated; a connection that was reset  *)
(* is never authenticated.                                                 *)
(***************************************************************************)
Verifying ==
    /\ events # <<>>
    /\ event.data \in Used
    /\ \/ pc \in {"exec", "reject"}
       \/ pc = "hup" /\ HungUp

WholeStream ==
    Verifying /\ event.conn = conns[event.data].fd =>
        LET c == event.conn
        IN  /\ peer[c] = "fin"
            /\ inq[c] = 0
            /\ conns[event.data].buf_size = sent[c]

(***************************************************************************)
(* accept is called on a blocking socket, so it must never find the queue  *)
(* empty: the one thread would hang there and serve nobody.                *)
(***************************************************************************)
AcceptNeverBlocks == AtAccept => backlog # <<>>

(***************************************************************************)
(* Which assertions of the event loop hold, and when the others fail.  A   *)
(* full table always has an oldest connection (main.c:260), an accepted    *)
(* one always finds a free slot (main.c:305 fails only when epoll_ctl      *)
(* does), and epoll never returns data that is no slot (main.c:396).  An   *)
(* event finds its slot in use (main.c:309), although earlier events of    *)
(* the batch may have closed connections, with two exceptions: the slot    *)
(* was emptied for a new connection which accept then failed to deliver    *)
(* (main.c:269-272), or the event is that of a closed connection which a   *)
(* background process of a script keeps registered.                        *)
(***************************************************************************)
AssertionsHold ==
    /\ pc # "assert_min_conn"
    /\ pc = "assert_conn_fd" => FirstFree # {}
    /\ pc = "assert_in_use" => event.data \in orphans
    /\ \A k \in DOMAIN events : events[k].data \in Slots \cup {MAX_INT32}

(***************************************************************************)
(* Every accepted connection that terminates is eventually disposed of,    *)
(* although the ready items may be more than fit one batch (main.c:240),   *)
(* and the accepts that come in between may evict others.                  *)
(***************************************************************************)
TerminatedIsResolved ==
    \A c \in Conns : c \in fds /\ peer[c] \in {"fin", "reset"} ~> c \notin fds \/ ~Up

(***************************************************************************)
(* Every connection waiting in the accept queue is eventually accepted,    *)
(* with one accept per event of the listening socket (main.c:248-305): a   *)
(* full table gives up its oldest connection, and ready connections that   *)
(* fill the batches do not keep the listening socket out of them for ever. *)
(***************************************************************************)
BacklogIsServed ==
    \A c \in Conns : Contains(backlog, c) ~> ~Contains(backlog, c) \/ ~Up

(***************************************************************************)
(* "The server will only attempt to verify and run the bash script after   *)
(* the TCP connection terminates" (readme.md:65).                          *)
(***************************************************************************)
VerifiedAfterTermination ==
    Verifying => peer[conns[event.data].fd] # "open"

=============================================================================
