----------------------------- MODULE ExecScript -----------------------------
(***************************************************************************)
(* exec_script: the server forks a child that becomes bash with the pipe   *)
(* as its standard input, writes the script into the pipe, closes it and   *)
(* waits for the child.                                                    *)
(*                                                                         *)
(* Server treats the call as one step; this module is what happens inside. *)
(* The script is the number of its bytes and the point at which bash stops *)
(* reading it: the size, unless the script says exit (or exec) earlier.    *)
(***************************************************************************)
EXTENDS Integers

CONSTANTS
    PipeCap,    \* capacity of a pipe
    MaxSize,    \* bound on the scripts considered
    Failing     \* system calls that may fail

ASSUME ExecScriptAssumption ==
    /\ PipeCap \in Nat \ {0}
    /\ MaxSize \in Nat
    /\ Failing \subseteq {"pipe", "fork", "dup2", "execlp", "write"}

VARIABLES
    script_size,
    stop,       \* bash reads no further than this
    pc,         \* where the server is in exec_script
    i,          \* bytes of the script written so far
    announced,  \* the status line has been written and flushed
    failed,     \* history: a write to the pipe has failed
    pipe,       \* bytes in the pipe
    readers,    \* processes that hold in_pipe[0] (the child: or its stdin)
    writers,    \* processes that hold in_pipe[1]
    child,      \* what the child process is
    consumed    \* bytes of the script bash has read

script == <<script_size, stop>>
parent == <<pc, i, announced, failed>>
pipes  == <<pipe, readers, writers>>
vars   == <<script_size, stop, pc, i, announced, failed, pipe, readers, writers,
            child, consumed>>

Init ==
    /\ script_size \in 0 .. MaxSize
    /\ stop \in IF script_size = 0 THEN {0} ELSE 1 .. script_size
    /\ pc = "pipe"
    /\ i = 0
    /\ announced = FALSE
    /\ failed = FALSE
    /\ pipe = 0
    /\ readers = {}
    /\ writers = {}
    /\ child = "none"
    /\ consumed = 0

-----------------------------------------------------------------------------

(***************************************************************************)
(* The server.                                                             *)
(***************************************************************************)
Pipe ==
    /\ pc = "pipe"
    /\ pc' = "fork"
    /\ readers' = {"server"}
    /\ writers' = {"server"}
    /\ UNCHANGED <<script, i, announced, failed, pipe, child, consumed>>

PipeFails ==
    /\ pc = "pipe"
    /\ "pipe" \in Failing
    /\ pc' = "returned"
    /\ UNCHANGED <<script, i, announced, failed, pipes, child, consumed>>

Forks(keep) ==
    /\ pc = "fork"
    /\ pc' = "announce"
    /\ child' = "forked"
    /\ readers' = keep \cup {"child"}
    /\ writers' = writers \cup {"child"}
    /\ UNCHANGED <<script, i, announced, failed, pipe, consumed>>

ForkClosesRead == Forks({})     \* mutant: the server closes in_pipe[0] at once

Fork == Forks(readers)

GiveUp(left) ==
    /\ pc = "fork"
    /\ "fork" \in Failing
    /\ pc' = "returned"
    /\ readers' = left
    /\ writers' = left
    /\ UNCHANGED <<script, i, announced, failed, pipe, child, consumed>>

ForkFailsUnclosed == GiveUp({"server"})     \* mutant: the pipe is not closed

ForkFails == GiveUp({})

StatusLine(flushed) ==
    /\ pc = "announce"
    /\ pc' = "write"
    /\ announced' = flushed
    /\ UNCHANGED <<script, i, failed, pipes, child, consumed>>

AnnounceUnflushed == StatusLine(FALSE)      \* mutant: no fflush

Announce == StatusLine(TRUE)

(***************************************************************************)
(* A blocking write proceeds as far as there is room in the pipe.  It      *)
(* would raise SIGPIPE if nobody held the read end, but the server itself  *)
(* holds it until the loop is over.                                        *)
(***************************************************************************)
Write ==
    /\ pc = "write"
    /\ i < script_size
    /\ readers = {} \/ pipe < PipeCap
    /\ IF readers = {}
         THEN pc' = "killed" /\ UNCHANGED <<i, pipe>>
         ELSE i' = i + 1 /\ pipe' = pipe + 1 /\ UNCHANGED pc
    /\ UNCHANGED <<script, announced, failed, readers, writers, child, consumed>>

WriteFails ==
    /\ pc = "write"
    /\ i < script_size
    /\ "write" \in Failing
    /\ pc' = "close_read"
    /\ failed' = TRUE
    /\ UNCHANGED <<script, i, announced, pipes, child, consumed>>

LoopEnds(size) ==
    /\ pc = "write"
    /\ i >= size
    /\ pc' = "close_read"
    /\ UNCHANGED <<script, i, announced, failed, pipes, child, consumed>>

WriteDoneEarly == LoopEnds(script_size - 1)     \* mutant: off by one

WriteDone == LoopEnds(script_size)

CloseRead ==
    /\ pc = "close_read"
    /\ pc' = "close_write"
    /\ readers' = readers \ {"server"}
    /\ UNCHANGED <<script, i, announced, failed, pipe, writers, child, consumed>>

CloseWrite ==
    /\ pc = "close_write"
    /\ pc' = "waitpid"
    /\ writers' = writers \ {"server"}
    /\ UNCHANGED <<script, i, announced, failed, pipe, readers, child, consumed>>

Exited == child \in {"finished", "exited", "failed"}

WaitPid ==
    /\ pc = "waitpid"
    /\ Exited
    /\ pc' = "returned"
    /\ UNCHANGED <<script, i, announced, failed, pipes, child, consumed>>

Server ==
    \/ Pipe \/ PipeFails \/ Fork \/ ForkFails \/ Announce
    \/ Write \/ WriteFails \/ WriteDone
    \/ CloseRead \/ CloseWrite \/ WaitPid

-----------------------------------------------------------------------------

(***************************************************************************)
(* The child.  It redirects its standard input to the pipe and closes both *)
(* original descriptors, then becomes bash.                                *)
(***************************************************************************)
Redirect(closed) ==
    /\ child = "forked"
    /\ child' = "redirected"
    /\ writers' = writers \ closed
    /\ UNCHANGED <<script, parent, pipe, readers, consumed>>

RedirectKeepsPipe == Redirect({})   \* mutant: in_pipe[1] stays open in bash

ChildRedirects == Redirect({"child"})

ChildExecs ==
    /\ child = "redirected"
    /\ child' = "bash"
    /\ UNCHANGED <<script, parent, pipe, readers, writers, consumed>>

ChildEnds(how) ==
    /\ child' = how
    /\ readers' = readers \ {"child"}
    /\ writers' = writers \ {"child"}
    /\ UNCHANGED <<script, parent, pipe, consumed>>

ChildFails ==
    /\ \/ child = "forked" /\ "dup2" \in Failing
       \/ child = "redirected" /\ "execlp" \in Failing
    /\ ChildEnds("failed")

(***************************************************************************)
(* bash reads a pipe one byte at a time, and runs each command as soon as  *)
(* it has read it.                                                         *)
(***************************************************************************)
BashReads ==
    /\ child = "bash"
    /\ pipe > 0
    /\ consumed < stop
    /\ pipe' = pipe - 1
    /\ consumed' = consumed + 1
    /\ UNCHANGED <<script, parent, readers, writers, child>>

BashFinishes ==
    /\ child = "bash"
    /\ pipe = 0
    /\ writers = {}
    /\ ChildEnds("finished")

BashExits ==
    /\ child = "bash"
    /\ stop < script_size
    /\ consumed = stop
    /\ ChildEnds("exited")

Child == ChildRedirects \/ ChildExecs \/ ChildFails \/ BashReads \/ BashFinishes \/ BashExits

-----------------------------------------------------------------------------

Next == Server \/ Child

Spec == Init /\ [][Next]_vars

(***************************************************************************)
(* Both processes are scheduled; the commands of the script end.           *)
(***************************************************************************)
FairSpec == Spec /\ WF_vars(Server) /\ WF_vars(Child)

-----------------------------------------------------------------------------

TypeOK ==
    /\ script_size \in 0 .. MaxSize
    /\ stop \in 0 .. script_size
    /\ pc \in {"pipe", "fork", "announce", "write", "close_read", "close_write",
               "waitpid", "returned"}
    /\ i \in 0 .. script_size
    /\ announced \in BOOLEAN
    /\ failed \in BOOLEAN
    /\ pipe \in 0 .. PipeCap
    /\ readers \subseteq {"server", "child"}
    /\ writers \subseteq {"server", "child"}
    /\ child \in {"none", "forked", "redirected", "bash", "finished", "exited", "failed"}
    /\ consumed \in 0 .. stop

(***************************************************************************)
(* "the entire script will be run" (readme.md:3): bash sees the end of its *)
(* input only after it has read the whole script, or everything that was   *)
(* written before a write failed.                                          *)
(***************************************************************************)
EntireScript ==
    child = "finished" => consumed = IF failed THEN i ELSE script_size

(***************************************************************************)
(* "for it to consistently appear before the script output" (exec.c:43):   *)
(* no command of the script runs before the status line has been flushed.  *)
(***************************************************************************)
AnnouncedFirst == consumed > 0 => announced

(***************************************************************************)
(* Whatever failed, the server holds neither end of the pipe after the     *)
(* call, and the child is gone: scripts run one after the other, and a     *)
(* server that has run many does not run out of descriptors or processes.  *)
(***************************************************************************)
NothingLeftBehind ==
    pc = "returned" => /\ "server" \notin readers \cup writers
                       /\ child = "none" \/ Exited

(***************************************************************************)
(* The child has ended with more of the script unread than the pipe holds. *)
(***************************************************************************)
Stuck == Exited /\ script_size - consumed > PipeCap

(***************************************************************************)
(* A write waits for room and waitpid for the child; bash waits for input  *)
(* as long as anyone, itself included, could still write some.             *)
(***************************************************************************)
ServerWaits ==
    \/ pc = "write" /\ i < script_size /\ readers # {} /\ pipe = PipeCap
    \/ pc = "waitpid" /\ ~Exited

ChildWaits ==
    \/ child = "none" \/ Exited
    \/ child = "bash" /\ pipe = 0 /\ writers # {}

(***************************************************************************)
(* The server never waits for a child that waits for it or is gone, in     *)
(* write (exec.c:50) or in waitpid (exec.c:65), unless the child has ended *)
(* with more unread than the pipe holds.                                   *)
(***************************************************************************)
NoMutualWait == ServerWaits /\ ChildWaits => Stuck

(***************************************************************************)
(* The call returns, unless the child has ended so.                        *)
(***************************************************************************)
ReturnsUnlessStuck == <>(pc = "returned" \/ Stuck)

(***************************************************************************)
(* "This write could deadlock if we ran a command other than bash"         *)
(* (exec.c:47): with bash, the call always returns.                        *)
(***************************************************************************)
AlwaysReturns == <>(pc = "returned")

=============================================================================
