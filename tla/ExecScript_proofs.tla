-------------------------- MODULE ExecScript_proofs --------------------------
(***************************************************************************)
(* Proofs about exec_script, for scripts of any size, any capacity of the  *)
(* pipe and any failing system calls.                                      *)
(***************************************************************************)
EXTENDS ExecScript, TLAPS

(***************************************************************************)
(* Which process holds which end of the pipe, by what each is doing.       *)
(***************************************************************************)
Ends ==
    /\ "server" \in readers <=> pc \in {"fork", "announce", "write", "close_read"}
    /\ "server" \in writers <=>
          pc \in {"fork", "announce", "write", "close_read", "close_write"}
    /\ "child" \in readers <=> child \in {"forked", "redirected", "bash"}
    /\ "child" \in writers <=> child = "forked"

(***************************************************************************)
(* How far the child can be when the server is where it is.                *)
(***************************************************************************)
Phases ==
    /\ pc \in {"pipe", "fork"} => child = "none"
    /\ child = "none" => pc \in {"pipe", "fork", "returned"}
    /\ pc = "returned" => child = "none" \/ Exited
    /\ child = "finished" => pipe = 0 /\ pc \in {"waitpid", "returned"}

(***************************************************************************)
(* Every byte written is in the pipe or has been read, nothing is written  *)
(* before the status line, and the loop over the script is left only at    *)
(* its end or after a failed write.                                        *)
(***************************************************************************)
Bytes ==
    /\ i = consumed + pipe
    /\ pc \in {"pipe", "fork", "announce"} => i = 0
    /\ pc = "write" => announced
    /\ i > 0 => announced
    /\ pc \in {"close_read", "close_write", "waitpid", "returned"} =>
          child = "none" \/ failed \/ i = script_size

IInv == TypeOK /\ Ends /\ Phases /\ Bytes

-----------------------------------------------------------------------------

LEMMA InitInv == Init => IInv
  <1> SUFFICES ASSUME Init PROVE IInv
    OBVIOUS
  <1>1. TypeOK
    <2>1. script_size \in 0 .. MaxSize /\ MaxSize \in Nat
      BY ExecScriptAssumption DEF Init
    <2>2. stop \in 0 .. script_size
      <3>1. CASE script_size = 0
        BY <3>1 DEF Init
      <3>2. CASE script_size # 0
        BY <2>1, <3>2 DEF Init
      <3> QED
        BY <3>1, <3>2
    <2>3. /\ pc = "pipe" /\ i = 0 /\ announced = FALSE /\ failed = FALSE
          /\ pipe = 0 /\ readers = {} /\ writers = {} /\ child = "none" /\ consumed = 0
      BY DEF Init
    <2>4. i \in 0 .. script_size /\ consumed \in 0 .. stop /\ pipe \in 0 .. PipeCap
      BY <2>1, <2>2, <2>3, ExecScriptAssumption
    <2> QED
      BY <2>1, <2>2, <2>3, <2>4 DEF TypeOK
  <1>2. Ends /\ Phases /\ Bytes
    BY DEF Init, Ends, Phases, Bytes
  <1> QED
    BY <1>1, <1>2 DEF IInv

(***************************************************************************)
(* The steps of the server.                                                *)
(***************************************************************************)
LEMMA ServerInv ==
    ASSUME IInv, Server
    PROVE  IInv'
  <1> USE ExecScriptAssumption DEF IInv, TypeOK, Ends, Phases, Bytes, Exited, script, pipes
  <1>1. CASE Pipe
    BY <1>1 DEF Pipe
  <1>2. CASE PipeFails
    BY <1>2 DEF PipeFails
  <1>3. CASE Fork
    BY <1>3 DEF Fork, Forks
  <1>4. CASE ForkFails
    BY <1>4 DEF ForkFails, GiveUp
  <1>5. CASE Announce
    BY <1>5 DEF Announce, StatusLine
  <1>6. CASE Write
    BY <1>6 DEF Write
  <1>7. CASE WriteFails
    BY <1>7 DEF WriteFails
  <1>8. CASE WriteDone
    BY <1>8 DEF WriteDone, LoopEnds
  <1>9. CASE CloseRead
    BY <1>9 DEF CloseRead
  <1>10. CASE CloseWrite
    BY <1>10 DEF CloseWrite
  <1>11. CASE WaitPid
    BY <1>11 DEF WaitPid
  <1> QED
    BY <1>1, <1>2, <1>3, <1>4, <1>5, <1>6, <1>7, <1>8, <1>9, <1>10, <1>11 DEF Server

(***************************************************************************)
(* The steps of the child.                                                 *)
(***************************************************************************)
LEMMA ChildInv ==
    ASSUME IInv, Child
    PROVE  IInv'
  <1> USE ExecScriptAssumption
      DEF IInv, TypeOK, Ends, Phases, Bytes, Exited, script, parent
  <1>1. CASE ChildRedirects
    BY <1>1 DEF ChildRedirects, Redirect
  <1>2. CASE ChildExecs
    BY <1>2 DEF ChildExecs
  <1>3. CASE ChildFails
    BY <1>3 DEF ChildFails, ChildEnds
  <1>4. CASE BashReads
    BY <1>4 DEF BashReads
  <1>5. CASE BashFinishes
    BY <1>5 DEF BashFinishes, ChildEnds
  <1>6. CASE BashExits
    BY <1>6 DEF BashExits, ChildEnds
  <1> QED
    BY <1>1, <1>2, <1>3, <1>4, <1>5, <1>6 DEF Child

LEMMA NextInv == IInv /\ [Next]_vars => IInv'
  <1> SUFFICES ASSUME IInv, [Next]_vars PROVE IInv'
    OBVIOUS
  <1>1. CASE UNCHANGED vars
    BY <1>1 DEF vars, IInv, TypeOK, Ends, Phases, Bytes, Exited
  <1> QED
    BY <1>1, ServerInv, ChildInv DEF Next

LEMMA Invariance == Spec => []IInv
  BY InitInv, NextInv, PTL DEF Spec

-----------------------------------------------------------------------------

(***************************************************************************)
(* The call's state keeps its types.  In particular the server is never    *)
(* killed by SIGPIPE: it keeps in_pipe[0] open until it has written all of *)
(* the script, whatever becomes of the child.                              *)
(***************************************************************************)
THEOREM TypeCorrect == Spec => []TypeOK
  BY Invariance, PTL DEF IInv

(***************************************************************************)
(* The child closes its copy of in_pipe[1] before it becomes bash, and the *)
(* server its own only after the write loop: bash finds the end of its     *)
(* input only behind the last byte that was written.                       *)
(***************************************************************************)
THEOREM RunsEntireScript == Spec => []EntireScript
  <1>1. IInv => EntireScript
    BY DEF IInv, TypeOK, Phases, Bytes, EntireScript
  <1> QED
    BY <1>1, Invariance, PTL

(***************************************************************************)
(* The status line is flushed before the first byte of the script is       *)
(* written, so no output of the script can precede it.                     *)
(***************************************************************************)
THEOREM AnnouncesFirst == Spec => []AnnouncedFirst
  <1>1. IInv => AnnouncedFirst
    BY DEF IInv, TypeOK, Bytes, AnnouncedFirst
  <1> QED
    BY <1>1, Invariance, PTL

(***************************************************************************)
(* On every path out of exec_script, the failed ones too, both ends of the *)
(* pipe are closed in the server and the child has been waited for.        *)
(***************************************************************************)
THEOREM LeavesNothingBehind == Spec => []NothingLeftBehind
  <1>1. IInv => NothingLeftBehind
    BY DEF IInv, Ends, Phases, NothingLeftBehind
  <1> QED
    BY <1>1, Invariance, PTL

(***************************************************************************)
(* The server blocks in write, or in waitpid, while the child is blocked   *)
(* or gone, only if the child ended with more of the script unread than a  *)
(* pipe holds.  Because in_pipe[1] is closed in the child before it is     *)
(* bash, and in the server before waitpid, waitpid never waits for a bash  *)
(* that waits for input; and while write waits, bash has input.            *)
(***************************************************************************)
THEOREM WaitsOnlyIfStuck == Spec => []NoMutualWait
  <1>1. IInv => NoMutualWait
    <2> SUFFICES ASSUME IInv, ServerWaits, ChildWaits PROVE Stuck
      BY DEF NoMutualWait
    <2>1. CASE pc = "write" /\ i < script_size /\ readers # {} /\ pipe = PipeCap
      <3>1. Exited
        BY <2>1, ExecScriptAssumption DEF IInv, Phases, ChildWaits
      <3>2. script_size - consumed > PipeCap
        BY <2>1, ExecScriptAssumption DEF IInv, TypeOK, Bytes
      <3> QED
        BY <3>1, <3>2 DEF Stuck
    <2>2. CASE pc = "waitpid" /\ ~Exited
      <3>1. child = "bash" /\ writers # {}
        BY <2>2 DEF IInv, Phases, ChildWaits
      <3>2. "server" \notin writers /\ "child" \notin writers
        BY <2>2, <3>1 DEF IInv, Ends
      <3> QED
        BY <3>1, <3>2 DEF IInv, TypeOK
    <2> QED
      BY <2>1, <2>2 DEF ServerWaits
  <1> QED
    BY <1>1, Invariance, PTL

=============================================================================
