----------------------------- MODULE ByteStream -----------------------------
(***************************************************************************)
(* What a SplitFile promises to the threads around it: one producer        *)
(* appends bytes to a stream and closes it once; any number of readers ask *)
(* for ranges of it while it grows.  A reply carries a prefix of the range *)
(* asked for, made of bytes the producer has already appended; it is       *)
(* shorter than the range only when the stream has been closed.            *)
(*                                                                         *)
(* Blocks, files, semaphores and the deletion of what was read are gone:   *)
(* module SplitFile is shown to implement this one.  A byte is named by    *)
(* its position in the stream.                                             *)
(***************************************************************************)
EXTENDS Integers, Sequences

CONSTANTS
  Readers,    (* the threads that read the stream *)
  StreamLen   (* the number of bytes the producer has to offer *)

VARIABLES
  written,    (* bytes appended so far *)
  closed,     (* the stream will not grow any more *)
  request     (* per reader: the range asked for and the reply, if any *)

vars == <<written, closed, request>>

Positions(from, n) == [i \in 1..n |-> from + i - 1]

Request == [state : {"idle", "pending", "replied"},
            off : Nat, len : Nat, reply : Seq(Nat)]

Idle == [state |-> "idle", off |-> 0, len |-> 0, reply |-> <<>>]

TypeOK ==
  /\ written \in 0..StreamLen
  /\ closed \in BOOLEAN
  /\ request \in [Readers -> Request]

Init ==
  /\ written = 0
  /\ closed = FALSE
  /\ request = [r \in Readers |-> Idle]

Extend ==
  /\ ~closed
  /\ written' \in (written + 1)..StreamLen
  /\ UNCHANGED <<closed, request>>

Close ==
  /\ ~closed
  /\ closed' = TRUE
  /\ UNCHANGED <<written, request>>

(* A range may reach past what has been written, even past the end. *)
Ask(r) ==
  /\ request[r].state # "pending"
  /\ \E off \in 0..StreamLen, len \in 1..StreamLen :
       request' = [request EXCEPT ![r] = [state |-> "pending", off |-> off,
                                          len |-> len, reply |-> <<>>]]
  /\ UNCHANGED <<written, closed>>

Reply(r) ==
  /\ request[r].state = "pending"
  /\ \E n \in 0..request[r].len :
       /\ n > 0 => request[r].off + n <= written
       /\ n < request[r].len => closed
       /\ request' = [request EXCEPT ![r].state = "replied",
                                     ![r].reply = Positions(request[r].off, n)]
  /\ UNCHANGED <<written, closed>>

Forget(r) ==
  /\ request[r].state = "replied"
  /\ request' = [request EXCEPT ![r] = Idle]
  /\ UNCHANGED <<written, closed>>

Next ==
  \/ Extend
  \/ Close
  \/ \E r \in Readers : Ask(r) \/ Reply(r) \/ Forget(r)

Spec == Init /\ [][Next]_vars
=============================================================================
