----------------------------- MODULE GateSession -----------------------------
(***************************************************************************)
(* permission_slip/tethers_client.py, GateSession: the host's end of the   *)
(* line-delimited session with the Tethers Gate process.  Every request    *)
(* takes the next request id, is written to the Gate's stdin and then      *)
(* reads exactly ONE response from the queue the reader thread fills.  The *)
(* response counts only if it echoes the id; a response that does not is   *)
(* consumed and refused, and a timeout leaves the late answer in the queue *)
(* for whoever reads next.                                                 *)
(*                                                                         *)
(* An id is a number; NoId stands for a line that answers no request: not  *)
(* JSON, not an object, another schema, no request_id, no status, or the   *)
(* end of the stream.  The payloads are those of the modules above.        *)
(***************************************************************************)
EXTENDS Naturals, Sequences

VARIABLES
    counter,    \* the id of the latest request
    toGate,     \* request frames the Gate has not read
    fromGate,   \* responses read off stdout and not yet taken by a request
    alive,      \* the Gate process runs
    missed      \* history: a request gave up while its answer could still come

sessionVars == <<counter, toGate, fromGate, alive, missed>>

NoId == 0

SessionInit ==
    /\ counter = 0
    /\ toGate = <<>>
    /\ fromGate = <<>>
    /\ alive = TRUE
    /\ missed = FALSE

\* request(): write one frame under a fresh id.  A Gate that has exited reads
\* nothing; the broken pipe is one of the ways in which no answer comes.
Request(operation, ticket, action, word) ==
    /\ counter' = counter + 1
    /\ toGate' = IF alive
         THEN Append(toGate, [id |-> counter + 1, operation |-> operation, ticket |-> ticket,
                              action |-> action, word |-> word])
         ELSE toGate
    /\ UNCHANGED <<fromGate, alive, missed>>

NoRequest == UNCHANGED <<counter, toGate>>

\* _read_response: the head of the queue is this request's answer ...
Answered ==
    /\ fromGate # <<>>
    /\ Head(fromGate).id = counter
    /\ fromGate' = Tail(fromGate)
    /\ UNCHANGED <<alive, missed>>

Answer == Head(fromGate)

\* ... or it is consumed and refused: a late answer to an earlier request, or a
\* line that names none ...
Unusable ==
    /\ fromGate # <<>>
    /\ Head(fromGate).id # counter
    /\ fromGate' = Tail(fromGate)
    /\ UNCHANGED <<alive, missed>>

\* ... or response_timeout passes on an empty queue.
NeverTimesOut == FALSE /\ UNCHANGED <<fromGate, alive, missed>>  \* faulty: no timeout

TimesOut ==
    /\ fromGate = <<>>
    /\ missed' = TRUE
    /\ UNCHANGED <<fromGate, alive>>

NoAnswer == Unusable \/ TimesOut

\* An interrupt while a request waits: its answer stays in the pipe or the queue.
Abandons(waiting) ==
    /\ missed' = (missed \/ waiting)
    /\ UNCHANGED <<counter, toGate, fromGate, alive>>

\* The Gate exits: the reader thread queues None after the last line.
GateExits(endOfStream) ==
    /\ alive
    /\ alive' = FALSE
    /\ toGate' = <<>>
    /\ fromGate' = Append(fromGate, endOfStream)
    /\ UNCHANGED <<counter, missed>>
=============================================================================
