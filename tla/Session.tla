------------------------------ MODULE Session ------------------------------
(***************************************************************************)
(* One client's session: app_code (src/src/app.c) over the retrying socket *)
(* calls of src/src/server.c, the error categories of src/src/errors.c and *)
(* msleep (src/src/util.c).  A request stands for its bytes, by what the   *)
(* lexer and parse_command make of it.  The connection is TCP as the code  *)
(* uses it (external): what was sent before a close or an abort still      *)
(* arrives, a reset that overtakes data being the same to the server as a  *)
(* client that never sent them; data sent to a closed peer is accepted and *)
(* answered by a reset.  The first call that meets a reset returns         *)
(* ECONNRESET, unless a FIN had come before; a send after that raises      *)
(* SIGPIPE, which nothing in the program handles.                          *)
(***************************************************************************)
EXTENDS Integers, Sequences, FiniteSets

CONSTANTS MaxRequests,  \* bound: requests of the client
          n_retries,    \* the 3 app_code and read_exact_bytes pass
          max_retries,  \* of msleep
          UcharSize     \* unsigned char wraps here

ASSUME SessionAssumption ==
  /\ MaxRequests \in Nat /\ n_retries \in Nat /\ max_retries \in Nat
  /\ UcharSize \in Nat \ {0} /\ max_retries < UcharSize

VARIABLES
  client,   \* "open", "shut" (no more requests, still reads) or "closed"
  asked,    \* the requests the client has sent
  inbox,    \* those app_code has not received yet
  fin,      \* the client's FIN follows them
  reset,    \* "no", "due" on its way, "yes" to be reported, or "dead"
  pc,       \* where app_code stands
  io,       \* the socket call in progress
  req,      \* the request being served, by its number
  held,     \* what is allocated for it
  leaked,   \* what was never freed, by request
  out,      \* the requests whose answers were delivered, in order
  lost,     \* requests whose answer went to a closed client
  failed    \* requests whose answer could not be sent

network == <<client, asked, inbox, fin, reset>>
memory == <<held, leaked>>
results == <<out, lost, failed>>
vars == <<network, pc, io, req, memory, results>>

\* "command" has an answer, parse_command refuses "unknown" and the lexer
\* "malformed"; the lexer waits for the rest of "partial"; "noise" is a byte
\* other than '*'.
Kind == {"command", "unknown", "malformed", "partial", "noise"}
Errno == {"EINTR", "EIO", "ENOBUFS", "EMSGSIZE", "EWOULDBLOCK", "ENOTCONN"}
Broken == {"yes", "dead"}
Over == {"ended", "killed"}

\* retries is not initialised when msleep starts.
NoCall == [phase |-> "call", tries |-> 0, errno |-> "none", retries |-> 0, naps |-> 0]

Init ==
  /\ client = "open" /\ asked = << >> /\ inbox = << >> /\ fin = FALSE /\ reset = "no"
  /\ pc = "recv" /\ io = NoCall /\ req = 0
  /\ held = {} /\ leaked = {}
  /\ out = << >> /\ lost = {} /\ failed = {}

-----------------------------------------------------------------------------
(* The client and the network.                                             *)

\* What follows a partial request would be the rest of it.
Ask(kind) ==
  /\ client = "open" /\ Len(asked) < MaxRequests
  /\ \A i \in DOMAIN asked : asked[i] # "partial"
  /\ asked' = Append(asked, kind)
  /\ inbox' = Append(inbox, Len(asked'))
  /\ UNCHANGED <<client, fin, reset, pc, io, req, memory, results>>

Shut ==
  /\ client = "open" /\ client' = "shut" /\ fin' = TRUE
  /\ UNCHANGED <<asked, inbox, reset, pc, io, req, memory, results>>

\* An orderly close ends with a FIN; an abortive one (SO_LINGER of 0, a crash,
\* answers the client has not read) sends a reset instead, at any time.
Close ==
  /\ client # "closed" /\ client' = "closed"
  /\ \/ fin' = TRUE /\ UNCHANGED reset
     \/ reset' = "due" /\ UNCHANGED fin
  /\ UNCHANGED <<asked, inbox, pc, io, req, memory, results>>

\* The reset arrives: after a FIN its error is EPIPE, and SIGPIPE the first
\* thing a send has of it; else ECONNRESET, which one call reports.
Reset ==
  /\ reset = "due" /\ reset' = IF fin THEN "dead" ELSE "yes"
  /\ UNCHANGED <<client, asked, inbox, fin, pc, io, req, memory, results>>

-----------------------------------------------------------------------------
(* send_resp_to_clnt and recv_resp_fm_clnt.                                *)

\* Mutant: after a reset the answer is sent again.
categorize_send_error_resend(e) ==
  IF e \in {"EINTR", "ENOBUFS", "EMSGSIZE", "EWOULDBLOCK", "ECONNRESET"}
  THEN "ERROR_RECOVERABLE" ELSE "ERROR_FATAL"

categorize_send_error(e) ==
  IF e \in {"EINTR", "ENOBUFS", "EMSGSIZE", "EWOULDBLOCK"} THEN "ERROR_RECOVERABLE" ELSE "ERROR_FATAL"

categorize_recv_error(e) ==
  IF e \in {"EINTR", "EIO", "ENOBUFS"} THEN "ERROR_RECOVERABLE" ELSE "ERROR_FATAL"

Category == IF pc = "send" THEN categorize_send_error(io.errno) ELSE categorize_recv_error(io.errno)

InCall(phase) == pc \in {"recv", "send"} /\ io.phase = phase

\* The answer could not be sent: app_code goes on without freeing.
SendFails ==
  /\ pc' = IF asked[req] \in {"malformed", "partial"} THEN "ended" ELSE "recv"
  /\ held' = {}
  /\ leaked' = leaked \cup ({req} \X held)
  /\ failed' = failed \cup {req}

\* The call returns -1.
ReturnsError ==
  /\ io' = NoCall
  /\ \/ pc = "recv" /\ pc' = "ended" /\ UNCHANGED <<memory, failed>>
     \/ pc = "send" /\ SendFails
  /\ UNCHANGED <<network, req, out, lost>>

\* send or recv returns -1.
CallFails(e) ==
  /\ InCall("call") /\ ~ (pc = "send" /\ reset \in Broken)
  /\ io' = [io EXCEPT !.phase = "failed", !.errno = e]
  /\ UNCHANGED <<network, pc, req, memory, results>>

\* It returns -1 for the reset; recv only when no byte is left.
MeetsReset ==
  /\ InCall("call") /\ reset = "yes" /\ (pc = "recv" => inbox = << >>)
  /\ io' = [io EXCEPT !.phase = "failed", !.errno = "ECONNRESET"]
  /\ reset' = "dead"
  /\ UNCHANGED <<client, asked, inbox, fin, pc, req, memory, results>>

MayRetry == io.tries < n_retries

\* No retries left, a fatal error, or no memory for the category.
GiveUp == InCall("failed") /\ ReturnsError

Sleep ==
  /\ InCall("failed") /\ MayRetry /\ Category = "ERROR_RECOVERABLE"
  /\ \E r \in 0 .. UcharSize - 1 : io' = [io EXCEPT !.phase = "msleep", !.retries = r, !.naps = 0]
  /\ UNCHANGED <<network, pc, req, memory, results>>

\* Mutant: <= for <, one more try than allowed.
Again_wrap(r) == r <= max_retries

Again(r) == r < max_retries

\* msleep: nanosleep is interrupted and tried again, ...
SleepInterrupted ==
  /\ InCall("msleep")
  /\ LET r == (io.retries + 1) % UcharSize
     IN  /\ Again(r)
         /\ io' = [io EXCEPT !.retries = r, !.naps = @ + 1]
  /\ UNCHANGED <<network, pc, req, memory, results>>

\* ... or msleep fails, ...
SleepFails ==
  /\ InCall("msleep")
  /\ ReturnsError

\* ... or it is over and the call is tried again.
TryAgain ==
  /\ InCall("msleep")
  /\ io' = [NoCall EXCEPT !.tries = io.tries + 1]
  /\ UNCHANGED <<network, pc, req, memory, results>>

-----------------------------------------------------------------------------
(* app_code.                                                               *)

\* Mutant: the byte may stay in the socket (MSG_PEEK for MSG_WAITALL).
Receive_twice ==
  /\ pc = "recv" /\ io.phase = "call" /\ inbox # << >>
  /\ req' = Head(inbox) /\ inbox' \in {inbox, Tail(inbox)}
  /\ pc' = IF asked[req'] = "noise" THEN "recv" ELSE "lexer"
  /\ io' = NoCall
  /\ UNCHANGED <<client, asked, fin, reset, memory, results>>

\* A byte arrives; any but '*' is skipped.
Receive ==
  /\ pc = "recv" /\ io.phase = "call" /\ inbox # << >>
  /\ req' = Head(inbox) /\ inbox' = Tail(inbox)
  /\ pc' = IF asked[req'] = "noise" THEN "recv" ELSE "lexer"
  /\ io' = NoCall
  /\ UNCHANGED <<client, asked, fin, reset, memory, results>>

\* Mutant: 0 is no reason to stop.
ReceiveEnd_spin ==
  /\ pc = "recv" /\ io.phase = "call" /\ inbox = << >> /\ (fin \/ reset = "dead")
  /\ io' = NoCall
  /\ UNCHANGED <<network, pc, req, memory, results>>

\* recv returns 0.
ReceiveEnd ==
  /\ pc = "recv" /\ io.phase = "call" /\ inbox = << >> /\ (fin \/ reset = "dead")
  /\ pc' = "ended" /\ io' = NoCall
  /\ UNCHANGED <<network, req, memory, results>>

\* lexer: NULL for a malformed request, and for a partial one at the end of
\* the input, where its recv returns 0 or the error of the reset; else the
\* array, and parse_command's answer or NULL.
Execute ==
  /\ pc = "lexer"
  /\ IF asked[req] = "partial"
     THEN (fin \/ reset \in Broken) /\ reset' = IF reset = "yes" THEN "dead" ELSE reset
     ELSE UNCHANGED reset
  /\ held' = CASE asked[req] = "command" -> {"array", "rtn_s"}
               [] asked[req] = "unknown" -> {"array"}
               [] OTHER                  -> {}
  /\ pc' = "send"
  /\ UNCHANGED <<client, asked, inbox, fin, io, req, leaked, results>>

\* The answer and the array are freed; after lexer's NULL app_code returns.
Sent ==
  /\ pc' = IF asked[req] \in {"malformed", "partial"} THEN "ended" ELSE "recv"
  /\ held' = {}
  /\ UNCHANGED leaked

\* The command's answer, or a text that stands for an error.
Send ==
  /\ pc = "send" /\ io.phase = "call" /\ reset \notin Broken
  /\ Sent
  /\ io' = NoCall
  /\ IF client = "closed"
     THEN lost' = lost \cup {req} /\ reset' = "due" /\ UNCHANGED out
     ELSE out' = Append(out, req) /\ UNCHANGED <<lost, reset>>
  /\ UNCHANGED <<client, asked, inbox, fin, req, failed>>

\* SIGPIPE.
SendKilled ==
  /\ pc = "send" /\ io.phase = "call" /\ reset = "dead"
  /\ pc' = "killed"
  /\ UNCHANGED <<network, io, req, memory, results>>

Client == (\E kind \in Kind : Ask(kind)) \/ Shut \/ Close
Worker ==
  \/ MeetsReset \/ GiveUp \/ Sleep \/ SleepInterrupted \/ SleepFails \/ TryAgain
  \/ Receive \/ ReceiveEnd \/ Execute \/ Send \/ SendKilled

\* The session is over.
Terminated == pc \in Over /\ client = "closed" /\ UNCHANGED vars

Next == Client \/ Reset \/ (\E e \in Errno : CallFails(e)) \/ Worker \/ Terminated

\* The worker's thread runs on; neither the client nor an error need ever come.
Spec == Init /\ [][Next]_vars /\ WF_vars(Worker)

-----------------------------------------------------------------------------
(* Properties.                                                             *)

\* Where the session can stand.  A socket call is made at most once and
\* n_retries times more.
TypeOK ==
  /\ client \in {"open", "shut", "closed"} /\ fin \in BOOLEAN /\ reset \in {"no", "due"} \cup Broken
  /\ asked \in Seq(Kind) /\ inbox \in Seq(1 .. Len(asked)) /\ req \in 0 .. Len(asked)
  /\ pc \in {"recv", "lexer", "send"} \cup Over
  /\ io.phase \in {"call", "failed", "msleep"} /\ io.tries \in 0 .. n_retries
  /\ held \subseteq {"array", "rtn_s"} /\ leaked \subseteq (1 .. Len(asked)) \X {"array", "rtn_s"}
  /\ lost \cup failed \subseteq 1 .. Len(asked)

\* msleep's comment, "If interrupted (EINTR), it retries up to max_retries
\* times", whatever the uninitialised counter holds.
NapsBounded == io.naps <= max_retries

\* A socket call is retried and its sleep resumed a bounded number of times.
RetriesBounded == TypeOK /\ NapsBounded

Answered == {out[n] : n \in DOMAIN out}

\* Answers reach the client in the order of its requests and none twice; a
\* request that was served has its answer, unless the send failed or the client
\* had closed.
AnsweredInOrder ==
  /\ \A m, n \in DOMAIN out : m < n => out[m] < out[n]
  /\ \A i \in 1 .. req :
       (i < req \/ pc \in {"recv", "ended"}) /\ asked[i] # "noise" => i \in Answered \cup lost \cup failed
  /\ Answered \cap (lost \cup failed) = {}

\* The array and the answer leak exactly when the answer could not be sent;
\* otherwise nothing is held between two requests.
LeaksExactly ==
  /\ leaked = {l \in failed \X {"array", "rtn_s"} :
                  asked[l[1]] = "command" \/ (asked[l[1]] = "unknown" /\ l[2] = "array")}
  /\ pc \in {"recv", "ended"} => held = {}

\* Every request served is accounted for: its answer and its memory.
Accounted == AnsweredInOrder /\ LeaksExactly

\* SIGPIPE, which ends every session of the process, never comes out of the
\* blue: a FIN lay in the socket, or the reset had already failed a send after
\* which app_code went on, or the answer is the error text for a request that
\* was cut off.  A client that only aborts cannot bring it about with its first
\* answer, because a reset is fatal to send_resp_to_clnt and ends a recv.
SigpipeHasCause == pc = "killed" => fin \/ failed # {} \/ asked[req] = "partial"

\* A client that has finished, or whose reset has arrived, does not keep its worker.
SessionEnds == fin \/ reset \in Broken ~> pc \in Over

\* A request is received, in whatever company, or the session ends.
RequestsTaken ==
  \A i \in 1 .. MaxRequests : Len(asked) >= i ~> req >= i \/ pc \in Over

\* Requests and clients are dealt with, whatever the socket calls report.
Progress == SessionEnds /\ RequestsTaken
=============================================================================
