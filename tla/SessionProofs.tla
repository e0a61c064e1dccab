--------------------------- MODULE SessionProofs ---------------------------
(***************************************************************************)
(* Proofs about Session.tla, for any number of requests and retries, and   *)
(* about the lexer a session calls (Lexer.tla), for any set of bytes, any  *)
(* limits and any length of the text it reads.  The two share no state.    *)
(***************************************************************************)
EXTENDS Session, Lexer, SequenceTheorems, TLAPS

Kept == {"array", "rtn_s"}

\* What the lexer and parse_command leave allocated for a request.
HeldFor(kind) == {h \in Kept : kind = "command" \/ (kind = "unknown" /\ h = "array")}

Call == [phase : {"call", "failed", "msleep"}, tries : 0 .. n_retries,
         errno : Errno \cup {"none", "ECONNRESET"}, retries : 0 .. UcharSize - 1, naps : Nat]

\* The socket call.  msleep is entered only with a retry left, and once it was
\* interrupted its counter, whatever it started from, counts the interruptions.
CallOK ==
  /\ io \in Call
  /\ io.phase = "msleep" => io.tries < n_retries
  /\ io.naps > 0 => io.retries < max_retries /\ io.naps <= io.retries + 1

\* The connection.  The requests that wait are those after the one in hand.
NetworkOK ==
  /\ client \in {"open", "shut", "closed"} /\ reset \in {"no", "due", "yes", "dead"}
  /\ asked \in Seq(Kind) /\ req \in 0 .. Len(asked)
  /\ inbox = [i \in 1 .. Len(asked) - req |-> req + i]

\* The request in hand, if there is one, has no answer yet.
InHand == pc \in {"lexer", "send", "killed"}
ResultsOK ==
  /\ pc \in {"recv", "lexer", "send"} \cup Over
  /\ out \in Seq(Nat)
  /\ lost \cup failed \cup Answered \subseteq 1 .. req
  /\ InHand => req > 0 /\ req \notin lost \cup failed \cup Answered

MemoryOK ==
  /\ pc \in {"recv", "ended", "lexer"} => held = {}
  /\ pc \in {"send", "killed"} => held = HeldFor(asked[req])
  /\ leaked = {l \in failed \X Kept : l[2] \in HeldFor(asked[l[1]])}

\* A connection is dead only where the program had a sign of it.
Sign == \/ fin \/ failed # {} \/ pc = "ended"
        \/ pc \in {"recv", "send"} /\ io.phase = "failed" /\ io.errno = "ECONNRESET"
        \/ pc \in {"send", "killed"} /\ asked[req] = "partial"
ResetOK == fin \in BOOLEAN /\ (reset = "dead" \/ pc = "killed" => Sign)

Inv == CallOK /\ NetworkOK /\ ResultsOK /\ AnsweredInOrder /\ MemoryOK /\ ResetOK

-----------------------------------------------------------------------------
(* The operators.                                                          *)

\* Incrementing an unsigned char below its last value, and at it.
LEMMA Incremented ==
  ASSUME NEW r \in 0 .. UcharSize - 1
  PROVE  (r + 1) % UcharSize = IF r + 1 < UcharSize THEN r + 1 ELSE 0
<1> UcharSize \in Nat \ {0}
  BY SessionAssumption
<1>1. CASE r + 1 < UcharSize
  BY <1>1
<1>2. CASE r + 1 = UcharSize
  BY <1>2
<1> QED BY <1>1, <1>2

\* Execute, with its cases on the request told apart.
LEMMA ExecuteHolds ==
  ASSUME Execute
  PROVE  /\ pc = "lexer" /\ pc' = "send"
         /\ UNCHANGED <<client, asked, inbox, fin, io, req, leaked, results>>
         /\ held' = HeldFor(asked[req])
         /\ reset' = reset \/ (asked[req] = "partial" /\ reset' = "dead")
<1>1. /\ pc = "lexer" /\ pc' = "send"
      /\ UNCHANGED <<client, asked, inbox, fin, io, req, leaked, results>>
      /\ reset' = reset \/ (asked[req] = "partial" /\ reset' = "dead")
  BY DEF Execute
<1>2. CASE asked[req] = "command"
  <2>1. held' = {"array", "rtn_s"}
    BY <1>2 DEF Execute
  <2> QED BY <1>1, <1>2, <2>1 DEF HeldFor, Kept
<1>3. CASE asked[req] = "unknown"
  <2>1. held' = {"array"}
    BY <1>3 DEF Execute
  <2> QED BY <1>1, <1>3, <2>1 DEF HeldFor, Kept
<1>4. CASE asked[req] # "command" /\ asked[req] # "unknown"
  <2>1. held' = {}
    BY <1>4 DEF Execute
  <2> QED BY <1>1, <1>4, <2>1 DEF HeldFor, Kept
<1> QED BY <1>2, <1>3, <1>4

-----------------------------------------------------------------------------
(* The invariant holds, and every step keeps it.                           *)

LEMMA InvInit == Init => Inv
<1> SUFFICES ASSUME Init PROVE Inv
  OBVIOUS
<1> USE SessionAssumption DEF Init
<1>1. CallOK
  BY DEF CallOK, Call, NoCall
<1>2. NetworkOK
  <2>1. inbox = [i \in 1 .. Len(asked) - req |-> req + i]
    OBVIOUS
  <2> QED BY <2>1 DEF NetworkOK
<1>3. ResultsOK
  BY DEF ResultsOK, Answered, InHand, Over
<1>4. AnsweredInOrder
  BY DEF AnsweredInOrder, Answered
<1>5. MemoryOK
  BY DEF MemoryOK
<1>6. ResetOK
  BY DEF ResetOK
<1> QED BY <1>1, <1>2, <1>3, <1>4, <1>5, <1>6 DEF Inv

\* Each step of a socket call keeps its bounds.
LEMMA CallStep ==
  ASSUME Inv, [Next]_vars
  PROVE  CallOK'
<1> USE SessionAssumption
<1>1. CallOK
  BY DEF Inv
<1>2. CASE io' = NoCall
  BY <1>2 DEF CallOK, Call, NoCall
<1>3. CASE UNCHANGED io
  BY <1>1, <1>3 DEF CallOK, Call
<1>4. ASSUME NEW e \in Errno, CallFails(e)
      PROVE  CallOK'
  BY <1>1, <1>4 DEF CallOK, Call, CallFails, InCall
<1>9. CASE MeetsReset
  BY <1>1, <1>9 DEF CallOK, Call, MeetsReset, InCall
<1>5. CASE Sleep
  <2>1. PICK r \in 0 .. UcharSize - 1 :
          io' = [io EXCEPT !.phase = "msleep", !.retries = r, !.naps = 0]
    BY <1>5 DEF Sleep
  <2>2. io.tries < n_retries
    BY <1>5 DEF Sleep, MayRetry
  <2>3. io' \in Call /\ io'.tries = io.tries /\ io'.naps = 0
    BY <1>1, <2>1 DEF CallOK, Call
  <2> QED BY <2>2, <2>3 DEF CallOK
<1>6. CASE SleepInterrupted
  <2> DEFINE r == (io.retries + 1) % UcharSize
  <2>1. r = IF io.retries + 1 < UcharSize THEN io.retries + 1 ELSE 0
    BY <1>1, Incremented DEF CallOK, Call
  <2>2. r < max_retries /\ io' = [io EXCEPT !.retries = r, !.naps = @ + 1]
    BY <1>6 DEF SleepInterrupted, Again
  <2>3. io.phase = "msleep"
    BY <1>6 DEF SleepInterrupted, InCall
  <2>4. r \in 0 .. UcharSize - 1
    BY <1>1, <2>1 DEF CallOK, Call
  <2> HIDE DEF r
  <2>5. io' \in Call /\ io'.tries = io.tries /\ io'.retries = r /\ io'.naps = io.naps + 1
    <3>1. io' = [phase |-> io.phase, tries |-> io.tries, errno |-> io.errno,
                 retries |-> r, naps |-> io.naps + 1]
      BY <1>1, <2>2 DEF CallOK, Call
    <3> QED BY <1>1, <2>4, <3>1 DEF CallOK, Call
  <2>6. io.naps > 0 => io.retries + 1 < UcharSize
    BY <1>1 DEF CallOK, Call
  <2>7. io.naps + 1 <= r + 1
    BY <1>1, <2>1, <2>4, <2>6 DEF CallOK, Call
  <2> QED BY <1>1, <2>2, <2>3, <2>4, <2>5, <2>7 DEF CallOK
<1>7. CASE TryAgain
  <2>1. io' = [NoCall EXCEPT !.tries = io.tries + 1]
    BY <1>7 DEF TryAgain
  <2>2. io.tries < n_retries
    BY <1>1, <1>7 DEF CallOK, TryAgain, InCall
  <2>3. io' \in Call /\ io'.phase = "call" /\ io'.naps = 0
    <3>1. io' = [phase |-> "call", tries |-> io.tries + 1, errno |-> "none",
                 retries |-> 0, naps |-> 0]
      BY <2>1 DEF NoCall
    <3> QED BY SessionAssumption, <1>1, <2>2, <3>1 DEF CallOK, Call
  <2> QED BY <2>3 DEF CallOK
<1>8. CASE Execute
  BY <1>3, <1>8, ExecuteHolds
<1> QED
  BY <1>2, <1>3, <1>4, <1>5, <1>6, <1>7, <1>8, <1>9 DEF Next, Client, Ask, Shut, Close, Reset,
     Worker, GiveUp, SleepFails, ReturnsError, Receive, ReceiveEnd, Send, SendKilled,
     Terminated, vars

\* The requests that wait stay those after the one in hand.
LEMMA NetworkStep ==
  ASSUME Inv, [Next]_vars
  PROVE  NetworkOK'
<1>1. NetworkOK /\ ResultsOK
  BY DEF Inv
<1>2. CASE UNCHANGED <<network, req>>
  BY <1>1, <1>2 DEF NetworkOK, network
<1>3. ASSUME NEW kind \in Kind, Ask(kind)
      PROVE  NetworkOK'
  <2>1. asked' = Append(asked, kind) /\ inbox' = Append(inbox, Len(asked'))
        /\ UNCHANGED <<client, fin, reset, req>>
    BY <1>3 DEF Ask
  <2>2. asked' \in Seq(Kind) /\ Len(asked') = Len(asked) + 1
    BY <1>1, <2>1 DEF NetworkOK
  <2>3. inbox' = [i \in 1 .. Len(asked') - req |-> req + i]
    BY <1>1, <2>1, <2>2 DEF NetworkOK
  <2> QED BY <1>1, <2>1, <2>2, <2>3 DEF NetworkOK
<1>4. CASE Shut \/ Close \/ Reset \/ MeetsReset
  BY <1>1, <1>4 DEF Shut, Close, Reset, MeetsReset, NetworkOK
<1>5. CASE Receive
  <2>1. inbox # << >> /\ req' = Head(inbox) /\ inbox' = Tail(inbox)
        /\ UNCHANGED <<client, asked, reset>>
    BY <1>5 DEF Receive
  <2>2. Len(inbox) = Len(asked) - req /\ Len(inbox) > 0
    BY <1>1, <2>1 DEF NetworkOK
  <2>3. req' = req + 1
    BY <1>1, <2>1, <2>2 DEF NetworkOK
  <2>4. inbox' = [i \in 1 .. Len(asked) - req' |-> req' + i]
    <3>1. inbox = [i \in 1 .. Len(asked) - req |-> req + i] /\ Len(asked) \in Nat /\ req \in Nat
      BY <1>1 DEF NetworkOK
    <3>2. inbox' = [i \in 1 .. Len(inbox) - 1 |-> inbox[i + 1]]
      BY <2>1, <2>2, <3>1
    <3>3. Len(inbox) - 1 = Len(asked) - req'
      BY <2>2, <2>3, <3>1
    <3>4. \A i \in 1 .. Len(asked) - req' : inbox[i + 1] = req' + i
      BY <2>3, <3>1
    <3> QED BY <3>2, <3>3, <3>4
  <2>5. req' \in 0 .. Len(asked)
    BY <1>1, <2>2, <2>3 DEF NetworkOK
  <2> QED BY <1>1, <2>1, <2>4, <2>5 DEF NetworkOK
<1>6. CASE Send
  BY <1>1, <1>6 DEF Send, NetworkOK
<1>7. CASE Execute
  BY <1>1, <1>7, ExecuteHolds DEF NetworkOK
<1> QED
  BY <1>2, <1>3, <1>4, <1>5, <1>6, <1>7 DEF Next, Client, CallFails, Worker, GiveUp, Sleep,
     SleepInterrupted, SleepFails, TryAgain, ReturnsError, ReceiveEnd, SendKilled,
     Terminated, vars, network

\* What the calls that fail leave behind.
LEMMA ErrorStep ==
  ASSUME GiveUp \/ SleepFails
  PROVE  /\ UNCHANGED <<network, req, out, lost>>
         /\ \/ pc = "recv" /\ pc' = "ended" /\ UNCHANGED <<memory, failed>>
            \/ pc = "send" /\ SendFails
  BY DEF GiveUp, SleepFails, ReturnsError

\* A delivered answer is the last of the answers.
LEMMA AnsweredAppend ==
  ASSUME out \in Seq(Nat), req \in Nat, out' = Append(out, req)
  PROVE  Answered' = Answered \cup {req} /\ out' \in Seq(Nat)
  BY SMTT(30) DEF Answered

\* The request in hand has no answer, and no later one has.
LEMMA ResultsStep ==
  ASSUME Inv, [Next]_vars
  PROVE  ResultsOK'
<1>1. NetworkOK /\ ResultsOK
  BY DEF Inv
<1>2. CASE UNCHANGED <<pc, req, results>>
  BY <1>1, <1>2 DEF ResultsOK, InHand, Answered, results
<1>3. CASE GiveUp \/ SleepFails
  <2>1. UNCHANGED <<req, out, lost>> /\ failed' \subseteq failed \cup {req}
        /\ pc' \in {"recv", "ended"} /\ (pc = "send" \/ failed' = failed)
    BY <1>3, ErrorStep DEF SendFails
  <2> QED BY <1>1, <2>1 DEF ResultsOK, InHand, Answered, Over, NetworkOK
<1>4. CASE Receive
  <2>1. req' = req + 1
    <3>1. Len(inbox) = Len(asked) - req /\ Len(inbox) > 0
      BY <1>1, <1>4 DEF NetworkOK, Receive
    <3> QED BY <1>1, <1>4, <3>1 DEF NetworkOK, Receive
  <2>2. pc' \in {"recv", "lexer"} /\ UNCHANGED results
    BY <1>4 DEF Receive
  <2>3. Answered' = Answered
    BY <2>2 DEF Answered, results
  <2>4. req' \notin lost \cup failed \cup Answered
    BY <1>1, <2>1 DEF ResultsOK, NetworkOK
  <2>5. lost \cup failed \cup Answered \subseteq 1 .. req'
    BY <1>1, <2>1 DEF ResultsOK, NetworkOK
  <2>6. req' > 0
    BY <1>1, <2>1 DEF NetworkOK
  <2> QED BY <1>1, <2>2, <2>3, <2>4, <2>5, <2>6 DEF ResultsOK, InHand, Over, results
<1>5. CASE ReceiveEnd
  BY <1>1, <1>5 DEF ResultsOK, InHand, Answered, Over, ReceiveEnd, results
<1>6. CASE Execute
  BY <1>1, <1>6, ExecuteHolds DEF ResultsOK, InHand, Answered, results
<1>7. CASE Send
  <2>1. pc = "send" /\ pc' \in {"recv", "ended"} /\ UNCHANGED <<req, failed>>
    BY <1>7 DEF Send, Sent
  <2>2. req \in Nat
    BY <1>1 DEF NetworkOK
  <2>3. CASE lost' = lost \cup {req} /\ UNCHANGED out
    BY <1>1, <2>1, <2>2, <2>3 DEF ResultsOK, InHand, Answered, Over
  <2>4. CASE out' = Append(out, req) /\ UNCHANGED lost
    <3>1. Answered' = Answered \cup {req} /\ out' \in Seq(Nat)
      BY <1>1, <2>2, <2>4, AnsweredAppend DEF ResultsOK
    <3> QED BY <1>1, <2>1, <2>2, <2>4, <3>1 DEF ResultsOK, InHand, Over
  <2> QED BY <1>7, <2>3, <2>4 DEF Send
<1>8. CASE SendKilled
  BY <1>1, <1>8 DEF ResultsOK, InHand, Answered, Over, SendKilled, results
<1> QED
  BY <1>2, <1>3, <1>4, <1>5, <1>6, <1>7, <1>8 DEF Next, Client, Ask, Shut, Close, Reset,
     CallFails, MeetsReset, Worker, Sleep, SleepInterrupted, TryAgain, Terminated, vars

\* Answers are delivered in order, and none is missing.
LEMMA AnswersStep ==
  ASSUME Inv, [Next]_vars
  PROVE  AnsweredInOrder'
<1>1. NetworkOK /\ ResultsOK /\ AnsweredInOrder
  BY DEF Inv
<1>2. CASE UNCHANGED <<pc, req, asked, results>>
  BY <1>1, <1>2 DEF AnsweredInOrder, Answered, results
<1>3. ASSUME NEW kind \in Kind, Ask(kind)
      PROVE  AnsweredInOrder'
  <2>1. \A i \in 1 .. req : asked'[i] = asked[i]
    BY <1>1, <1>3 DEF Ask, NetworkOK
  <2>2. UNCHANGED <<pc, req, results>>
    BY <1>3 DEF Ask
  <2> QED BY <1>1, <2>1, <2>2 DEF AnsweredInOrder, Answered, results
<1>4. CASE GiveUp \/ SleepFails
  <2>1. UNCHANGED <<asked, req, out, lost>>
    BY <1>4, ErrorStep DEF network
  <2>2. CASE pc = "recv" /\ pc' = "ended" /\ failed' = failed
    BY <1>1, <2>1, <2>2 DEF AnsweredInOrder, Answered
  <2>3. CASE pc = "send" /\ failed' = failed \cup {req}
    <3>1. Answered' = Answered
      BY <2>1 DEF Answered
    <3>2. \A i \in 1 .. req : asked[i] # "noise" => i \in Answered \cup lost \cup failed'
      BY <1>1, <2>3 DEF AnsweredInOrder, NetworkOK
    <3>3. Answered \cap (lost \cup failed') = {}
      BY <1>1, <2>3 DEF AnsweredInOrder, ResultsOK, InHand
    <3> QED BY <1>1, <2>1, <3>1, <3>2, <3>3 DEF AnsweredInOrder
  <2> QED BY <1>4, <2>2, <2>3, ErrorStep DEF SendFails
<1>5. CASE Receive
  <2>1. req' = req + 1
    <3>1. Len(inbox) = Len(asked) - req /\ Len(inbox) > 0
      BY <1>1, <1>5 DEF NetworkOK, Receive
    <3> QED BY <1>1, <1>5, <3>1 DEF NetworkOK, Receive
  <2>2. pc = "recv" /\ pc' = (IF asked[req'] = "noise" THEN "recv" ELSE "lexer")
        /\ UNCHANGED <<asked, results>>
    BY <1>5 DEF Receive
  <2>3. Answered' = Answered
    BY <2>2 DEF Answered, results
  <2>4. \A i \in 1 .. req' : (i < req' \/ pc' \in {"recv", "ended"}) /\ asked[i] # "noise"
                               => i \in 1 .. req
    BY <1>1, <2>1, <2>2 DEF NetworkOK
  <2>5. \A i \in 1 .. req : asked[i] # "noise" => i \in Answered \cup lost \cup failed
    BY <1>1, <2>2 DEF AnsweredInOrder
  <2> QED BY <1>1, <2>2, <2>3, <2>4, <2>5 DEF AnsweredInOrder, results
<1>6. CASE ReceiveEnd
  BY <1>1, <1>6 DEF AnsweredInOrder, Answered, ReceiveEnd, network, results
<1>7. CASE Execute
  BY <1>1, <1>7, ExecuteHolds DEF AnsweredInOrder, Answered, network, results
<1>8. CASE Send
  <2>1. pc = "send" /\ UNCHANGED <<asked, req, failed>>
    BY <1>8 DEF Send, Sent
  <2>2. req \in Nat /\ req > 0
    BY <1>1, <2>1 DEF NetworkOK, ResultsOK, InHand
  <2>3. CASE lost' = lost \cup {req} /\ UNCHANGED out
    BY <1>1, <2>1, <2>2, <2>3 DEF AnsweredInOrder, Answered, ResultsOK, InHand
  <2>4. CASE out' = Append(out, req) /\ UNCHANGED lost
    <3>1. Answered' = Answered \cup {req}
      BY <1>1, <2>2, <2>4, AnsweredAppend DEF ResultsOK
    <3>2. \A m \in DOMAIN out : out[m] < req
      <4>1. \A m \in DOMAIN out : out[m] \in 1 .. req /\ out[m] # req
        BY <1>1, <2>1 DEF ResultsOK, InHand, Answered
      <4> QED BY <2>2, <4>1
    <3>3. \A m, n \in DOMAIN out' : m < n => out'[m] < out'[n]
      BY <1>1, <2>2, <2>4, <3>2 DEF AnsweredInOrder, ResultsOK
    <3>4. \A i \in 1 .. req : asked[i] # "noise" => i \in Answered' \cup lost \cup failed
      BY <1>1, <2>2, <3>1 DEF AnsweredInOrder
    <3>5. Answered' \cap (lost \cup failed) = {}
      BY <1>1, <2>1, <3>1 DEF AnsweredInOrder, ResultsOK, InHand
    <3> QED BY <2>1, <2>4, <3>3, <3>4, <3>5 DEF AnsweredInOrder
  <2> QED BY <1>8, <2>3, <2>4 DEF Send
<1>9. CASE SendKilled
  BY <1>1, <1>9 DEF AnsweredInOrder, Answered, SendKilled, network, results
<1> QED
  BY <1>2, <1>3, <1>4, <1>5, <1>6, <1>7, <1>8, <1>9 DEF Next, Client, Shut, Close, Reset,
     CallFails, MeetsReset, Worker, Sleep, SleepInterrupted, TryAgain, Terminated, vars, network

\* Only a failed send forgets what is held.
LEMMA MemoryStep ==
  ASSUME Inv, [Next]_vars
  PROVE  MemoryOK'
<1>1. NetworkOK /\ ResultsOK /\ MemoryOK
  BY DEF Inv
<1>2. CASE UNCHANGED <<pc, req, asked, memory, failed>>
  BY <1>1, <1>2 DEF MemoryOK, memory
<1>3. ASSUME NEW kind \in Kind, Ask(kind)
      PROVE  MemoryOK'
  <2>1. \A i \in 1 .. req : asked'[i] = asked[i]
    BY <1>1, <1>3 DEF Ask, NetworkOK
  <2>2. UNCHANGED <<pc, req, held, leaked, failed>>
    BY <1>3 DEF Ask, memory, results
  <2>3. pc \in {"send", "killed"} => asked'[req] = asked[req]
    BY <1>1, <2>1 DEF ResultsOK, InHand, NetworkOK
  <2>4. \A l \in failed \X Kept : asked'[l[1]] = asked[l[1]]
    BY <1>1, <2>1 DEF ResultsOK
  <2> QED BY <1>1, <2>2, <2>3, <2>4 DEF MemoryOK
<1>4. CASE GiveUp \/ SleepFails
  <2>1. UNCHANGED <<asked, req>>
    BY <1>4, ErrorStep DEF network
  <2>2. CASE pc = "recv" /\ pc' = "ended" /\ UNCHANGED <<memory, failed>>
    BY <1>1, <2>1, <2>2 DEF MemoryOK, memory
  <2>3. CASE pc = "send" /\ SendFails
    <3>1. pc' \in {"ended", "recv"} /\ held' = {} /\ leaked' = leaked \cup ({req} \X held)
          /\ failed' = failed \cup {req}
      BY <2>3 DEF SendFails
    <3>2. held = HeldFor(asked[req]) /\ held \subseteq Kept
      BY <1>1, <2>3 DEF MemoryOK, HeldFor
    <3>3. leaked' = {l \in failed' \X Kept : l[2] \in HeldFor(asked[l[1]])}
      BY <1>1, <3>1, <3>2 DEF MemoryOK
    <3> QED BY <2>1, <3>1, <3>3 DEF MemoryOK
  <2> QED BY <1>4, <2>2, <2>3, ErrorStep
<1>5. CASE Receive \/ ReceiveEnd
  <2>1. pc = "recv" /\ pc' \in {"recv", "lexer", "ended"}
        /\ UNCHANGED <<asked, held, leaked, failed>>
    BY <1>5 DEF Receive, ReceiveEnd, network, memory, results
  <2> QED BY <1>1, <2>1 DEF MemoryOK
<1>6. CASE Execute
  BY <1>1, <1>6, ExecuteHolds DEF MemoryOK, network, results
<1>7. CASE Send
  <2>1. pc' \in {"ended", "recv"} /\ held' = {} /\ UNCHANGED <<asked, leaked, failed>>
    BY <1>7 DEF Send, Sent
  <2> QED BY <1>1, <2>1 DEF MemoryOK
<1>8. CASE SendKilled
  BY <1>1, <1>8 DEF MemoryOK, SendKilled, network, memory, results
<1> QED
  BY <1>2, <1>3, <1>4, <1>5, <1>6, <1>7, <1>8 DEF Next, Client, Shut, Close, Reset,
     CallFails, MeetsReset, Worker, Sleep, SleepInterrupted, TryAgain, Terminated, vars,
     network, results

\* A dead connection was announced.
LEMMA ResetStep ==
  ASSUME Inv, [Next]_vars
  PROVE  ResetOK'
<1> USE DEF ResetOK, Sign
<1>1. ResetOK /\ ResultsOK /\ NetworkOK
  BY DEF Inv
<1>2. CASE /\ UNCHANGED <<pc, req, asked, fin, failed, io>>
           /\ reset' = "dead" => reset = "dead" \/ fin
  BY <1>1, <1>2
<1>3. ASSUME NEW kind \in Kind, Ask(kind)
      PROVE  ResetOK'
  <2>1. UNCHANGED <<pc, io, req, fin, reset, failed>>
    BY <1>3 DEF Ask, results
  <2>2. pc \in {"send", "killed"} => asked'[req] = asked[req]
    BY <1>1, <1>3 DEF Ask, NetworkOK, ResultsOK, InHand
  <2>3. Sign => Sign'
    BY <2>1, <2>2
  <2> QED BY <1>1, <2>1, <2>3
<1>4. CASE Shut \/ Close
  BY <1>1, <1>4 DEF Shut, Close, results
<1>5. CASE Reset
  BY <1>2, <1>5 DEF Reset, results
<1>6. CASE GiveUp \/ SleepFails
  BY <1>1, <1>6, ErrorStep DEF SendFails, network
<1>7. CASE MeetsReset
  <2>1. io' = [io EXCEPT !.phase = "failed", !.errno = "ECONNRESET"] /\ io \in Call
    BY <1>7 DEF MeetsReset, Inv, CallOK
  <2>2. io'.phase = "failed" /\ io'.errno = "ECONNRESET"
    BY <2>1 DEF Call
  <2> QED BY <1>1, <1>7, <2>2 DEF MeetsReset, InCall
<1>8. ASSUME NEW e \in Errno, CallFails(e)
      PROVE  ResetOK'
  BY <1>1, <1>8 DEF CallFails, InCall, network, results
<1>9. CASE Sleep
  <2>1. io.errno # "ECONNRESET"
    BY <1>9 DEF Sleep, Category, categorize_send_error, categorize_recv_error
  <2> QED BY <1>1, <1>9, <2>1 DEF Sleep, network, results
<1>10. CASE SleepInterrupted \/ TryAgain
  BY <1>1, <1>10 DEF SleepInterrupted, TryAgain, InCall, network, results
<1>11. CASE Receive \/ ReceiveEnd
  BY <1>1, <1>11 DEF Receive, ReceiveEnd, network, results
<1>12. CASE Execute
  BY <1>1, <1>12, ExecuteHolds DEF results
<1>13. CASE Send
  BY <1>1, <1>13 DEF Send, Sent, Broken
<1>14. CASE SendKilled
  BY <1>1, <1>14 DEF SendKilled, network, results
<1> QED
  BY <1>2, <1>3, <1>4, <1>5, <1>6, <1>7, <1>8, <1>9, <1>10, <1>11, <1>12, <1>13, <1>14
     DEF Next, Client, Worker, Terminated, vars, network, results

LEMMA InvStep == Inv /\ [Next]_vars => Inv'
  BY CallStep, NetworkStep, ResultsStep, AnswersStep, MemoryStep, ResetStep DEF Inv

\* The invariant, at every state of a session.
THEOREM SessionInvariant == Spec => []Inv
  BY InvInit, InvStep, PTL DEF Spec

-----------------------------------------------------------------------------
(* The properties.                                                         *)

\* A socket call is made at most n_retries times more than once, and a sleep
\* of msleep is resumed at most max_retries times, whatever value the counter
\* that msleep does not initialise starts from.
THEOREM RetriesBoundedCorrect == Spec => []RetriesBounded
<1>1. Inv => RetriesBounded
  <2> SUFFICES ASSUME Inv PROVE RetriesBounded
    OBVIOUS
  <2> USE DEF Inv
  <2>1. inbox \in Seq(1 .. Len(asked))
    <3>1. Len(asked) \in Nat /\ Len(asked) - req \in Nat
      BY DEF NetworkOK
    <3>2. inbox \in [1 .. Len(asked) - req -> 1 .. Len(asked)]
      BY <3>1 DEF NetworkOK
    <3> QED BY <3>1, <3>2
  <2>2. held \subseteq Kept
    BY DEF MemoryOK, ResultsOK, HeldFor, Over
  <2>3. lost \cup failed \subseteq 1 .. Len(asked)
    BY DEF ResultsOK, NetworkOK
  <2>4. leaked \subseteq (1 .. Len(asked)) \X Kept
    BY <2>3 DEF MemoryOK
  <2>5. TypeOK
    BY <2>1, <2>2, <2>3, <2>4 DEF TypeOK, NetworkOK, ResultsOK, ResetOK, CallOK, Call, Kept, Broken
  <2>6. NapsBounded
    BY SessionAssumption DEF NapsBounded, CallOK, Call
  <2> QED BY <2>5, <2>6 DEF RetriesBounded
<1> QED BY <1>1, SessionInvariant, PTL

\* Every request app_code served is accounted for: its answer was delivered, in
\* order and once, or lost to a closed client, or could not be sent; and exactly
\* in the last case the array and the answer were never freed.
THEOREM AccountedCorrect == Spec => []Accounted
<1>1. Inv => Accounted
  <2> SUFFICES ASSUME Inv PROVE Accounted
    OBVIOUS
  <2>1. AnsweredInOrder
    BY DEF Inv
  <2>2. leaked = {l \in failed \X Kept : l[2] \in HeldFor(asked[l[1]])}
    BY DEF Inv, MemoryOK
  <2>3. \A l \in failed \X Kept : l[2] \in HeldFor(asked[l[1]]) <=>
          asked[l[1]] = "command" \/ (asked[l[1]] = "unknown" /\ l[2] = "array")
    BY DEF HeldFor
  <2>4. LeaksExactly
    BY <2>2, <2>3 DEF Inv, LeaksExactly, MemoryOK, Kept
  <2> QED BY <2>1, <2>4 DEF Accounted
<1> QED BY <1>1, SessionInvariant, PTL

\* SIGPIPE never comes out of the blue: a FIN lay in the socket, a send had
\* failed before, or the request was cut off.
THEOREM SigpipeHasCauseCorrect == Spec => []SigpipeHasCause
<1>1. Inv => SigpipeHasCause
  BY DEF Inv, ResetOK, Sign, SigpipeHasCause
<1> QED BY <1>1, SessionInvariant, PTL

-----------------------------------------------------------------------------
(* The lexer: what is reached from a node.                                 *)

\* The nodes of 1 .. L that the edges E lead to from a.
Reached(L, E, a) ==
  {n \in 1 .. L : \A S \in SUBSET (0 .. L) : a \in S /\ (\A m \in S : E[m] \subseteq S) => n \in S}

\* E are edges between the nodes of 1 .. L and NULL, which has none.
Edges(L, E) == L \in Nat /\ E \in [0 .. L -> SUBSET (0 .. L)] /\ E[0] = {}

\* A closed set around a holds what is reached from it.
LEMMA ReachedLeast ==
  ASSUME NEW L, NEW E, NEW a, NEW S \in SUBSET (0 .. L), a \in S, \A m \in S : E[m] \subseteq S
  PROVE  Reached(L, E, a) \subseteq S
BY DEF Reached

\* A node is reached from itself, and from what is reached its edges lead on.
LEMMA ReachedOn ==
  ASSUME NEW L, NEW E, NEW a
  PROVE  /\ a \in 1 .. L => a \in Reached(L, E, a)
         /\ \A n \in Reached(L, E, a) : \A m \in E[n] : m \in 1 .. L => m \in Reached(L, E, a)
<1>1. a \in 1 .. L => a \in Reached(L, E, a)
  BY DEF Reached
<1>2. ASSUME NEW n \in Reached(L, E, a), NEW m \in E[n], m \in 1 .. L
      PROVE  m \in Reached(L, E, a)
  <2> SUFFICES ASSUME NEW S \in SUBSET (0 .. L), a \in S, \A k \in S : E[k] \subseteq S
               PROVE  m \in S
    BY <1>2 DEF Reached
  <2>1. n \in S
    BY DEF Reached
  <2> QED BY <1>2, <2>1
<1> QED BY <1>1, <1>2

LEMMA ReachedIn ==
  ASSUME NEW L, NEW E, Edges(L, E), NEW a
  PROVE  /\ Reached(L, E, a) \subseteq 1 .. L
         /\ Reached(L, E, a) \cup {0} \in SUBSET (0 .. L)
         /\ \A m \in Reached(L, E, a) \cup {0} : E[m] \subseteq Reached(L, E, a) \cup {0}
<1>1. Reached(L, E, a) \subseteq 1 .. L
  BY DEF Reached
<1>2. ASSUME NEW m \in Reached(L, E, a) \cup {0}, NEW n \in E[m]
      PROVE  n \in Reached(L, E, a) \cup {0}
  <2>1. CASE m = 0
    BY <1>2, <2>1 DEF Edges
  <2>2. CASE m # 0
    <3>1. m \in Reached(L, E, a) /\ n \in 0 .. L
      BY <1>1, <1>2, <2>2 DEF Edges
    <3>2. CASE n = 0
      BY <3>2
    <3>3. CASE n \in 1 .. L
      BY <1>2, <3>1, <3>3, ReachedOn
    <3> QED BY <3>1, <3>2, <3>3 DEF Edges
  <2> QED BY <2>1, <2>2
<1> QED BY <1>1, <1>2 DEF Edges

LEMMA ReachedNull ==
  ASSUME NEW L, NEW E, Edges(L, E)
  PROVE  Reached(L, E, 0) = {}
<1>1. Reached(L, E, 0) \subseteq {0}
  <2>1. {0} \in SUBSET (0 .. L) /\ \A m \in {0} : E[m] \subseteq {0}
    BY DEF Edges
  <2> QED BY <2>1, ReachedLeast
<1> QED BY <1>1 DEF Reached, Edges

\* What is reached from a reached node is reached.
LEMMA ReachedFurther ==
  ASSUME NEW L, NEW E, Edges(L, E), NEW a, NEW b \in Reached(L, E, a)
  PROVE  Reached(L, E, b) \subseteq Reached(L, E, a)
<1> DEFINE S == Reached(L, E, a) \cup {0}
<1>1. S \in SUBSET (0 .. L) /\ b \in S /\ \A m \in S : E[m] \subseteq S
  BY ReachedIn
<1>2. Reached(L, E, b) \subseteq S
  BY <1>1, ReachedLeast
<1>3. Reached(L, E, b) \subseteq 1 .. L
  BY DEF Reached
<1> QED BY <1>2, <1>3 DEF Edges

\* More edges reach no less; a loop at a node and an edge to NULL are no loss.
LEMMA ReachedMore ==
  ASSUME NEW L, NEW E, Edges(L, E), NEW K, NEW F, Edges(K, F), L <= K, NEW a \in 0 .. L,
         \A m \in Reached(L, E, a) : E[m] \ {0, m} \subseteq F[m]
  PROVE  Reached(L, E, a) \subseteq Reached(K, F, a)
<1> SUFFICES ASSUME a # 0 PROVE Reached(L, E, a) \subseteq Reached(K, F, a)
  BY ReachedNull
<1> SUFFICES ASSUME NEW n \in Reached(L, E, a), NEW S \in SUBSET (0 .. K), a \in S,
                    \A m \in S : F[m] \subseteq S
             PROVE  n \in S
  <2>1. 1 .. L \subseteq 1 .. K
    BY DEF Edges
  <2> QED BY <2>1 DEF Reached
<1> DEFINE T == (S \cap Reached(L, E, a)) \cup {0}
<1>1. T \in SUBSET (0 .. L)
  BY ReachedIn
<1>2. a \in T
  <2>1. a \in 1 .. L
    BY DEF Edges
  <2> QED BY <2>1, ReachedOn
<1>3. ASSUME NEW m \in T, NEW x \in E[m] PROVE x \in T
  <2>1. CASE m = 0
    BY <1>3, <2>1 DEF Edges
  <2>2. CASE m \in S \cap Reached(L, E, a)
    <3>1. x \in Reached(L, E, a) \cup {0}
      BY <1>3, <2>2, ReachedIn
    <3>2. CASE x \notin {0, m}
      <4>1. x \in F[m]
        BY <1>3, <2>2, <3>2
      <4> QED BY <2>2, <3>1, <4>1
    <3> QED BY <2>2, <3>1, <3>2
  <2> QED BY <2>1, <2>2
<1>4. \A m \in T : E[m] \subseteq T
  BY <1>3
<1> HIDE DEF T
<1>5. Reached(L, E, a) \subseteq T
  BY <1>1, <1>2, <1>4, ReachedLeast, Zenon
<1>6. n # 0
  BY DEF Reached, Edges
<1> QED BY <1>5, <1>6 DEF T

\* The same edges where they are followed reach the same nodes.
LEMMA ReachedSame ==
  ASSUME NEW L, NEW E, Edges(L, E), NEW K, NEW F, Edges(K, F), L <= K, NEW a \in 0 .. L,
         \A m \in Reached(L, E, a) : F[m] = E[m]
  PROVE  Reached(K, F, a) = Reached(L, E, a)
<1> DEFINE S == Reached(L, E, a) \cup {0}
<1>1. Reached(L, E, a) \subseteq Reached(K, F, a)
  <2>1. \A m \in Reached(L, E, a) : E[m] \ {0, m} \subseteq F[m]
    BY Zenon
  <2> QED BY <2>1, ReachedMore, Zenon
<1>2. S \in SUBSET (0 .. K)
  <2>1. S \in SUBSET (0 .. L)
    BY ReachedIn
  <2>2. 0 .. L \subseteq 0 .. K
    BY DEF Edges
  <2> QED BY <2>1, <2>2
<1>3. a \in S
  <2>1. a = 0 \/ a \in 1 .. L
    BY DEF Edges
  <2> QED BY <2>1, ReachedOn
<1>4. \A m \in S : F[m] \subseteq S
  <2> SUFFICES ASSUME NEW m \in S PROVE F[m] \subseteq S
    OBVIOUS
  <2>1. CASE m = 0
    BY <2>1 DEF Edges
  <2>2. CASE m \in Reached(L, E, a)
    BY <2>2, ReachedIn
  <2> QED BY <2>1, <2>2
<1> HIDE DEF S
<1>5. Reached(K, F, a) \subseteq S
  BY <1>2, <1>3, <1>4, ReachedLeast, Zenon
<1>6. 0 \notin Reached(K, F, a)
  BY DEF Reached, Edges
<1> QED BY <1>1, <1>5, <1>6 DEF S
-----------------------------------------------------------------------------
(* The state of the lexer.                                                 *)

LexPc == SizeStates \cup Ended
           \cup {"size", "body", "CR", "LF", "element", "insert", "returned", "printed"}
Odd == {"wrapped", "nil_bulk", "marker", "unset", "deep"}
NodeType == {"bulk", "array"} \cup Markers
Address == 0 .. Len(mem)

SizeOK ==
  /\ sz \in [what : {"array", "bulk"}, num : Seq(Int), neg : BOOLEAN, cell : Int]
  /\ Len(sz.num) <= MAX_ARRAY_SIZE + 1

MemOK ==
  /\ \E C : mem \in Seq([type : NodeType, next : Nat, prev : Nat, content : C, size : C])
  /\ \A n \in 1 .. Len(mem) :
       /\ mem[n].next \in Address /\ mem[n].prev \in Address
       /\ mem[n].type = "array" => mem[n].content \in Address \ {0}

StackOK ==
  /\ \E Z : stack \in Seq([size : Z, inserted : Z, array : Nat, previous : Nat])
  /\ \A k \in 1 .. Len(stack) : stack[k].array \in Address /\ stack[k].previous \in Address

LexTypes ==
  /\ lex_pc \in LexPc /\ odd \subseteq Odd /\ current \in Address
  /\ SizeOK /\ MemOK /\ StackOK
  /\ lex_pc = "element" => stack # << >>
  /\ live \subseteq (1 .. Len(mem)) \X {"struct", "node", "content"}

\* A step that allocates, links and frees nothing and calls nothing.
Quiet == /\ UNCHANGED <<stack, mem, live>>
         /\ \/ /\ lex_pc' \notin {"element", "insert", "returned", "printed", "released"}
               /\ current' = current
            \/ lex_pc' = "insert" /\ current' = 0

LEMMA MemSeq ==
  ASSUME MemOK
  PROVE  Len(mem) \in Nat /\ DOMAIN mem = 1 .. Len(mem)
BY DEF MemOK

LEMMA QuietTypes ==
  ASSUME LexTypes, Quiet, lex_pc' \in LexPc, odd' \subseteq Odd, SizeOK'
  PROVE  LexTypes'
<1>1. stack' = stack /\ mem' = mem /\ live' = live /\ (current' = current \/ current' = 0)
  BY DEF Quiet
<1>2. MemOK' /\ StackOK' /\ Address' = Address
  BY <1>1, Zenon DEF LexTypes, MemOK, StackOK, Address
<1>3. 0 \in Address
  BY MemSeq DEF LexTypes, Address
<1>4. lex_pc' # "element"
  BY DEF Quiet
<1> QED BY <1>1, <1>2, <1>3, <1>4 DEF LexTypes

LEMMA NextStateType ==
  ASSUME NEW b
  PROVE  NextState(b) \in {"DIGIT", "NEG_DIGIT_I", "NEG_DIGIT_II", "END", "size", "invalid"}
BY DEF NextState

LEMMA InterpretStep ==
  ASSUME LexTypes, ~ Overflow, NEW b \in Int, Interpret(b)
  PROVE  Quiet /\ LexTypes' /\ odd' = odd /\ lex_pc' \in SizeStates \cup {"size", "insert"}
<1>1. /\ lex_pc' \in SizeStates \cup {"size", "insert"}
      /\ lex_pc' \in LexPc /\ lex_pc' \notin {"element", "returned", "printed", "released"}
      /\ \/ lex_pc' # "insert" /\ current' = current
         \/ lex_pc' = "insert" /\ current' = 0
  BY NextStateType DEF Interpret, Return, NULL, LexPc, SizeStates
<1>2. Quiet /\ odd' = odd
  BY <1>1 DEF Interpret, Quiet
<1>3. SizeOK'
  <2>1. CASE IsDigit(b)
    <3>1. sz' = [sz EXCEPT !.num = Append(@, b),
                  !.cell = IF Len(sz.num) + 1 < MAX_ARRAY_SIZE THEN 0 ELSE GARBAGE]
      BY <2>1 DEF Interpret
    <3>2. Append(sz.num, b) \in Seq(Int) /\ Len(Append(sz.num, b)) <= MAX_ARRAY_SIZE + 1
      BY LexerAssumption DEF LexTypes, SizeOK, Overflow
    <3>3. (IF Len(sz.num) + 1 < MAX_ARRAY_SIZE THEN 0 ELSE GARBAGE) \in Int
      BY DEF GARBAGE
    <3>4. sz'.num = Append(sz.num, b)
      BY <3>1 DEF LexTypes, SizeOK
    <3> QED BY <3>1, <3>2, <3>3, <3>4 DEF LexTypes, SizeOK
  <2>2. CASE ~ IsDigit(b)
    <3>1. sz' = [sz EXCEPT !.neg = @ \/ b = MINUS_BYTE, !.cell = b]
      BY <2>2 DEF Interpret
    <3>2. (sz.neg \/ b = MINUS_BYTE) \in BOOLEAN
      OBVIOUS
    <3> QED BY <3>1, <3>2 DEF LexTypes, SizeOK
  <2> QED BY <2>1, <2>2
<1> QED BY <1>1, <1>2, <1>3, QuietTypes DEF LexTypes

LEMMA GetElSizeStep ==
  ASSUME LexTypes, get_el_size
  PROVE  Quiet /\ LexTypes' /\ odd' = odd /\ lex_pc' \in SizeStates \cup {"size", "insert"}
<1>1. CASE Return(NULL) /\ UNCHANGED <<sz, text, stack, mem, live, odd>>
  <2>1. Quiet /\ SizeOK' /\ odd' = odd
    BY <1>1 DEF LexTypes, SizeOK, Quiet, Return, NULL
  <2> QED BY <1>1, <2>1, QuietTypes DEF Return, LexPc, LexTypes
<1>2. CASE ~ Overflow /\ \E b \in Byte : Interpret(b)
  BY <1>2, InterpretStep, LexerAssumption
<1>3. CASE ~ Overflow
           /\ \E b \in IF sz.cell = GARBAGE THEN Byte ELSE {sz.cell} : Interpret(b)
  <2>1. (IF sz.cell = GARBAGE THEN Byte ELSE {sz.cell}) \subseteq Int
    <3>1. Byte \subseteq Int /\ sz.cell \in Int
      BY LexerAssumption DEF LexTypes, SizeOK
    <3> QED BY <3>1
  <2> QED BY <1>3, <2>1, InterpretStep
<1> QED BY <1>1, <1>2, <1>3 DEF get_el_size, input

LEMMA NoteStep ==
  ASSUME NEW what, Note(what)
  PROVE  odd \cup what \subseteq odd' /\ odd' \subseteq odd \cup what \cup {"wrapped"}
BY DEF Note

LEMMA BulkSizeStep ==
  ASSUME LexTypes, BulkSize
  PROVE  /\ Quiet /\ LexTypes' /\ odd \subseteq odd'
         /\ lex_pc' \in {"insert", "CR", "body"} \/ (lex_pc' = "crash" /\ "nil_bulk" \in odd')
<1>1. odd \subseteq odd' /\ odd' \subseteq odd \cup Odd /\ (ElSize = -1 => "nil_bulk" \in odd')
  BY NoteStep DEF BulkSize, Odd
<1>2. /\ Quiet
      /\ lex_pc' \in {"insert", "CR", "body"} \/ (lex_pc' = "crash" /\ "nil_bulk" \in odd')
  BY <1>1 DEF BulkSize, Quiet, Return, NULL
<1>3. SizeOK' /\ lex_pc' \in LexPc
  BY <1>2 DEF BulkSize, LexTypes, SizeOK, LexPc, Ended
<1> QED BY <1>1, <1>2, <1>3, QuietTypes DEF LexTypes

LEMMA BulkBodyStep ==
  ASSUME LexTypes, BulkBody
  PROVE  Quiet /\ LexTypes' /\ odd' = odd /\ lex_pc' \in {"insert", "CR"}
<1>1. Quiet /\ odd' = odd /\ lex_pc' \in {"insert", "CR"}
  BY DEF BulkBody, Quiet, Return, NULL
<1>2. SizeOK' /\ lex_pc' \in LexPc
  BY <1>1 DEF BulkBody, LexTypes, SizeOK, LexPc
<1> QED BY <1>1, <1>2, QuietTypes DEF LexTypes
-----------------------------------------------------------------------------
(* What the steps that allocate, link and free do to the memory.           *)

NodeSet(C) == [type : NodeType, next : Nat, prev : Nat, content : C, size : C]

\* An allocated node is appended, and nothing else changes.
LEMMA AppendNode ==
  ASSUME NEW C, NEW M \in Seq(NodeSet(C)), NEW t \in NodeType, NEW c, NEW s, NEW K,
         K = Append(M, Node(t, c, s))
  PROVE  /\ K \in Seq(NodeSet(C \cup {c, s})) /\ Len(K) = Len(M) + 1
         /\ \A n \in 1 .. Len(M) : K[n] = M[n]
         /\ K[Len(M) + 1] = Node(t, c, s)
<1> DEFINE r == Node(t, c, s)
<1>1. r \in NodeSet(C \cup {c, s})
  BY DEF NodeSet, Node, NULL
<1>2. M \in Seq(NodeSet(C \cup {c, s}))
  <2>1. NodeSet(C) \subseteq NodeSet(C \cup {c, s})
    BY DEF NodeSet
  <2> QED BY <2>1, SeqMonotonic
<1> HIDE DEF r
<1>3. K = Append(M, r)
  BY DEF r
<1>4. K \in Seq(NodeSet(C \cup {c, s}))
  BY <1>1, <1>2, <1>3
<1>5. Len(K) = Len(M) + 1 /\ K[Len(M) + 1] = r /\ \A n \in 1 .. Len(M) : K[n] = M[n]
  BY <1>3
<1> QED BY <1>4, <1>5 DEF r

LEMMA ReplaceNode ==
  ASSUME NEW S, NEW J \in Seq(S), NEW p \in 1 .. Len(J), NEW q \in S, NEW K,
         K = [J EXCEPT ![p] = q]
  PROVE  /\ K \in Seq(S) /\ Len(K) = Len(J)
         /\ \A n \in 1 .. Len(J) : K[n] = IF n = p THEN q ELSE J[n]
BY ExceptSeq

WithPrev(M, i, v) == [M EXCEPT ![i].prev = v]
WithNext(M, i, v) == [M EXCEPT ![i].next = v]

LEMMA SetPrev ==
  ASSUME NEW C, NEW M \in Seq(NodeSet(C)), NEW i \in 1 .. Len(M), NEW v \in Nat
  PROVE  /\ WithPrev(M, i, v) \in Seq(NodeSet(C)) /\ Len(WithPrev(M, i, v)) = Len(M)
         /\ \A n \in 1 .. Len(M) :
              /\ WithPrev(M, i, v)[n].type = M[n].type
              /\ WithPrev(M, i, v)[n].content = M[n].content
              /\ WithPrev(M, i, v)[n].prev = IF n = i THEN v ELSE M[n].prev
              /\ WithPrev(M, i, v)[n].next = M[n].next
<1>1. M[i] \in NodeSet(C)
  BY ElementOfSeq
<1>2. PICK r : r = [M[i] EXCEPT !.prev = v]
  OBVIOUS
<1>3. /\ r \in NodeSet(C) /\ r.prev = v /\ r.next = M[i].next
      /\ r.type = M[i].type /\ r.content = M[i].content
  BY <1>1, <1>2 DEF NodeSet
<1>4. PICK J : J = [M EXCEPT ![i] = r]
  OBVIOUS
<1>5. /\ J \in Seq(NodeSet(C)) /\ Len(J) = Len(M)
      /\ \A n \in 1 .. Len(M) : J[n] = IF n = i THEN r ELSE M[n]
  BY <1>3, <1>4, ReplaceNode
<1>6. J = WithPrev(M, i, v)
  BY <1>2, <1>4 DEF WithPrev
<1> QED BY <1>3, <1>5, <1>6

LEMMA SetNext ==
  ASSUME NEW C, NEW M \in Seq(NodeSet(C)), NEW i \in 1 .. Len(M), NEW v \in Nat
  PROVE  /\ WithNext(M, i, v) \in Seq(NodeSet(C)) /\ Len(WithNext(M, i, v)) = Len(M)
         /\ \A n \in 1 .. Len(M) :
              /\ WithNext(M, i, v)[n].type = M[n].type
              /\ WithNext(M, i, v)[n].content = M[n].content
              /\ WithNext(M, i, v)[n].next = IF n = i THEN v ELSE M[n].next
              /\ WithNext(M, i, v)[n].prev = M[n].prev
<1>1. M[i] \in NodeSet(C)
  BY ElementOfSeq
<1>2. PICK r : r = [M[i] EXCEPT !.next = v]
  OBVIOUS
<1>3. /\ r \in NodeSet(C) /\ r.next = v /\ r.prev = M[i].prev
      /\ r.type = M[i].type /\ r.content = M[i].content
  BY <1>1, <1>2 DEF NodeSet
<1>4. PICK J : J = [M EXCEPT ![i] = r]
  OBVIOUS
<1>5. /\ J \in Seq(NodeSet(C)) /\ Len(J) = Len(M)
      /\ \A n \in 1 .. Len(M) : J[n] = IF n = i THEN r ELSE M[n]
  BY <1>3, <1>4, ReplaceNode
<1>6. J = WithNext(M, i, v)
  BY <1>2, <1>4 DEF WithNext
<1> QED BY <1>3, <1>5, <1>6

\* Linking changes prev of the element and next of the one before it.
LinkOf(M, c, p, v) == IF p = 0 THEN WithPrev(M, c, v) ELSE WithNext(WithPrev(M, c, v), p, c)
LEMMA LinkNode ==
  ASSUME NEW C, NEW M \in Seq(NodeSet(C)), NEW c \in 1 .. Len(M), NEW p \in 0 .. Len(M),
         NEW v \in Nat, NEW K, K = LinkOf(M, c, p, v)
  PROVE  /\ K \in Seq(NodeSet(C)) /\ Len(K) = Len(M)
         /\ \A n \in 1 .. Len(M) :
              /\ K[n].type = M[n].type /\ K[n].content = M[n].content
              /\ K[n].prev = IF n = c THEN v ELSE M[n].prev
              /\ K[n].next = IF n = p THEN c ELSE M[n].next
<1>1. Len(M) \in Nat /\ c \in Nat
  BY LenProperties
<1> DEFINE J == WithPrev(M, c, v)
<1>2. /\ J \in Seq(NodeSet(C)) /\ Len(J) = Len(M)
      /\ \A n \in 1 .. Len(M) :
           /\ J[n].type = M[n].type /\ J[n].content = M[n].content
           /\ J[n].prev = IF n = c THEN v ELSE M[n].prev
           /\ J[n].next = M[n].next
  BY SetPrev
<1>3. K = IF p = 0 THEN J ELSE WithNext(J, p, c)
  BY DEF LinkOf
<1> HIDE DEF J
<1>4. CASE p = 0
  BY <1>1, <1>2, <1>3, <1>4
<1>5. CASE p # 0
  <2>1. p \in 1 .. Len(J) /\ K = WithNext(J, p, c)
    BY <1>1, <1>2, <1>3, <1>5
  <2>2. /\ K \in Seq(NodeSet(C)) /\ Len(K) = Len(J)
        /\ \A n \in 1 .. Len(J) :
             /\ K[n].type = J[n].type /\ K[n].content = J[n].content
             /\ K[n].next = IF n = p THEN c ELSE J[n].next
             /\ K[n].prev = J[n].prev
    BY <1>1, <1>2, <2>1, SetNext
  <2> QED BY <1>2, <2>2
<1> QED BY <1>4, <1>5

\* The arrays a call of lexer starts with and returns.
LEMMA FrameTypes ==
  ASSUME LexTypes, stack # << >>
  PROVE  /\ Len(stack) \in Nat \ {0} /\ stack[1].array \in Address /\ stack[1].previous \in Address
         /\ Len(Tail(stack)) = Len(stack) - 1
         /\ \A k \in 1 .. Len(stack) - 1 : Tail(stack)[k] = stack[k + 1]
BY DEF LexTypes, StackOK
LEMMA GrownTypes ==
  ASSUME MemOK, NEW t \in NodeType, NEW c, NEW s,
         t = "array" => c \in 1 .. Len(mem) + 1,
         mem' = Append(mem, Node(t, c, s))
  PROVE  /\ MemOK' /\ Len(mem') = Len(mem) + 1
         /\ \A n \in 1 .. Len(mem) : mem'[n] = mem[n]
         /\ mem'[Len(mem) + 1] = Node(t, c, s)
<1>1. PICK C : mem \in Seq(NodeSet(C))
  BY DEF MemOK, NodeSet
<1>2. /\ mem' \in Seq(NodeSet(C \cup {c, s})) /\ Len(mem') = Len(mem) + 1
      /\ \A n \in 1 .. Len(mem) : mem'[n] = mem[n]
      /\ mem'[Len(mem) + 1] = Node(t, c, s)
  BY <1>1, AppendNode
<1>3. ASSUME NEW n \in 1 .. Len(mem')
      PROVE  /\ mem'[n].next \in 0 .. Len(mem') /\ mem'[n].prev \in 0 .. Len(mem')
             /\ mem'[n].type = "array" => mem'[n].content \in 1 .. Len(mem')
  <2>1. Len(mem) \in Nat
    BY MemSeq
  <2>2. CASE n = Len(mem) + 1
    BY <1>2, <2>1, <2>2 DEF Node, NULL
  <2>3. CASE n \in 1 .. Len(mem)
    BY <1>2, <2>1, <2>3, SMTT(30) DEF MemOK, Address
  <2> QED BY <1>2, <2>1, <2>2, <2>3
<1>4. \E D : mem' \in Seq([type : NodeType, next : Nat, prev : Nat, content : D, size : D])
  BY <1>2 DEF NodeSet
<1>5. 0 .. Len(mem') \ {0} = 1 .. Len(mem')
  BY <1>2, MemSeq
<1> QED BY <1>2, <1>3, <1>4, <1>5 DEF MemOK, Address

\* The frames stay frames when the memory grows.
LEMMA GrownStack ==
  ASSUME LexTypes, stack' = stack, Len(mem') \in Nat, Len(mem) <= Len(mem')
  PROVE  StackOK' /\ Address \subseteq Address' /\ current \in Address'
<1>1. Address \subseteq Address' /\ current \in Address'
  BY MemSeq DEF LexTypes, Address
<1>2. \E Z : stack' \in Seq([size : Z, inserted : Z, array : Nat, previous : Nat])
  BY DEF LexTypes, StackOK
<1> QED BY <1>1, <1>2 DEF LexTypes, StackOK

NewBulk ==
  /\ lex_pc' = "insert" /\ stack' = stack /\ sz' = sz /\ odd' = odd /\ cut' = cut
  /\ mem' = Append(mem, Node("bulk", text, ElSize)) /\ current' = Len(mem) + 1
  /\ live' = live \cup Pieces(Len(mem) + 1, "bulk")

LEMMA PiecesType ==
  ASSUME NEW a, NEW t
  PROVE  Pieces(a, t) \subseteq {a} \X {"struct", "node", "content"}
BY DEF Pieces

LEMMA NewBulkTypes ==
  ASSUME LexTypes, NewBulk
  PROVE  LexTypes'
<1>1. MemOK' /\ Len(mem') = Len(mem) + 1 /\ Len(mem) \in Nat
  BY GrownTypes, MemSeq DEF LexTypes, NewBulk, NodeType
<1>2. StackOK' /\ current' \in Address'
  BY <1>1, GrownStack DEF NewBulk, Address
<1>3. live' \subseteq (1 .. Len(mem')) \X {"struct", "node", "content"}
  <2>1. 1 .. Len(mem) \subseteq 1 .. Len(mem') /\ Len(mem) + 1 \in 1 .. Len(mem')
    BY <1>1
  <2> QED BY <2>1, PiecesType DEF NewBulk, LexTypes
<1>4. SizeOK'
  BY DEF LexTypes, NewBulk, SizeOK
<1> QED BY <1>1, <1>2, <1>3, <1>4 DEF LexTypes, NewBulk, LexPc

LEMMA TerminatorStep ==
  ASSUME LexTypes, is_valid_terminator
  PROVE  /\ odd' = odd /\ LexTypes'
         /\ (Quiet /\ lex_pc' \in {"insert", "LF"}) \/ (NewBulk /\ ~ cut)
<1>1. odd' = odd /\ stack' = stack /\ sz' = sz
  BY DEF is_valid_terminator
<1>2. CASE /\ UNCHANGED <<mem, live>>
           /\ \/ lex_pc' = "LF" /\ current' = current
              \/ lex_pc' = "insert" /\ current' = 0
  <2>1. Quiet /\ lex_pc' \in {"insert", "LF"} /\ SizeOK'
    BY <1>1, <1>2 DEF Quiet, LexTypes, SizeOK
  <2> QED BY <1>1, <2>1, QuietTypes DEF LexPc, LexTypes
<1>3. CASE ~ cut /\ cut' = cut /\ new_bulk_str
  <2>1. Len(Append(mem, Node("bulk", text, ElSize))) = Len(mem) + 1
    BY MemSeq, GrownTypes DEF LexTypes, MemOK
  <2>2. NewBulk
    BY <1>1, <1>3, <2>1 DEF NewBulk, new_bulk_str, Return
  <2> QED BY <1>1, <1>3, <2>2, NewBulkTypes
<1> QED BY <1>1, <1>2, <1>3
     DEF is_valid_terminator, RecvByte, RecvNothing, Return, NULL
\* The markers of an empty or nil array and its ArrayNode.
NewMarker ==
  /\ lex_pc' = "insert" /\ stack' = stack /\ sz' = sz /\ cut' = cut
  /\ odd \subseteq odd' /\ odd' \subseteq Odd /\ "marker" \in odd'
  /\ \E t \in Markers :
       mem' = Append(Append(mem, Node(t, 0, 0)), Node("array", Len(mem) + 1, 1))
  /\ live' = live \cup Pieces(Len(mem) + 1, "marker") \cup Pieces(Len(mem) + 2, "array")
  /\ current' = Len(mem) + 2

\* A new call of lexer.
Pushed ==
  /\ lex_pc' = "element" /\ UNCHANGED <<sz, cut, current, mem, live>>
  /\ odd \subseteq odd' /\ odd' \subseteq Odd
  /\ stack' = <<[size |-> ElSize, inserted |-> 0, array |-> 0, previous |-> 0]>> \o stack

LEMMA AppendTwo ==
  ASSUME NEW S, NEW M \in Seq(S), NEW a, NEW b
  PROVE  M \o <<a, b>> = Append(Append(M, a), b) /\ Len(M \o <<a, b>>) = Len(M) + 2
<1>1. M \in Seq(S \cup {a, b})
  BY SeqMonotonic
<1> QED BY <1>1

LEMMA NewMarkerMem ==
  ASSUME MemOK, NewMarker
  PROVE  /\ MemOK' /\ Len(mem') = Len(mem) + 2
         /\ \A n \in 1 .. Len(mem) : mem'[n] = mem[n]
         /\ \E t \in Markers : mem'[Len(mem) + 1] = Node(t, 0, 0)
         /\ mem'[Len(mem) + 2] = Node("array", Len(mem) + 1, 1)
<1>1. PICK C : mem \in Seq(NodeSet(C))
  BY DEF MemOK, NodeSet
<1>2. PICK t \in Markers :
        mem' = Append(Append(mem, Node(t, 0, 0)), Node("array", Len(mem) + 1, 1))
  BY DEF NewMarker
<1>3. PICK M : M = Append(mem, Node(t, 0, 0))
  OBVIOUS
<1>4. Len(mem) \in Nat
  BY MemSeq
<1>5. /\ M \in Seq(NodeSet(C \cup {0})) /\ Len(M) = Len(mem) + 1
      /\ \A n \in 1 .. Len(mem) : M[n] = mem[n]
      /\ M[Len(mem) + 1] = Node(t, 0, 0)
  <2>1. t \in NodeType /\ C \cup {0, 0} = C \cup {0}
    BY DEF NodeType
  <2> QED BY <1>1, <1>3, <2>1, AppendNode
<1>6. /\ mem' \in Seq(NodeSet((C \cup {0}) \cup {Len(mem) + 1, 1})) /\ Len(mem') = Len(M) + 1
      /\ \A n \in 1 .. Len(M) : mem'[n] = M[n]
      /\ mem'[Len(M) + 1] = Node("array", Len(mem) + 1, 1)
  <2>1. "array" \in NodeType /\ M \in Seq(NodeSet(C \cup {0}))
    BY <1>5 DEF NodeType
  <2>2. mem' = Append(M, Node("array", Len(mem) + 1, 1))
    BY <1>2, <1>3
  <2> QED BY <2>1, <2>2, AppendNode
<1>7. /\ Len(mem') = Len(mem) + 2 /\ \A n \in 1 .. Len(mem) : mem'[n] = mem[n]
      /\ mem'[Len(mem) + 1] = Node(t, 0, 0)
      /\ mem'[Len(mem) + 2] = Node("array", Len(mem) + 1, 1)
  BY <1>4, <1>5, <1>6
<1>8. ASSUME NEW n \in 1 .. Len(mem')
      PROVE  /\ mem'[n].next \in 0 .. Len(mem') /\ mem'[n].prev \in 0 .. Len(mem')
             /\ mem'[n].type = "array" => mem'[n].content \in 1 .. Len(mem')
  <2>1. CASE n = Len(mem) + 1
    BY <1>4, <1>7, <2>1 DEF Node, NULL, Markers
  <2>2. CASE n = Len(mem) + 2
    BY <1>4, <1>7, <2>2 DEF Node, NULL
  <2>3. CASE n \in 1 .. Len(mem)
    <3>1. mem'[n] = mem[n]
      BY <1>7, <2>3
    <3>2. /\ mem[n].next \in 0 .. Len(mem) /\ mem[n].prev \in 0 .. Len(mem)
          /\ mem[n].type = "array" => mem[n].content \in (0 .. Len(mem)) \ {0}
      BY <2>3 DEF MemOK, Address
    <3> QED BY <1>4, <1>7, <3>1, <3>2
  <2> QED BY <1>4, <1>7, <2>1, <2>2, <2>3
<1>9. \E D : mem' \in Seq([type : NodeType, next : Nat, prev : Nat, content : D, size : D])
  BY <1>6 DEF NodeSet
<1>10. 0 .. Len(mem') \ {0} = 1 .. Len(mem')
  BY <1>4, <1>7
<1> QED BY <1>7, <1>8, <1>9, <1>10 DEF MemOK, Address

LEMMA NewMarkerTypes ==
  ASSUME LexTypes, NewMarker
  PROVE  LexTypes'
<1>1. MemOK' /\ Len(mem') = Len(mem) + 2 /\ Len(mem) \in Nat
  BY NewMarkerMem, MemSeq DEF LexTypes
<1>2. StackOK' /\ current' \in Address'
  BY <1>1, GrownStack DEF NewMarker, Address
<1>3. live' \subseteq (1 .. Len(mem')) \X {"struct", "node", "content"}
  <2>1. /\ 1 .. Len(mem) \subseteq 1 .. Len(mem')
        /\ {Len(mem) + 1, Len(mem) + 2} \subseteq 1 .. Len(mem')
    BY <1>1
  <2>2. Pieces(Len(mem) + 1, "marker") \cup Pieces(Len(mem) + 2, "array")
          \subseteq (1 .. Len(mem')) \X {"struct", "node", "content"}
    BY <2>1, PiecesType
  <2> QED BY <2>1, <2>2 DEF NewMarker, LexTypes
<1>4. SizeOK'
  BY DEF LexTypes, NewMarker, SizeOK
<1> QED BY <1>1, <1>2, <1>3, <1>4 DEF LexTypes, NewMarker, LexPc

\* A frame is put on the stack, and the others move up.
FrameSet(Z) == [size : Z, inserted : Z, array : Nat, previous : Nat]

LEMMA PushFrame ==
  ASSUME NEW T, NEW s \in Seq(T), NEW f \in T, NEW u, u = <<f>> \o s
  PROVE  /\ u \in Seq(T) /\ Len(u) = Len(s) + 1 /\ u[1] = f
         /\ \A k \in 1 .. Len(s) : u[k + 1] = s[k]
OBVIOUS

LEMMA MoreFrames ==
  ASSUME NEW Z, NEW s \in Seq(FrameSet(Z)), NEW Y, Z \subseteq Y
  PROVE  s \in Seq(FrameSet(Y))
<1>1. FrameSet(Z) \subseteq FrameSet(Y)
  BY DEF FrameSet
<1> QED BY <1>1, SeqMonotonic

LEMMA PushedStack ==
  ASSUME LexTypes, Pushed
  PROVE  /\ StackOK' /\ Len(stack) \in Nat /\ Len(stack') = Len(stack) + 1
         /\ stack'[1].array = 0 /\ stack'[1].previous = 0
         /\ \A k \in 1 .. Len(stack) : stack'[k + 1] = stack[k]
<1>1. PICK Z : stack \in Seq(FrameSet(Z))
  BY DEF LexTypes, StackOK, FrameSet
<1>2. PICK f : f = [size |-> ElSize, inserted |-> 0, array |-> 0, previous |-> 0]
  OBVIOUS
<1>3. PICK Y : stack \in Seq(FrameSet(Y)) /\ f \in FrameSet(Y)
  <2>1. stack \in Seq(FrameSet(Z \cup {ElSize, 0}))
    BY <1>1, MoreFrames
  <2>2. f \in FrameSet(Z \cup {ElSize, 0})
    BY <1>2 DEF FrameSet
  <2> QED BY <2>1, <2>2
<1>4. stack' = <<f>> \o stack /\ f.array = 0 /\ f.previous = 0
  BY <1>2 DEF Pushed
<1>5. /\ stack' \in Seq(FrameSet(Y))
      /\ Len(stack') = Len(stack) + 1 /\ stack'[1] = f
      /\ \A k \in 1 .. Len(stack) : stack'[k + 1] = stack[k]
  BY <1>3, <1>4, PushFrame
<1>6. Len(stack) \in Nat /\ 0 \in Address /\ Address' = Address
  BY <1>1, MemSeq DEF LexTypes, Address, Pushed
<1>7. ASSUME NEW k \in 1 .. Len(stack')
      PROVE  stack'[k].array \in Address /\ stack'[k].previous \in Address
  <2>1. CASE k = 1
    BY <1>4, <1>5, <1>6, <2>1
  <2>2. CASE k # 1
    <3>1. k - 1 \in 1 .. Len(stack) /\ k = (k - 1) + 1
      BY <1>4, <1>5, <1>6, <2>2
    <3>2. stack'[k] = stack[k - 1]
      BY <1>5, <3>1
    <3> QED BY <3>1, <3>2 DEF LexTypes, StackOK
  <2> QED BY <2>1, <2>2
<1>8. \E W : stack' \in Seq([size : W, inserted : W, array : Nat, previous : Nat])
  BY <1>5 DEF FrameSet
<1> QED BY <1>4, <1>5, <1>6, <1>7, <1>8 DEF StackOK

LEMMA PushedTypes ==
  ASSUME LexTypes, Pushed
  PROVE  LexTypes'
<1>1. MemOK' /\ SizeOK' /\ Address' = Address /\ Len(mem') = Len(mem)
  BY Zenon DEF LexTypes, Pushed, MemOK, SizeOK, Address
<1>2. StackOK' /\ Len(stack') # 0
  BY PushedStack
<1>3. stack' # << >>
  BY <1>2
<1> QED BY <1>1, <1>2, <1>3 DEF LexTypes, Pushed, LexPc

LEMMA ArraySizeStep ==
  ASSUME LexTypes, ArraySize
  PROVE  /\ LexTypes' /\ odd \subseteq odd'
         /\ (Quiet /\ lex_pc' = "insert") \/ NewMarker \/ Pushed
<1>1. /\ odd \subseteq odd' /\ odd' \subseteq Odd
      /\ ElSize \in {-1, 0} => "marker" \in odd'
  <2>1. PICK w : w = IF ElSize \in {-1, 0} THEN {"marker"} ELSE {}
    OBVIOUS
  <2>2. Note(w)
    BY <2>1 DEF ArraySize
  <2>3. odd \cup w \subseteq odd' /\ odd' \subseteq odd \cup w \cup {"wrapped"}
    BY <2>2, NoteStep
  <2> QED BY <2>1, <2>3 DEF Odd, LexTypes
<1>2. sz' = sz /\ cut' = cut /\ SizeOK'
  BY DEF ArraySize, input, SizeOK, LexTypes
<1>3. CASE ElSize = -2 /\ Return(NULL) /\ UNCHANGED <<stack, mem, live>>
  <2>1. Quiet /\ lex_pc' = "insert" /\ lex_pc' \in LexPc
    BY <1>3 DEF Quiet, Return, NULL, LexPc
  <2> QED BY <1>1, <1>2, <2>1, QuietTypes
<1>4. CASE /\ ElSize \in {-1, 0}
           /\ mem' = mem \o <<Node(IF ElSize = 0 THEN "EMPTY_ARRAY" ELSE "NILL_ARRAY",
                                       NULL, 0),
                              Node("array", Len(mem) + 1, 1)>>
           /\ live' = live \cup Pieces(Len(mem) + 1, "marker")
                          \cup Pieces(Len(mem) + 2, "array")
           /\ Return(Len(mem'))
           /\ UNCHANGED stack
  <2>1. PICK t \in Markers : t = IF ElSize = 0 THEN "EMPTY_ARRAY" ELSE "NILL_ARRAY"
    BY DEF Markers
  <2>2. mem' = mem \o <<Node(t, 0, 0), Node("array", Len(mem) + 1, 1)>>
    BY <1>4, <2>1 DEF NULL
  <2>3. /\ mem' = Append(Append(mem, Node(t, 0, 0)), Node("array", Len(mem) + 1, 1))
        /\ Len(mem') = Len(mem) + 2
    BY <2>2, AppendTwo DEF LexTypes, MemOK
  <2>4. NewMarker
    BY <1>1, <1>2, <1>4, <2>3 DEF NewMarker, Return
  <2> QED BY <1>1, <2>4, NewMarkerTypes
<1>5. CASE /\ stack' = <<[size |-> ElSize, inserted |-> 0, array |-> NULL,
                          previous |-> NULL]>> \o stack
           /\ lex_pc' = "element"
           /\ UNCHANGED <<current, mem, live>>
  <2>1. Pushed
    BY <1>1, <1>2, <1>5 DEF Pushed, NULL
  <2> QED BY <1>1, <2>1, PushedTypes
<1> QED BY <1>3, <1>4, <1>5 DEF ArraySize
\* An element that starts with another byte.
Unset ==
  /\ UNCHANGED <<stack, mem, live, sz, cut>> /\ stack # << >>
  /\ odd' = odd \cup {"unset"}
  /\ \/ lex_pc' = "insert" /\ current' \in {0, stack[1].previous}
     \/ lex_pc' = "undefined" /\ current' = current

LEMMA UnsetTypes ==
  ASSUME LexTypes, Unset
  PROVE  LexTypes'
<1>1. MemOK' /\ SizeOK' /\ StackOK' /\ Address' = Address
  BY Zenon DEF LexTypes, Unset, MemOK, SizeOK, StackOK, Address
<1>2. 0 \in Address /\ stack[1].previous \in Address
  BY MemSeq, FrameTypes DEF LexTypes, Address, Unset
<1>3. lex_pc' \in LexPc /\ lex_pc' # "element" /\ current' \in Address /\ odd' \subseteq Odd
  BY <1>2 DEF Unset, LexTypes, LexPc, Ended, Odd
<1>4. mem' = mem /\ live' = live
  BY DEF Unset
<1> QED BY <1>1, <1>3, <1>4 DEF LexTypes

\* The call for a nested array, noted as deep when it may not fit the stack.
Called == /\ UNCHANGED <<stack, mem, live, current>>
          /\ \E what \in {"array", "bulk"} : sz' = NoSize(what)
          /\ odd' \in {odd, odd \cup {"deep"}}
          /\ lex_pc' = "START" \/ (lex_pc' = "crash" /\ "deep" \in odd')

LEMMA ElementStep ==
  ASSUME LexTypes, Element
  PROVE  /\ LexTypes'
         /\ \/ /\ Quiet /\ odd \subseteq odd'
               /\ lex_pc' \in {"START", "insert"} \/ (lex_pc' = "crash" /\ "deep" \in odd')
            \/ Unset /\ ~ cut
<1>1. stack # << >>
  BY DEF Element, LexTypes
<1>2. \/ Called
      \/ /\ UNCHANGED <<stack, mem, live>> /\ lex_pc' = "insert" /\ current' = 0
         /\ sz' = sz /\ odd' = odd
      \/ Unset /\ ~ cut
  <2>1. CASE RecvNothing /\ Return(NULL) /\ UNCHANGED <<sz, odd>>
    BY <2>1 DEF Element, Return, NULL
  <2>2. ASSUME NEW b \in Byte, RecvByte(b), b \in {DOLLAR_BYTE, ASTERISK_BYTE},
               \/ lex_pc' = "START"
               \/ b = ASTERISK_BYTE /\ Len(stack) >= MaxDepth /\ lex_pc' = "crash",
               sz' = NoSize(IF b = DOLLAR_BYTE THEN "bulk" ELSE "array"),
               odd' = odd \cup {o \in {"deep"} : b = ASTERISK_BYTE /\ Len(stack) >= MaxDepth},
               UNCHANGED current
        PROVE  Called
    <3>1. /\ odd' \in {odd, odd \cup {"deep"}}
          /\ lex_pc' = "START" \/ (lex_pc' = "crash" /\ "deep" \in odd')
      BY <2>2
    <3> QED BY <2>2, <3>1 DEF Called, Element
  <2>3. ASSUME NEW b \in Byte, RecvByte(b), odd' = odd \cup {"unset"}, UNCHANGED sz,
               \/ \E a \in {NULL, stack[1].previous} : Return(a)
               \/ lex_pc' = "undefined" /\ UNCHANGED current
        PROVE  Unset /\ ~ cut
    BY <1>1, <2>3 DEF Unset, Element, RecvByte, Return, NULL
  <2> QED BY <2>1, <2>2, <2>3 DEF Element
<1>3. CASE Unset /\ ~ cut
  BY <1>3, UnsetTypes
<1>4. ASSUME NEW what \in {"array", "bulk"}, sz' = NoSize(what)
      PROVE  SizeOK'
  <2>1. << >> \in Seq(Int) /\ Len(<< >>) = 0 /\ 0 <= MAX_ARRAY_SIZE + 1
    BY LexerAssumption
  <2> QED BY <1>4, <2>1 DEF SizeOK, NoSize
<1>5. CASE Called
  <2>1. Quiet /\ SizeOK' /\ odd \subseteq odd'
    BY <1>4, <1>5 DEF Called, Quiet
  <2>2. lex_pc' \in LexPc /\ odd' \subseteq Odd
    BY <1>5 DEF Called, LexTypes, LexPc, SizeStates, Ended, Odd
  <2> QED BY <1>5, <2>1, <2>2, QuietTypes DEF Called
<1>6. CASE /\ UNCHANGED <<stack, mem, live>> /\ lex_pc' = "insert" /\ current' = 0
           /\ sz' = sz /\ odd' = odd
  <2>1. Quiet /\ SizeOK' /\ odd' \subseteq Odd /\ lex_pc' \in LexPc
    BY <1>6 DEF Quiet, LexTypes, SizeOK, LexPc
  <2> QED BY <1>6, <2>1, QuietTypes
<1> QED BY <1>2, <1>3, <1>5, <1>6

-----------------------------------------------------------------------------
(* delete_array.                                                           *)

\* The nodes it walks back over, and those it frees from there.
Back(a) == Closure(a, Before)
Swept(a) == UNION {Closure(n, Below) : n \in {m \in Back(a) : mem[m].prev = 0}}

LEMMA DeletedNodes ==
  ASSUME NEW a
  PROVE  Back(a) \subseteq DOMAIN mem /\ Swept(a) \subseteq DOMAIN mem
BY DEF Back, Swept, Closure

\* delete_array frees and goes on to the state next, or does not come back.
Deleted(a, next) ==
  \/ LoopsBack(Back(a)) /\ lex_pc' = "hang" /\ live' = live
  \/ LoopsOn(Swept(a)) /\ lex_pc' = "undefined" /\ live' = live
  \/ HasMarker(Swept(a)) /\ lex_pc' = "crash" /\ live' = live
  \/ "deep" \in odd /\ lex_pc' = "crash" /\ live' = live
  \/ /\ ~ LoopsBack(Back(a)) /\ ~ LoopsOn(Swept(a)) /\ ~ HasMarker(Swept(a))
     /\ lex_pc' = next /\ live' = live \ Freed(Swept(a))

LEMMA AbandonEffect ==
  ASSUME Abandon
  PROVE  /\ lex_pc = "insert" /\ current = 0 /\ stack # << >> /\ stack' = Tail(stack)
         /\ UNCHANGED <<current, sz, mem, odd, cut>>
         /\ Deleted(stack[1].previous, "insert")
BY DEF Abandon, delete_array, TooDeep, Deleted, Back, Swept, NULL, input

LEMMA ReleaseEffect ==
  ASSUME Release
  PROVE  /\ UNCHANGED <<current, stack, sz, mem, odd, cut>>
         /\ \/ lex_pc = "returned" /\ current = 0 /\ lex_pc' = "released" /\ live' = live
            \/ lex_pc = "printed" /\ Deleted(current, "released")
BY DEF Release, delete_array, TooDeep, Deleted, Back, Swept, NULL, input

LEMMA PrintEffect ==
  ASSUME print_array
  PROVE  /\ lex_pc = "returned" /\ UNCHANGED <<current, stack, sz, mem, live, odd, cut>>
         /\ \/ lex_pc' = "printed"
            \/ lex_pc' = "hang" /\ \E n \in DOMAIN mem : mem[n].next = n
            \/ lex_pc' = "crash" /\ (HasMarker(DOMAIN mem) \/ "deep" \in odd)
<1>1. Closure(current, Below) \subseteq DOMAIN mem
  BY DEF Closure
<1> QED BY <1>1 DEF print_array, HasMarker, LoopsOn, TooDeep, input

LEMMA PoppedStack ==
  ASSUME LexTypes, stack # << >>, stack' = Tail(stack), Address \subseteq Address'
  PROVE  StackOK'
<1>1. PICK Z : stack \in Seq(FrameSet(Z))
  BY DEF LexTypes, StackOK, FrameSet
<1>2. stack' \in Seq(FrameSet(Z)) /\ Len(stack) \in Nat /\ Len(stack') = Len(stack) - 1
  BY <1>1
<1>3. ASSUME NEW k \in 1 .. Len(stack')
      PROVE  stack'[k].array \in Address' /\ stack'[k].previous \in Address'
  <2>1. k \in 1 .. Len(stack) - 1 /\ k + 1 \in 1 .. Len(stack)
    BY <1>2
  <2>2. stack'[k] = stack[k + 1]
    BY <2>1, FrameTypes
  <2> QED BY <2>1, <2>2 DEF LexTypes, StackOK
<1> QED BY <1>2, <1>3 DEF StackOK, FrameSet

\* The steps that only move on, free or return.
LEMMA FreeingTypes ==
  ASSUME LexTypes, UNCHANGED <<current, sz, mem, odd>>, live' \subseteq live,
         lex_pc' \in LexPc \ {"element"}, StackOK'
  PROVE  LexTypes'
<1>1. MemOK' /\ SizeOK' /\ Address' = Address /\ mem' = mem
  BY Zenon DEF LexTypes, MemOK, SizeOK, Address
<1> QED BY <1>1 DEF LexTypes

LEMMA FreeingSteps ==
  ASSUME LexTypes, Abandon \/ Returned \/ print_array \/ Release
  PROVE  LexTypes'
<1>1. CASE Abandon
  <2>1. /\ stack # << >> /\ stack' = Tail(stack) /\ UNCHANGED <<current, sz, mem, odd>>
        /\ Deleted(stack[1].previous, "insert")
    BY <1>1, AbandonEffect
  <2>2. StackOK'
    BY <2>1, PoppedStack DEF Address
  <2>3. live' \subseteq live /\ lex_pc' \in LexPc \ {"element"}
    BY <2>1 DEF Deleted, LexPc, Ended
  <2> QED BY <2>1, <2>2, <2>3, FreeingTypes
<1>2. CASE Returned
  <2>1. /\ UNCHANGED <<current, sz, mem, odd>> /\ stack' = stack /\ live' = live
        /\ lex_pc' = "returned"
    BY <1>2 DEF Returned
  <2>2. StackOK'
    BY <2>1, Zenon DEF LexTypes, StackOK, Address
  <2> QED BY <2>1, <2>2, FreeingTypes DEF LexPc
<1>3. CASE print_array
  <2>1. /\ UNCHANGED <<current, sz, mem, odd>> /\ stack' = stack /\ live' = live
        /\ lex_pc' \in {"printed", "hang", "crash"}
    BY <1>3, PrintEffect
  <2>2. StackOK'
    BY <2>1, Zenon DEF LexTypes, StackOK, Address
  <2> QED BY <2>1, <2>2, FreeingTypes DEF LexPc, Ended
<1>4. CASE Release
  <2>1. /\ UNCHANGED <<current, sz, mem, odd>> /\ stack' = stack
        /\ live' \subseteq live /\ lex_pc' \in Ended
    BY <1>4, ReleaseEffect DEF Deleted, Ended
  <2>2. StackOK'
    BY <2>1, Zenon DEF LexTypes, StackOK, Address
  <2> QED BY <2>1, <2>2, FreeingTypes DEF LexPc, Ended
<1> QED BY <1>1, <1>2, <1>3, <1>4
-----------------------------------------------------------------------------
(* Insert.                                                                 *)

\* The array the element goes into, and what becomes its prev.
TheArray == IF stack[1].array = 0 THEN Len(mem) + 1 ELSE stack[1].array
ThePrev == IF stack[1].array = 0 THEN Len(mem) + 1 ELSE stack[1].previous

LinkedMem ==
  /\ Len(mem') = IF stack[1].array = 0 THEN Len(mem) + 1 ELSE Len(mem)
  /\ \A n \in 1 .. Len(mem) :
       /\ mem'[n].type = mem[n].type /\ mem'[n].content = mem[n].content
       /\ mem'[n].prev = IF n = current THEN ThePrev ELSE mem[n].prev
       /\ mem'[n].next = IF n = stack[1].previous THEN current ELSE mem[n].next
  /\ stack[1].array = 0 =>
       /\ mem'[Len(mem) + 1].type = "array" /\ mem'[Len(mem) + 1].content = current
       /\ mem'[Len(mem) + 1].prev = 0 /\ mem'[Len(mem) + 1].next = 0

Inserted ==
  /\ lex_pc = "insert" /\ current \in 1 .. Len(mem) /\ stack # << >>
  /\ UNCHANGED <<sz, odd, cut>>
  /\ LinkedMem
  /\ live' = live \cup Pieces(TheArray, "array")
  /\ \/ /\ lex_pc' = "element" /\ current' = current /\ Len(stack') = Len(stack)
        /\ stack'[1].array = TheArray /\ stack'[1].previous = current
        /\ \A k \in 2 .. Len(stack) : stack'[k] = stack[k]
     \/ lex_pc' = "insert" /\ current' = TheArray /\ stack' = Tail(stack)

LEMMA InsertMem ==
  ASSUME LexTypes, Insert
  PROVE  LinkedMem /\ MemOK'
<1>1. PICK C : mem \in Seq(NodeSet(C))
  BY DEF LexTypes, MemOK, NodeSet
<1>2. Len(mem) \in Nat /\ DOMAIN mem = 1 .. Len(mem)
  BY MemSeq DEF LexTypes
<1>3. /\ current \in 1 .. Len(mem) /\ stack[1].previous \in 0 .. Len(mem)
      /\ stack[1].array \in 0 .. Len(mem)
      /\ ThePrev \in Nat
  BY <1>2, FrameTypes DEF Insert, LexTypes, Address, ThePrev, NULL
<1>4. PICK K : K = LinkOf(mem, current, stack[1].previous, ThePrev)
  OBVIOUS
<1>5. /\ K \in Seq(NodeSet(C)) /\ Len(K) = Len(mem)
      /\ \A n \in 1 .. Len(mem) :
           /\ K[n].type = mem[n].type /\ K[n].content = mem[n].content
           /\ K[n].prev = IF n = current THEN ThePrev ELSE mem[n].prev
           /\ K[n].next = IF n = stack[1].previous THEN current ELSE mem[n].next
  BY <1>1, <1>3, <1>4, LinkNode, SMTT(30)
<1>6. K = Linked(stack[1], TheArray)
  BY <1>4 DEF Linked, LinkOf, WithPrev, WithNext, TheArray, ThePrev, NULL
<1>7. mem' = IF stack[1].array = 0 THEN K \o <<Node("array", current, stack[1].size)>>
             ELSE K \o << >>
  BY <1>6 DEF Insert, TheArray, NULL
<1>8. LinkedMem /\ \E D : mem' \in Seq(NodeSet(D))
  <2>1. CASE stack[1].array = 0
    <3>1. PICK r : r = Node("array", current, stack[1].size)
      OBVIOUS
    <3>2. mem' = Append(K, r)
      BY <1>5, <1>7, <2>1, <3>1
    <3>3. "array" \in NodeType
      BY DEF NodeType
    <3>4. /\ mem' \in Seq(NodeSet(C \cup {current, stack[1].size})) /\ Len(mem') = Len(K) + 1
          /\ \A n \in 1 .. Len(K) : mem'[n] = K[n]
          /\ mem'[Len(K) + 1] = r
      BY <1>5, <3>1, <3>2, <3>3, AppendNode, SMTT(30)
    <3>5. r.type = "array" /\ r.content = current /\ r.prev = 0 /\ r.next = 0
      BY <3>1 DEF Node, NULL
    <3>6. LinkedMem
      BY <1>5, <2>1, <3>4, <3>5 DEF LinkedMem
    <3> QED BY <3>4, <3>6
  <2>2. CASE stack[1].array # 0
    <3>1. mem' = K
      BY <1>5, <1>7, <2>2
    <3> QED BY <1>5, <2>2, <3>1 DEF LinkedMem
  <2> QED BY <2>1, <2>2
<1>9. Len(mem') \in Nat /\ Len(mem) <= Len(mem') /\ ThePrev \in 0 .. Len(mem')
  BY <1>2, <1>3, <1>8 DEF LinkedMem, ThePrev
<1>10. ASSUME NEW n \in 1 .. Len(mem')
       PROVE  /\ mem'[n].next \in 0 .. Len(mem') /\ mem'[n].prev \in 0 .. Len(mem')
              /\ mem'[n].type = "array" => mem'[n].content \in 1 .. Len(mem')
  <2>1. CASE n \in 1 .. Len(mem)
    <3>1. /\ mem[n].next \in 0 .. Len(mem) /\ mem[n].prev \in 0 .. Len(mem)
          /\ mem[n].type = "array" => mem[n].content \in (0 .. Len(mem)) \ {0}
      BY <2>1 DEF LexTypes, MemOK, Address
    <3>2. /\ mem'[n].type = mem[n].type /\ mem'[n].content = mem[n].content
          /\ mem'[n].prev \in {mem[n].prev, ThePrev} /\ mem'[n].next \in {mem[n].next, current}
      BY <1>8, <2>1 DEF LinkedMem
    <3> QED BY <1>2, <1>3, <1>9, <3>1, <3>2, SMTT(30)
  <2>2. CASE n = Len(mem) + 1
    <3>1. stack[1].array = 0
      BY <1>2, <1>8, <2>2 DEF LinkedMem
    <3>2. mem'[n].content = current /\ mem'[n].prev = 0 /\ mem'[n].next = 0
      BY <1>8, <2>2, <3>1 DEF LinkedMem
    <3> QED BY <1>2, <1>3, <1>9, <3>2
  <2> QED BY <1>2, <1>8, <2>1, <2>2 DEF LinkedMem
<1>11. (0 .. Len(mem')) \ {0} = 1 .. Len(mem')
  BY <1>9
<1> QED BY <1>8, <1>10, <1>11 DEF MemOK, Address, NodeSet

LEMMA InsertStack ==
  ASSUME LexTypes, Insert, lex_pc' = "element"
  PROVE  /\ current' = current /\ Len(stack') = Len(stack)
         /\ stack'[1].array = TheArray /\ stack'[1].previous = current
         /\ \A k \in 2 .. Len(stack) : stack'[k] = stack[k]
         /\ \E Z : stack' \in Seq(FrameSet(Z))
<1>1. PICK Z : stack \in Seq(FrameSet(Z))
  BY DEF LexTypes, StackOK, FrameSet
<1>2. stack # << >> /\ lex_pc = "insert"
  BY DEF Insert
<1>3. PICK f : f = stack[1]
  OBVIOUS
<1>4. f \in FrameSet(Z) /\ Len(stack) \in Nat \ {0}
  BY <1>1, <1>2, <1>3
<1>5. PICK g : g = [f EXCEPT !.inserted = @ + 1, !.array = TheArray, !.previous = current]
  OBVIOUS
<1>6. current' = current /\ stack' = <<g>> \o Tail(stack)
  BY <1>2, <1>3, <1>5 DEF Insert, TheArray, NULL
<1>7. TheArray \in Nat /\ current \in Nat
  BY FrameTypes, <1>2, MemSeq DEF TheArray, LexTypes, Address
<1> DEFINE Y == Z \cup {f.inserted + 1}
<1>8. g \in FrameSet(Y) /\ g.array = TheArray /\ g.previous = current
  BY <1>4, <1>5, <1>7 DEF FrameSet
<1>9. stack \in Seq(FrameSet(Y))
  BY <1>1, MoreFrames
<1> HIDE DEF Y
<1>10. Tail(stack) \in Seq(FrameSet(Y)) /\ Len(Tail(stack)) = Len(stack) - 1
       /\ \A k \in 1 .. Len(Tail(stack)) : Tail(stack)[k] = stack[k + 1]
  BY <1>2, <1>9, HeadTailProperties
<1>11. PICK t : t = Tail(stack)
  OBVIOUS
<1>12. /\ stack' \in Seq(FrameSet(Y)) /\ Len(stack') = Len(t) + 1 /\ stack'[1] = g
       /\ \A k \in 1 .. Len(t) : stack'[k + 1] = t[k]
  BY <1>6, <1>8, <1>10, <1>11, PushFrame
<1>13. ASSUME NEW k \in 2 .. Len(stack) PROVE stack'[k] = stack[k]
  <2>1. k - 1 \in 1 .. Len(t) /\ (k - 1) + 1 = k
    BY <1>4, <1>10, <1>11
  <2> QED BY <1>10, <1>11, <1>12, <2>1
<1> QED BY <1>4, <1>6, <1>8, <1>10, <1>11, <1>12, <1>13

LEMMA InsertStep ==
  ASSUME LexTypes, Insert
  PROVE  Inserted /\ LexTypes'
<1>1. Len(mem) \in Nat
  BY MemSeq DEF LexTypes
<1>2. LinkedMem /\ MemOK'
  BY InsertMem
<1>3. /\ lex_pc = "insert" /\ current \in 1 .. Len(mem) /\ stack # << >>
      /\ UNCHANGED <<sz, odd, cut>> /\ live' = live \cup Pieces(TheArray, "array")
  BY <1>1 DEF Insert, LexTypes, Address, TheArray, NULL, input
<1>4. \/ lex_pc' = "element"
      \/ lex_pc' = "insert" /\ current' = TheArray /\ stack' = Tail(stack)
  BY <1>3 DEF Insert, TheArray, NULL
<1>5. Inserted
  BY <1>2, <1>3, <1>4, InsertStack DEF Inserted
<1>6. /\ Len(mem') \in Nat /\ Address \subseteq Address' /\ TheArray \in 1 .. Len(mem')
      /\ 1 .. Len(mem) \subseteq 1 .. Len(mem')
  BY <1>1, <1>2, <1>3, FrameTypes DEF LinkedMem, TheArray, Address
<1>7. StackOK' /\ current' \in Address' /\ (lex_pc' = "element" => stack' # << >>)
  <2>1. CASE lex_pc' = "element"
    <3>1. /\ current' = current /\ Len(stack') = Len(stack)
          /\ stack'[1].array = TheArray /\ stack'[1].previous = current
          /\ \A k \in 2 .. Len(stack) : stack'[k] = stack[k]
          /\ \E Z : stack' \in Seq(FrameSet(Z))
      BY <2>1, InsertStack
    <3>2. Len(stack) \in Nat \ {0}
      BY <1>3, FrameTypes
    <3>3. TheArray \in Address' /\ current \in Address'
      BY <1>3, <1>6 DEF Address
    <3>4. ASSUME NEW k \in 1 .. Len(stack')
          PROVE  stack'[k].array \in Address' /\ stack'[k].previous \in Address'
      <4>1. CASE k = 1
        BY <3>1, <3>3, <4>1
      <4>2. CASE k # 1
        <5>1. k \in 2 .. Len(stack) /\ k \in 1 .. Len(stack)
          BY <3>1, <3>2, <4>2
        <5> QED BY <1>6, <3>1, <5>1 DEF LexTypes, StackOK
      <4> QED BY <4>1, <4>2
    <3>5. stack' # << >>
      BY <3>1, <3>2
    <3> QED BY <3>1, <3>3, <3>4, <3>5 DEF StackOK, FrameSet
  <2>2. CASE lex_pc' = "insert" /\ current' = TheArray /\ stack' = Tail(stack)
    BY <1>3, <1>6, <2>2, PoppedStack DEF Address
  <2> QED BY <1>4, <2>1, <2>2
<1>8. live' \subseteq (1 .. Len(mem')) \X {"struct", "node", "content"}
  <2>1. Pieces(TheArray, "array") \subseteq (1 .. Len(mem')) \X {"struct", "node", "content"}
    BY <1>6, PiecesType
  <2>2. live \subseteq (1 .. Len(mem')) \X {"struct", "node", "content"}
    BY <1>6 DEF LexTypes
  <2> QED BY <1>3, <2>1, <2>2
<1>9. SizeOK' /\ odd' \subseteq Odd /\ lex_pc' \in LexPc
  BY <1>3, <1>4 DEF LexTypes, SizeOK, LexPc
<1> QED BY <1>2, <1>5, <1>7, <1>8, <1>9 DEF LexTypes
-----------------------------------------------------------------------------
(* Every step.                                                             *)

\* A quiet step goes on, or dies on the nil string or the depth it has noted.
QuietStep == /\ Quiet /\ odd \subseteq odd'
             /\ lex_pc' \notin Ended \/ (lex_pc' = "crash" /\ odd' \cap {"nil_bulk", "deep"} # {})

\* A value is being read.
AtWork == lex_pc \in SizeStates \cup {"size", "body", "CR", "LF", "element"}

LEMMA WorkSteps ==
  ASSUME get_el_size \/ BulkSize \/ BulkBody \/ is_valid_terminator
           \/ ArraySize \/ Element
  PROVE  AtWork
BY DEF AtWork, get_el_size, BulkSize, BulkBody, is_valid_terminator,
       ArraySize, Element

LEMMA LexSteps ==
  ASSUME LexTypes, LexNext
  PROVE  /\ LexTypes'
         /\ \/ AtWork /\ (QuietStep \/ NewBulk \/ NewMarker \/ Pushed \/ Unset)
            \/ Inserted \/ Abandon \/ Returned \/ print_array \/ Release
            \/ LexTerminated
<1>1. CASE get_el_size
  BY <1>1, GetElSizeStep, WorkSteps DEF QuietStep, Ended, SizeStates
<1>2. CASE BulkSize
  BY <1>2, BulkSizeStep, WorkSteps DEF QuietStep, Ended
<1>3. CASE BulkBody
  BY <1>3, BulkBodyStep, WorkSteps DEF QuietStep, Ended
<1>4. CASE is_valid_terminator
  BY <1>4, TerminatorStep, WorkSteps DEF QuietStep, Ended
<1>5. CASE ArraySize
  BY <1>5, ArraySizeStep, WorkSteps DEF QuietStep, Ended
<1>6. CASE Element
  BY <1>6, ElementStep, WorkSteps DEF QuietStep, Ended
<1>7. CASE Insert
  BY <1>7, InsertStep
<1>8. CASE Abandon \/ Returned \/ print_array \/ Release
  BY <1>8, FreeingSteps
<1>9. CASE LexTerminated
  <2>1. UNCHANGED <<lex_pc, sz, stack, current, mem, live, odd>>
    BY <1>9 DEF LexTerminated, lex_vars
  <2> QED BY <1>9, <2>1, Zenon DEF LexTypes, MemOK, SizeOK, StackOK, Address
<1> QED BY <1>1, <1>2, <1>3, <1>4, <1>5, <1>6, <1>7, <1>8, <1>9 DEF LexNext

LEMMA LexInitTypes ==
  ASSUME LexInit
  PROVE  LexTypes
<1>1. sz = NoSize("array") /\ mem = << >> /\ stack = << >> /\ live = {}
  BY DEF LexInit
<1>2. SizeOK
  BY <1>1, LexerAssumption DEF SizeOK, NoSize
<1>3. MemOK
  BY <1>1 DEF MemOK
<1>4. StackOK
  BY <1>1 DEF StackOK
<1>5. lex_pc \in LexPc /\ lex_pc # "element" /\ odd \subseteq Odd /\ current \in Address
  BY <1>1 DEF LexInit, LexPc, SizeStates, Address, NULL
<1> QED BY <1>1, <1>2, <1>3, <1>4, <1>5 DEF LexTypes

-----------------------------------------------------------------------------
(* A plain request neither faults nor loops.                               *)

IsPlain == odd \subseteq {"wrapped"}

\* No node is linked to itself and none is a marker.
PlainMem == \A n \in 1 .. Len(mem) :
              mem[n].next # n /\ mem[n].prev # n /\ mem[n].type \notin Markers

\* The calls of lexer share no node, and the element about to be linked is none of theirs.
Own(k) == {stack[k].array, stack[k].previous} \ {0}
PlainStack ==
  /\ \A j \in 1 .. Len(stack), k \in 1 .. Len(stack) : j # k => Own(j) \cap Own(k) = {}
  /\ lex_pc = "insert" => \A k \in 1 .. Len(stack) : current \notin Own(k)

PlainInv ==
  /\ LexTypes
  /\ IsPlain => PlainMem /\ PlainStack /\ lex_pc \notin {"crash", "hang", "undefined"}

LEMMA PlainInit ==
  ASSUME LexInit
  PROVE  PlainInv
<1>1. LexTypes
  BY LexInitTypes
<1> QED BY <1>1 DEF LexInit, PlainInv, PlainMem, PlainStack

LEMMA FreshAddress ==
  ASSUME LexTypes, NEW k \in 1 .. Len(stack)
  PROVE  Len(mem) + 1 \notin Own(k)
<1>1. Len(mem) \in Nat
  BY MemSeq DEF LexTypes
<1>2. stack[k].array \in 0 .. Len(mem) /\ stack[k].previous \in 0 .. Len(mem)
  BY DEF LexTypes, StackOK, Address
<1> QED BY <1>1, <1>2 DEF Own

LEMMA PoppedOwn ==
  ASSUME LexTypes, stack # << >>, stack' = Tail(stack)
  PROVE  /\ Len(stack) \in Nat \ {0} /\ Len(stack') = Len(stack) - 1
         /\ \A k \in 1 .. Len(stack') : k + 1 \in 1 .. Len(stack) /\ Own(k)' = Own(k + 1)
<1>1. /\ Len(stack) \in Nat \ {0} /\ Len(stack') = Len(stack) - 1
      /\ \A k \in 1 .. Len(stack') : stack'[k] = stack[k + 1]
  BY FrameTypes
<1> QED BY <1>1 DEF Own

LEMMA PlainNext ==
  ASSUME PlainInv, LexNext
  PROVE  PlainInv'
<1>1. LexTypes /\ LexTypes'
  BY LexSteps DEF PlainInv
<1> SUFFICES ASSUME IsPlain'
             PROVE  PlainMem' /\ PlainStack' /\ lex_pc' \notin {"crash", "hang", "undefined"}
  BY <1>1 DEF PlainInv
<1>2. Len(mem) \in Nat /\ DOMAIN mem = 1 .. Len(mem) /\ Len(stack) \in Nat
  BY <1>1, MemSeq DEF LexTypes, StackOK
<1>3. ASSUME IsPlain, UNCHANGED <<mem, stack>>, lex_pc' = "insert" => current' = 0
      PROVE  PlainMem' /\ PlainStack'
  BY <1>3 DEF PlainInv, PlainMem, PlainStack, Own
<1>4. CASE QuietStep
  <2>1. IsPlain /\ UNCHANGED <<mem, stack>> /\ (lex_pc' = "insert" => current' = 0)
    BY <1>4 DEF QuietStep, Quiet, IsPlain
  <2> QED BY <1>3, <1>4, <2>1 DEF QuietStep, IsPlain, Ended
<1>5. CASE NewBulk
  <2>1. /\ Len(mem') = Len(mem) + 1 /\ \A n \in 1 .. Len(mem) : mem'[n] = mem[n]
        /\ mem'[Len(mem) + 1] = Node("bulk", text, ElSize)
    BY <1>1, <1>5, GrownTypes DEF NewBulk, LexTypes, NodeType
  <2>2. IsPlain /\ PlainMem /\ PlainStack
    BY <1>5 DEF NewBulk, IsPlain, PlainInv
  <2>3. ASSUME NEW n \in 1 .. Len(mem')
        PROVE  mem'[n].next # n /\ mem'[n].prev # n /\ mem'[n].type \notin Markers
    <3>1. CASE n = Len(mem) + 1
      BY <1>2, <2>1, <3>1 DEF Node, NULL, Markers
    <3>2. CASE n \in 1 .. Len(mem)
      BY <2>1, <2>2, <3>2 DEF PlainMem
    <3> QED BY <1>2, <2>1, <3>1, <3>2
  <2>4. \A k \in 1 .. Len(stack) : Len(mem) + 1 \notin Own(k)
    BY <1>1, FreshAddress
  <2> QED BY <1>5, <2>2, <2>3, <2>4 DEF NewBulk, PlainMem, PlainStack, Own
<1>6. CASE NewMarker \/ Unset
  BY <1>6 DEF NewMarker, Unset, IsPlain
<1>7. CASE Pushed
  <2>1. IsPlain /\ PlainMem /\ PlainStack
    BY <1>7 DEF Pushed, IsPlain, PlainInv
  <2>2. /\ Len(stack') = Len(stack) + 1
        /\ stack'[1].array = 0 /\ stack'[1].previous = 0
        /\ \A k \in 1 .. Len(stack) : stack'[k + 1] = stack[k]
    BY <1>1, <1>7, PushedStack
  <2>3. /\ Own(1)' = {}
        /\ \A k \in 2 .. Len(stack') : k - 1 \in 1 .. Len(stack) /\ Own(k)' = Own(k - 1)
    <3>1. Own(1)' = {}
      BY <2>2 DEF Own
    <3>2. ASSUME NEW k \in 2 .. Len(stack')
          PROVE  k - 1 \in 1 .. Len(stack) /\ Own(k)' = Own(k - 1)
      <4>1. k - 1 \in 1 .. Len(stack) /\ (k - 1) + 1 = k
        BY <1>2, <2>2
      <4>2. stack'[k] = stack[k - 1]
        BY <2>2, <4>1
      <4> QED BY <4>1, <4>2 DEF Own
    <3> QED BY <3>1, <3>2
  <2>4. ASSUME NEW j \in 1 .. Len(stack'), NEW k \in 1 .. Len(stack'), j # k
        PROVE  Own(j)' \cap Own(k)' = {}
    <3>1. CASE j = 1 \/ k = 1
      BY <2>3, <3>1
    <3>2. CASE j # 1 /\ k # 1
      <4>1. j \in 2 .. Len(stack') /\ k \in 2 .. Len(stack') /\ j - 1 # k - 1
        BY <1>2, <2>2, <2>4, <3>2
      <4> QED BY <2>1, <2>3, <4>1 DEF PlainStack
    <3> QED BY <3>1, <3>2
  <2> QED BY <1>7, <2>1, <2>4 DEF Pushed, PlainMem, PlainStack
<1>8. CASE Inserted
  <2>1. IsPlain /\ PlainMem /\ PlainStack
    BY <1>8 DEF Inserted, IsPlain, PlainInv
  <2>2. /\ lex_pc = "insert" /\ current \in 1 .. Len(mem) /\ stack # << >> /\ LinkedMem
        /\ Len(stack) \in Nat \ {0}
    BY <1>1, <1>8, FrameTypes DEF Inserted
  <2>3. /\ \A k \in 1 .. Len(stack) : current \notin Own(k)
        /\ current # stack[1].array /\ current # stack[1].previous
    <3>1. \A k \in 1 .. Len(stack) : current \notin Own(k)
      BY <2>1, <2>2 DEF PlainStack
    <3>2. current \notin Own(1) /\ current # 0
      BY <2>2, <3>1
    <3> QED BY <3>1, <3>2 DEF Own
  <2>4. ASSUME NEW n \in 1 .. Len(mem')
        PROVE  mem'[n].next # n /\ mem'[n].prev # n /\ mem'[n].type \notin Markers
    <3>1. CASE n \in 1 .. Len(mem)
      <4>1. mem[n].next # n /\ mem[n].prev # n /\ mem[n].type \notin Markers
        BY <2>1, <3>1 DEF PlainMem
      <4>2. n = current => ThePrev # n
        BY <1>2, <2>3, <3>1 DEF ThePrev
      <4> QED BY <2>2, <2>3, <3>1, <4>1, <4>2 DEF LinkedMem
    <3>2. CASE n = Len(mem) + 1
      <4>1. stack[1].array = 0
        BY <1>2, <2>2, <3>2 DEF LinkedMem
      <4>2. mem'[n].type = "array" /\ mem'[n].prev = 0 /\ mem'[n].next = 0
        BY <2>2, <3>2, <4>1 DEF LinkedMem
      <4> QED BY <1>2, <3>2, <4>2 DEF Markers
    <3> QED BY <1>2, <2>2, <3>1, <3>2 DEF LinkedMem
  <2>5. \A k \in 2 .. Len(stack) : k \in 1 .. Len(stack) /\ TheArray \notin Own(k)
    <3> SUFFICES ASSUME NEW k \in 2 .. Len(stack)
                 PROVE  k \in 1 .. Len(stack) /\ TheArray \notin Own(k)
      OBVIOUS
    <3>1. k \in 1 .. Len(stack) /\ 1 \in 1 .. Len(stack) /\ k # 1
      BY <2>2
    <3>2. CASE stack[1].array = 0
      BY <1>1, <3>1, <3>2, FreshAddress DEF TheArray
    <3>3. CASE stack[1].array # 0
      <4>1. TheArray \in Own(1)
        BY <3>3 DEF TheArray, Own
      <4> QED BY <2>1, <3>1, <4>1 DEF PlainStack
    <3> QED BY <3>1, <3>2, <3>3
  <2>6. CASE /\ lex_pc' = "element" /\ Len(stack') = Len(stack)
             /\ stack'[1].array = TheArray /\ stack'[1].previous = current
             /\ \A k \in 2 .. Len(stack) : stack'[k] = stack[k]
    <3>1. Own(1)' \subseteq {TheArray, current} /\ \A k \in 2 .. Len(stack) : Own(k)' = Own(k)
      BY <2>6 DEF Own
    <3>2. \A k \in 2 .. Len(stack) : Own(1)' \cap Own(k)' = {}
      BY <2>3, <2>5, <3>1
    <3>3. ASSUME NEW j \in 1 .. Len(stack'), NEW k \in 1 .. Len(stack'), j # k
          PROVE  Own(j)' \cap Own(k)' = {}
      <4>1. CASE j = 1
        <5>1. k \in 2 .. Len(stack)
          BY <2>2, <2>6, <3>3, <4>1
        <5> QED BY <3>2, <4>1, <5>1
      <4>2. CASE k = 1
        <5>1. j \in 2 .. Len(stack)
          BY <2>2, <2>6, <3>3, <4>2
        <5> QED BY <3>2, <4>2, <5>1
      <4>3. CASE j # 1 /\ k # 1
        <5>1. j \in 2 .. Len(stack) /\ k \in 2 .. Len(stack)
          BY <2>2, <2>6, <4>3
        <5> QED BY <2>1, <2>5, <3>1, <3>3, <5>1 DEF PlainStack
      <4> QED BY <4>1, <4>2, <4>3
    <3> QED BY <2>4, <2>6, <3>3 DEF PlainMem, PlainStack
  <2>7. CASE lex_pc' = "insert" /\ current' = TheArray /\ stack' = Tail(stack)
    <3>1. /\ Len(stack') = Len(stack) - 1
          /\ \A k \in 1 .. Len(stack') : k + 1 \in 1 .. Len(stack) /\ Own(k)' = Own(k + 1)
      BY <1>1, <2>2, <2>7, PoppedOwn
    <3>2. \A k \in 1 .. Len(stack') : TheArray \notin Own(k)'
      <4> SUFFICES ASSUME NEW k \in 1 .. Len(stack') PROVE TheArray \notin Own(k)'
        OBVIOUS
      <4>1. k + 1 \in 2 .. Len(stack)
        BY <2>2, <3>1
      <4> QED BY <2>5, <3>1, <4>1
    <3>3. ASSUME NEW j \in 1 .. Len(stack'), NEW k \in 1 .. Len(stack'), j # k
          PROVE  Own(j)' \cap Own(k)' = {}
      BY <2>1, <3>1, <3>3 DEF PlainStack
    <3> QED BY <2>4, <2>7, <3>2, <3>3 DEF PlainMem, PlainStack
  <2> QED BY <1>8, <2>6, <2>7 DEF Inserted
<1>9. ASSUME NEW a, Deleted(a, "insert") \/ Deleted(a, "released"), IsPlain, PlainMem
      PROVE  lex_pc' \in {"insert", "released"}
  BY <1>2, <1>9, DeletedNodes DEF Deleted, PlainMem, LoopsBack, LoopsOn, HasMarker, IsPlain
<1>10. CASE Abandon
  <2>1. /\ current = 0 /\ stack # << >> /\ stack' = Tail(stack)
        /\ UNCHANGED <<current, mem, odd>> /\ Deleted(stack[1].previous, "insert")
    BY <1>10, AbandonEffect
  <2>2. IsPlain /\ PlainMem /\ PlainStack
    BY <2>1 DEF IsPlain, PlainInv
  <2>3. lex_pc' \in {"insert", "released"}
    BY <1>9, <2>1, <2>2
  <2>4. \A k \in 1 .. Len(stack') : k + 1 \in 1 .. Len(stack) /\ Own(k)' = Own(k + 1)
    BY <1>1, <2>1, PoppedOwn
  <2>5. ASSUME NEW j \in 1 .. Len(stack'), NEW k \in 1 .. Len(stack'), j # k
        PROVE  Own(j)' \cap Own(k)' = {}
    BY <2>2, <2>4, <2>5 DEF PlainStack
  <2>6. \A k \in 1 .. Len(stack') : current' \notin Own(k)'
    BY <2>1 DEF Own
  <2> QED BY <2>1, <2>2, <2>3, <2>5, <2>6 DEF PlainMem, PlainStack
<1>11. CASE Returned
  BY <1>3, <1>11 DEF Returned, IsPlain
<1>12. CASE print_array
  <2>1. /\ UNCHANGED <<stack, mem, odd>>
        /\ \/ lex_pc' = "printed"
           \/ lex_pc' = "hang" /\ \E n \in DOMAIN mem : mem[n].next = n
           \/ lex_pc' = "crash" /\ (HasMarker(DOMAIN mem) \/ "deep" \in odd)
    BY <1>12, PrintEffect
  <2>2. IsPlain /\ PlainMem
    BY <2>1 DEF IsPlain, PlainInv
  <2>3. lex_pc' = "printed"
    BY <1>2, <2>1, <2>2 DEF PlainMem, HasMarker, IsPlain
  <2> QED BY <1>3, <2>1, <2>2, <2>3
<1>13. CASE Release
  <2>1. /\ UNCHANGED <<stack, mem, odd>>
        /\ lex_pc' = "released" \/ Deleted(current, "released")
    BY <1>13, ReleaseEffect
  <2>2. IsPlain /\ PlainMem
    BY <2>1 DEF IsPlain, PlainInv
  <2>3. lex_pc' = "released"
    BY <1>9, <2>1, <2>2 DEF Deleted
  <2> QED BY <1>3, <2>1, <2>2, <2>3
<1>14. CASE LexTerminated
  BY <1>3, <1>14 DEF LexTerminated, lex_vars, IsPlain, PlainInv, Ended
<1> QED BY <1>1, <1>4, <1>5, <1>6, <1>7, <1>8, <1>10, <1>11, <1>12, <1>13, <1>14, LexSteps

\* A request, complete or not, of arrays with elements and of strings that are not
\* nil, nested no deeper than fits the stack of a worker, neither faults nor loops
\* in the lexer, in print_array or in delete_array, whatever the client sends and
\* wherever it stops.
THEOREM PlainNeverFaultsHolds == LexSpec => []PlainNeverFaults
<1>1. LexInit => PlainInv
  BY PlainInit
<1>2. PlainInv /\ [LexNext]_lex_vars => PlainInv'
  <2>1. CASE LexNext
    BY <2>1, PlainNext
  <2>2. CASE UNCHANGED lex_vars
    <3>1. UNCHANGED <<lex_pc, sz, stack, current, mem, live, odd>>
      BY <2>2 DEF lex_vars
    <3> QED BY <3>1, ZenonT(40)
         DEF PlainInv, IsPlain, PlainMem, PlainStack, Own, LexTypes, MemOK, SizeOK, StackOK, Address
  <2> QED BY <2>1, <2>2
<1>3. PlainInv => PlainNeverFaults
  <2> SUFFICES ASSUME PlainInv PROVE PlainNeverFaults
    OBVIOUS
  <2>1. DOMAIN mem = 1 .. Len(mem)
    BY MemSeq DEF PlainInv, LexTypes
  <2>2. sz.what \in {"array", "bulk"} /\ Len(sz.num) <= MAX_ARRAY_SIZE + 1
    BY DEF PlainInv, LexTypes, SizeOK
  <2>3. \A n \in DOMAIN mem : {mem[n].next, mem[n].prev} \subseteq 0 .. Len(mem)
    BY <2>1 DEF PlainInv, LexTypes, MemOK, Address
  <2>4. LexTypeOK
    BY <2>1, <2>2, <2>3 DEF LexTypeOK, PlainInv, LexTypes, LexPc, Odd, Address
  <2> QED BY <2>4 DEF PlainNeverFaults, PlainInv, IsPlain, Ended
<1> QED BY <1>1, <1>2, <1>3, PTL DEF LexSpec

-----------------------------------------------------------------------------
(* A request that is cut off is an error.                                  *)

\* What buf[n_bytes] holds in each state of get_el_size.
CellOK ==
  /\ lex_pc = "START" => sz.cell = 0
  /\ lex_pc \in {"DIGIT", "NEG_DIGIT_II"} => sz.cell \in {0, GARBAGE}
  /\ lex_pc = "NEG_DIGIT_I" => sz.cell = MINUS_BYTE
  /\ lex_pc = "END" => sz.cell = CR

\* After the end of the input no size is completed and no value is returned.
CutOK == cut => /\ lex_pc \in SizeStates \cup Ended \cup {"insert", "returned"}
                /\ lex_pc \in {"insert", "returned"} => current = 0

CutInv == LexTypes /\ CellOK /\ CutOK

LEMMA InterpretCell ==
  ASSUME LexTypes, NEW b \in Int, lex_pc \in SizeStates, Interpret(b)
  PROVE  /\ CellOK' /\ lex_pc' \in SizeStates \cup {"size", "insert"}
         /\ lex_pc' = "size" => lex_pc = "END" /\ b = LF
         /\ lex_pc' = "insert" => current' = 0
<1>1. /\ lex_pc' = IF NextState(b) = "invalid" THEN "insert" ELSE NextState(b)
      /\ lex_pc' = "insert" => current' = 0
  BY NextStateType DEF Interpret, Return, NULL
<1>2. IF IsDigit(b) THEN sz'.cell \in {0, GARBAGE} ELSE sz'.cell = b
  <2>1. CASE IsDigit(b)
    <3>1. sz' = [sz EXCEPT !.num = Append(@, b),
                  !.cell = IF Len(sz.num) + 1 < MAX_ARRAY_SIZE THEN 0 ELSE GARBAGE]
      BY <2>1 DEF Interpret
    <3> QED BY <2>1, <3>1 DEF LexTypes, SizeOK
  <2>2. CASE ~ IsDigit(b)
    <3>1. sz' = [sz EXCEPT !.neg = @ \/ b = MINUS_BYTE, !.cell = b]
      BY <2>2 DEF Interpret
    <3> QED BY <2>2, <3>1 DEF LexTypes, SizeOK
  <2> QED BY <2>1, <2>2
<1>3. /\ lex_pc' \in {"DIGIT", "NEG_DIGIT_II"} => IsDigit(b)
      /\ lex_pc' = "NEG_DIGIT_I" => b = MINUS_BYTE
      /\ lex_pc' = "END" => b = CR
      /\ lex_pc' = "size" => lex_pc = "END" /\ b = LF
      /\ lex_pc' # "START" /\ lex_pc' \in SizeStates \cup {"size", "insert"}
  BY <1>1 DEF NextState, IsDigit, SizeStates
<1>4. ~ IsDigit(MINUS_BYTE) /\ ~ IsDigit(CR)
  BY DEF IsDigit, MINUS_BYTE, CR
<1> QED BY <1>1, <1>2, <1>3, <1>4 DEF CellOK

LEMMA CutNext ==
  ASSUME CutInv, LexNext
  PROVE  CutInv'
<1>1. LexTypes /\ LexTypes'
  BY LexSteps DEF CutInv
<1>2. CASE get_el_size
  <2>1. lex_pc \in SizeStates
    BY <1>2 DEF get_el_size
  <2>2. CASE Return(NULL)
    BY <1>1, <2>2 DEF Return, NULL, CutInv, CellOK, CutOK
  <2>3. CASE \E b \in Byte : RecvByte(b) /\ Interpret(b)
    <3>1. PICK b \in Byte : RecvByte(b) /\ Interpret(b)
      BY <2>3
    <3>2. b \in Int
      BY LexerAssumption
    <3>3. CellOK'
      BY <1>1, <2>1, <3>1, <3>2, InterpretCell
    <3> QED BY <1>1, <3>1, <3>3 DEF CutInv, CutOK, RecvByte
  <2>4. CASE \E b \in IF sz.cell = GARBAGE THEN Byte ELSE {sz.cell} : Interpret(b)
    <3>1. PICK b \in IF sz.cell = GARBAGE THEN Byte ELSE {sz.cell} : Interpret(b)
      BY <2>4
    <3>2. b \in Int
      <4>1. Byte \subseteq Int /\ sz.cell \in Int
        BY <1>1, LexerAssumption DEF LexTypes, SizeOK
      <4> QED BY <4>1
    <3>3. /\ CellOK' /\ lex_pc' \in SizeStates \cup {"size", "insert"}
          /\ lex_pc' = "size" => lex_pc = "END" /\ b = LF
          /\ lex_pc' = "insert" => current' = 0
      BY <1>1, <2>1, <3>1, <3>2, InterpretCell
    <3>4. lex_pc' # "size"
      <4>1. lex_pc = "END" => b = CR
        BY <3>1 DEF CutInv, CellOK, CR, GARBAGE
      <4> QED BY <3>3, <4>1 DEF CR, LF
    <3> QED BY <1>1, <3>3, <3>4 DEF CutInv, CutOK, SizeStates
  <2> QED BY <1>2, <2>2, <2>3, <2>4 DEF get_el_size
<1>3. CASE BulkSize \/ ArraySize
  <2>1. lex_pc = "size" /\ cut' = cut /\ lex_pc' \notin SizeStates
    BY <1>3 DEF BulkSize, ArraySize, input, Return, SizeStates
  <2>2. ~ cut
    BY <2>1 DEF CutInv, CutOK, SizeStates, Ended
  <2> QED BY <1>1, <2>1, <2>2 DEF CutInv, CellOK, CutOK, SizeStates
<1>4. CASE BulkBody \/ is_valid_terminator
  <2>1. lex_pc \in {"body", "CR", "LF"} /\ lex_pc' \in {"CR", "LF", "insert"}
    BY <1>4 DEF BulkBody, is_valid_terminator, Return, new_bulk_str
  <2>2. ~ cut
    BY <2>1 DEF CutInv, CutOK, SizeStates, Ended
  <2>3. cut' = cut \/ (lex_pc' = "insert" /\ current' = 0)
    BY <1>4 DEF BulkBody, is_valid_terminator, Return, NULL, RecvByte
  <2> QED BY <1>1, <2>1, <2>2, <2>3 DEF CutInv, CellOK, CutOK
<1>5. CASE Element
  <2>1. lex_pc = "element" /\ lex_pc' \in {"START", "crash", "insert", "undefined"}
    BY <1>5 DEF Element, Return
  <2>2. ~ cut
    BY <2>1 DEF CutInv, CutOK, SizeStates, Ended
  <2>3. cut' = cut \/ (lex_pc' = "insert" /\ current' = 0)
    BY <1>5 DEF Element, Return, NULL, RecvByte
  <2>4. lex_pc' = "START" => sz'.cell = 0
    BY <1>5 DEF Element, NoSize, Return
  <2> QED BY <1>1, <2>1, <2>2, <2>3, <2>4 DEF CutInv, CellOK, CutOK
<1>6. CASE Insert
  <2>1. lex_pc = "insert" /\ current # 0 /\ cut' = cut /\ lex_pc' \in {"element", "insert"}
    BY <1>6 DEF Insert, NULL, input
  <2> QED BY <1>1, <2>1 DEF CutInv, CellOK, CutOK
<1>7. CASE Abandon
  <2>1. current' = 0 /\ lex_pc' \in Ended \cup {"insert"}
    BY <1>7, AbandonEffect DEF Deleted, Ended
  <2> QED BY <1>1, <2>1 DEF CutInv, CellOK, CutOK, Ended
<1>8. CASE Returned
  BY <1>1, <1>8 DEF Returned, input, CutInv, CellOK, CutOK
<1>9. CASE print_array
  <2>1. current # 0 /\ lex_pc = "returned" /\ cut' = cut /\ lex_pc' \in {"hang", "crash", "printed"}
    BY <1>9 DEF print_array, input, NULL
  <2> QED BY <1>1, <2>1 DEF CutInv, CellOK, CutOK
<1>10. CASE Release
  <2>1. lex_pc' \in Ended
    BY <1>10, ReleaseEffect DEF Deleted, Ended
  <2> QED BY <1>1, <2>1 DEF CutInv, CellOK, CutOK, Ended
<1>11. CASE LexTerminated
  BY <1>1, <1>11 DEF LexTerminated, lex_vars, input, CutInv, CellOK, CutOK
<1> QED BY <1>2, <1>3, <1>4, <1>5, <1>6, <1>7, <1>8, <1>9, <1>10, <1>11 DEF LexNext

\* A client that closes, or a connection that fails, before the request is complete
\* never makes a request: the byte get_el_size interprets again when recv returns 0
\* is no legal continuation, wherever in the request the connection ends.
THEOREM CutIsErrorHolds == LexSpec => []CutIsError
<1>1. LexInit => CutInv
  <2> SUFFICES ASSUME LexInit PROVE CutInv
    OBVIOUS
  <2>1. LexTypes
    BY LexInitTypes
  <2> QED BY <2>1 DEF LexInit, CutInv, CellOK, CutOK, NoSize
<1>2. CutInv /\ [LexNext]_lex_vars => CutInv'
  <2>1. CASE LexNext
    BY <2>1, CutNext
  <2>2. CASE UNCHANGED lex_vars
    <3>1. UNCHANGED <<lex_pc, sz, stack, current, mem, live, odd, cut>>
      BY <2>2 DEF lex_vars, input
    <3> QED BY <3>1, ZenonT(40) DEF CutInv, CellOK, CutOK, LexTypes, MemOK, SizeOK, StackOK, Address
  <2> QED BY <2>1, <2>2
<1>3. CutInv => CutIsError
  BY DEF CutInv, CutOK, CutIsError, NULL
<1> QED BY <1>1, <1>2, <1>3, PTL DEF LexSpec

-----------------------------------------------------------------------------
(* The lists in the memory M.                                              *)

MemFacts(M) ==
  /\ Len(M) \in Nat
  /\ \A n \in 1 .. Len(M) :
       /\ M[n].next \in 0 .. Len(M) /\ M[n].prev \in 0 .. Len(M)
       /\ M[n].type = "array" => M[n].content \in 1 .. Len(M)

BelowIn(M) == [n \in 0 .. Len(M) |-> IF n = 0 THEN {} ELSE
                 {M[n].next} \cup (IF M[n].type = "array" THEN {M[n].content} ELSE {})]
BeforeIn(M) == [n \in 0 .. Len(M) |-> IF n = 0 THEN {} ELSE {M[n].prev}]

\* What hangs below a, and what lies before it.
Dn(M, a) == Reached(Len(M), BelowIn(M), a)
Up(M, a) == Reached(Len(M), BeforeIn(M), a)

LEMMA ListEdges ==
  ASSUME NEW M, MemFacts(M)
  PROVE  /\ Edges(Len(M), BelowIn(M)) /\ Edges(Len(M), BeforeIn(M))
         /\ \A n \in 1 .. Len(M) :
              /\ BelowIn(M)[n] = {M[n].next} \cup (IF M[n].type = "array" THEN {M[n].content} ELSE {})
              /\ BeforeIn(M)[n] = {M[n].prev}
<1>1. Len(M) \in Nat /\ 0 \in 0 .. Len(M) /\ \A n \in 1 .. Len(M) : n \in 0 .. Len(M) /\ n # 0
  BY DEF MemFacts
<1>2. ASSUME NEW n \in 0 .. Len(M), n # 0
      PROVE  /\ {M[n].next} \cup (IF M[n].type = "array" THEN {M[n].content} ELSE {})
                  \in SUBSET (0 .. Len(M))
             /\ {M[n].prev} \in SUBSET (0 .. Len(M))
  <2>1. n \in 1 .. Len(M)
    BY <1>1, <1>2
  <2>2. /\ M[n].next \in 0 .. Len(M) /\ M[n].prev \in 0 .. Len(M)
        /\ M[n].type = "array" => M[n].content \in 0 .. Len(M)
    BY <2>1 DEF MemFacts
  <2> QED BY <2>2
<1>3. BelowIn(M) \in [0 .. Len(M) -> SUBSET (0 .. Len(M))] /\ BelowIn(M)[0] = {}
  BY <1>1, <1>2 DEF BelowIn
<1>4. BeforeIn(M) \in [0 .. Len(M) -> SUBSET (0 .. Len(M))] /\ BeforeIn(M)[0] = {}
  BY <1>1, <1>2 DEF BeforeIn
<1>5. \A n \in 1 .. Len(M) :
              /\ BelowIn(M)[n] = {M[n].next} \cup (IF M[n].type = "array" THEN {M[n].content} ELSE {})
              /\ BeforeIn(M)[n] = {M[n].prev}
  BY <1>1 DEF BelowIn, BeforeIn
<1> QED BY <1>1, <1>3, <1>4, <1>5 DEF Edges

LEMMA TypedMem ==
  ASSUME MemOK
  PROVE  MemFacts(mem)
<1>1. Len(mem) \in Nat /\ (0 .. Len(mem)) \ {0} = 1 .. Len(mem)
  BY MemSeq
<1> QED BY <1>1 DEF MemOK, MemFacts, Address

LEMMA TypedMemNext ==
  ASSUME MemOK'
  PROVE  MemFacts(mem')
<1>1. Len(mem') \in Nat
  BY DEF MemOK
<1>2. (0 .. Len(mem')) \ {0} = 1 .. Len(mem')
  BY <1>1
<1> QED BY <1>1, <1>2 DEF MemOK, MemFacts, Address

LEMMA ClosureIsReached ==
  ASSUME MemOK, NEW a
  PROVE  Closure(a, Below) = Dn(mem, a) /\ Closure(a, Before) = Up(mem, a)
<1>1. DOMAIN mem = 1 .. Len(mem)
  BY MemSeq
<1>2. \A m \in 0 .. Len(mem) : BelowIn(mem)[m] = Below(m) /\ BeforeIn(mem)[m] = Before(m)
  BY DEF BelowIn, BeforeIn, Below, Before, NULL
<1>3. Closure(a, Below) = Dn(mem, a)
  <2>1. ASSUME NEW S \in SUBSET (0 .. Len(mem))
        PROVE  (\A m \in S : Below(m) \subseteq S)
                 <=> (\A m \in S : BelowIn(mem)[m] \subseteq S)
    BY <1>2
  <2> QED BY <1>1, <2>1, Zenon DEF Closure, Dn, Reached
<1>4. Closure(a, Before) = Up(mem, a)
  <2>1. ASSUME NEW S \in SUBSET (0 .. Len(mem))
        PROVE  (\A m \in S : Before(m) \subseteq S)
                 <=> (\A m \in S : BeforeIn(mem)[m] \subseteq S)
    BY <1>2
  <2> QED BY <1>1, <2>1, Zenon DEF Closure, Up, Reached
<1> QED BY <1>3, <1>4

LEMMA ListFacts ==
  ASSUME NEW M, MemFacts(M), NEW a
  PROVE  /\ Dn(M, a) \subseteq 1 .. Len(M) /\ Up(M, a) \subseteq 1 .. Len(M)
         /\ a \in 1 .. Len(M) => a \in Dn(M, a) /\ a \in Up(M, a)
         /\ Dn(M, 0) = {} /\ Up(M, 0) = {}
         /\ \A b \in Dn(M, a) : Dn(M, b) \subseteq Dn(M, a)
         /\ \A b \in Up(M, a) : Up(M, b) \subseteq Up(M, a)
         /\ \A b \in Dn(M, a) : M[b].next # 0 => M[b].next \in Dn(M, a)
         /\ \A b \in Dn(M, a) : M[b].type = "array" => M[b].content \in Dn(M, a)
         /\ \A b \in Up(M, a) : M[b].prev # 0 => M[b].prev \in Up(M, a)
<1>1. Edges(Len(M), BelowIn(M)) /\ Edges(Len(M), BeforeIn(M))
  BY ListEdges
<1>2. Dn(M, a) \subseteq 1 .. Len(M) /\ Up(M, a) \subseteq 1 .. Len(M)
  BY <1>1, ReachedIn DEF Dn, Up
<1>3. a \in 1 .. Len(M) => a \in Dn(M, a) /\ a \in Up(M, a)
  BY ReachedOn DEF Dn, Up
<1>4. Dn(M, 0) = {} /\ Up(M, 0) = {}
  BY <1>1, ReachedNull DEF Dn, Up
<1>5. \A b \in Dn(M, a) : Dn(M, b) \subseteq Dn(M, a)
  BY <1>1, ReachedFurther, Zenon DEF Dn
<1>6. \A b \in Up(M, a) : Up(M, b) \subseteq Up(M, a)
  BY <1>1, ReachedFurther, Zenon DEF Up
<1>7. ASSUME NEW b \in Dn(M, a), NEW x \in BelowIn(M)[b], x \in 1 .. Len(M) PROVE x \in Dn(M, a)
  BY <1>7, ReachedOn, Zenon DEF Dn
<1>8. ASSUME NEW b \in Up(M, a), NEW x \in BeforeIn(M)[b], x \in 1 .. Len(M) PROVE x \in Up(M, a)
  BY <1>8, ReachedOn, Zenon DEF Up
<1>9. ASSUME NEW b \in Dn(M, a)
      PROVE  /\ M[b].next # 0 => M[b].next \in Dn(M, a)
             /\ M[b].type = "array" => M[b].content \in Dn(M, a)
  <2>1. b \in 1 .. Len(M)
    BY <1>2
  <2>2. /\ M[b].next # 0 => M[b].next \in 1 .. Len(M)
        /\ M[b].type = "array" => M[b].content \in 1 .. Len(M)
    BY <2>1 DEF MemFacts
  <2>3. M[b].next \in BelowIn(M)[b] /\ (M[b].type = "array" => M[b].content \in BelowIn(M)[b])
    BY <2>1, ListEdges
  <2> QED BY <1>7, <2>2, <2>3
<1>10. ASSUME NEW b \in Up(M, a), M[b].prev # 0
       PROVE  M[b].prev \in Up(M, a)
  <2>1. b \in 1 .. Len(M)
    BY <1>2
  <2>2. M[b].prev \in 1 .. Len(M)
    BY <1>10, <2>1 DEF MemFacts
  <2>3. M[b].prev \in BeforeIn(M)[b]
    BY <2>1, ListEdges
  <2> QED BY <1>8, <2>2, <2>3
<1> QED BY <1>2, <1>3, <1>4, <1>5, <1>6, <1>9, <1>10

\* New nodes change nothing for the old ones.
LEMMA GrownReach ==
  ASSUME NEW M, MemFacts(M), NEW K, MemFacts(K), Len(M) <= Len(K),
         \A n \in 1 .. Len(M) : K[n] = M[n], NEW a \in 0 .. Len(M)
  PROVE  Dn(K, a) = Dn(M, a) /\ Up(K, a) = Up(M, a)
<1>1. /\ Edges(Len(M), BelowIn(M)) /\ Edges(Len(M), BeforeIn(M))
      /\ Edges(Len(K), BelowIn(K)) /\ Edges(Len(K), BeforeIn(K))
  BY ListEdges
<1>2. \A m \in 1 .. Len(M) : BelowIn(K)[m] = BelowIn(M)[m] /\ BeforeIn(K)[m] = BeforeIn(M)[m]
  <2> SUFFICES ASSUME NEW m \in 1 .. Len(M)
               PROVE  BelowIn(K)[m] = BelowIn(M)[m] /\ BeforeIn(K)[m] = BeforeIn(M)[m]
    OBVIOUS
  <2>1. m \in 1 .. Len(K) /\ K[m] = M[m]
    BY DEF MemFacts
  <2>2. /\ BelowIn(M)[m] = {M[m].next} \cup (IF M[m].type = "array" THEN {M[m].content} ELSE {})
        /\ BeforeIn(M)[m] = {M[m].prev}
    BY ListEdges
  <2>3. /\ BelowIn(K)[m] = {K[m].next} \cup (IF K[m].type = "array" THEN {K[m].content} ELSE {})
        /\ BeforeIn(K)[m] = {K[m].prev}
    BY <2>1, ListEdges
  <2> QED BY <2>1, <2>2, <2>3
<1>3. /\ \A m \in Reached(Len(M), BelowIn(M), a) : BelowIn(K)[m] = BelowIn(M)[m]
      /\ \A m \in Reached(Len(M), BeforeIn(M), a) : BeforeIn(K)[m] = BeforeIn(M)[m]
  BY <1>1, <1>2, ReachedIn
<1>4. Reached(Len(K), BelowIn(K), a) = Reached(Len(M), BelowIn(M), a)
  BY <1>1, <1>3, ReachedSame
<1>5. Reached(Len(K), BeforeIn(K), a) = Reached(Len(M), BeforeIn(M), a)
  BY <1>1, <1>3, ReachedSame
<1> QED BY <1>4, <1>5 DEF Dn, Up

-----------------------------------------------------------------------------
(* The list of one call of lexer, and what linking an element does to it.  *)

\* The ArrayNode a is on top, the element p last: p hangs below a, and the way
\* back from p leads to a or into a node linked to itself.
ListOK(M, a, p) ==
  \/ a = 0 /\ p = 0
  \/ /\ a \in 1 .. Len(M) /\ p \in 1 .. Len(M)
     /\ M[a].type = "array" /\ M[a].prev = 0 /\ M[a].next = 0
     /\ M[p].prev # 0 /\ M[p].next \in {0, p}
     /\ p \in Dn(M, a)
     /\ a \in Up(M, p) \/ \E n \in Up(M, p) : M[n].prev = n

ArrayIn(M, A) == IF A = 0 THEN Len(M) + 1 ELSE A

\* K is M with c linked into the list of A and P.
LinkRel(M, K, A, P, c) ==
  /\ Len(K) = IF A = 0 THEN Len(M) + 1 ELSE Len(M)
  /\ \A n \in 1 .. Len(M) :
       /\ K[n].type = M[n].type /\ K[n].content = M[n].content
       /\ K[n].prev = IF n = c THEN (IF A = 0 THEN Len(M) + 1 ELSE P) ELSE M[n].prev
       /\ K[n].next = IF n = P THEN c ELSE M[n].next
  /\ A = 0 => /\ K[Len(M) + 1].type = "array" /\ K[Len(M) + 1].content = c
              /\ K[Len(M) + 1].prev = 0 /\ K[Len(M) + 1].next = 0

\* c is the list's last element again, or the top of a list of its own.
ValueOK(M, P, c) == (P # 0 /\ c = P) \/ (M[c].prev = 0 /\ M[c].next = 0)

\* Nothing that hung below a node is lost.
LEMMA LinkKeeps ==
  ASSUME NEW M, MemFacts(M), NEW K, MemFacts(K), NEW A, NEW P, NEW c,
         LinkRel(M, K, A, P, c), ListOK(M, A, P), NEW a \in 0 .. Len(M)
  PROVE  Dn(M, a) \subseteq Dn(K, a)
<1>1. Len(M) \in Nat /\ Len(M) <= Len(K)
  BY DEF MemFacts, LinkRel
<1>2. ASSUME NEW m \in 1 .. Len(M)
      PROVE  BelowIn(M)[m] \ {0, m} \subseteq BelowIn(K)[m]
  <2>1. m \in 1 .. Len(K)
    BY <1>1 DEF MemFacts
  <2>2. BelowIn(M)[m] = {M[m].next} \cup (IF M[m].type = "array" THEN {M[m].content} ELSE {})
    BY ListEdges
  <2>3. BelowIn(K)[m] = {K[m].next} \cup (IF K[m].type = "array" THEN {K[m].content} ELSE {})
    BY <2>1, ListEdges
  <2>4. K[m].type = M[m].type /\ K[m].content = M[m].content
    BY DEF LinkRel
  <2>5. M[m].next \in {0, m} \/ K[m].next = M[m].next
    BY DEF LinkRel, ListOK
  <2> QED BY <2>2, <2>3, <2>4, <2>5
<1>3. Edges(Len(M), BelowIn(M)) /\ Edges(Len(K), BelowIn(K))
  BY ListEdges
<1>4. \A m \in Reached(Len(M), BelowIn(M), a) : BelowIn(M)[m] \ {0, m} \subseteq BelowIn(K)[m]
  BY <1>2, <1>3, ReachedIn
<1>5. Reached(Len(M), BelowIn(M), a) \subseteq Reached(Len(K), BelowIn(K), a)
  BY <1>1, <1>3, <1>4, ReachedMore
<1> QED BY <1>5 DEF Dn

\* The element hangs below its array, with all it had below it.
LEMMA LinkHangs ==
  ASSUME NEW M, MemFacts(M), NEW K, MemFacts(K), NEW A, NEW P, NEW c \in 1 .. Len(M),
         LinkRel(M, K, A, P, c), ListOK(M, A, P)
  PROVE  /\ ArrayIn(M, A) \in 1 .. Len(K) /\ ArrayIn(M, A) \in Dn(K, ArrayIn(M, A))
         /\ c \in Dn(K, ArrayIn(M, A))
         /\ Dn(M, A) \subseteq Dn(K, ArrayIn(M, A)) /\ Dn(M, c) \subseteq Dn(K, ArrayIn(M, A))
<1> DEFINE a == ArrayIn(M, A)
<1>1. Len(M) \in Nat /\ Len(M) <= Len(K) /\ c \in 0 .. Len(M)
  BY DEF MemFacts, LinkRel
<1>2. a \in 1 .. Len(K)
  BY <1>1 DEF ArrayIn, LinkRel, ListOK
<1>3. a \in Dn(K, a)
  BY <1>2, ListFacts
<1>4. c \in Dn(K, a) /\ Dn(M, A) \subseteq Dn(K, a)
  <2>1. CASE A = 0
    <3>1. K[a].type = "array" /\ K[a].content = c
      BY <2>1 DEF ArrayIn, LinkRel
    <3>2. Dn(M, A) = {}
      BY <2>1, ListFacts
    <3>3. c \in Dn(K, a)
      BY <1>3, <3>1, ListFacts
    <3> QED BY <3>2, <3>3
  <2>2. CASE A # 0
    <3>1. A \in 0 .. Len(M) /\ a = A /\ P \in Dn(M, A) /\ P \in 1 .. Len(M)
      BY <1>1, <2>2 DEF ArrayIn, ListOK
    <3>2. Dn(M, A) \subseteq Dn(K, a)
      BY <3>1, LinkKeeps
    <3>3. P \in Dn(K, a) /\ K[P].next = c /\ c # 0
      BY <3>1, <3>2 DEF LinkRel
    <3>4. c \in Dn(K, a)
      BY <3>3, ListFacts
    <3> QED BY <3>2, <3>4
  <2> QED BY <2>1, <2>2
<1>5. Dn(M, c) \subseteq Dn(K, c)
  BY <1>1, LinkKeeps
<1>6. Dn(K, c) \subseteq Dn(K, a)
  BY <1>4, ListFacts
<1> QED BY <1>2, <1>3, <1>4, <1>5, <1>6

\* The array the element goes into is on top as before.
LEMMA LinkTop ==
  ASSUME NEW M, MemFacts(M), NEW K, NEW A, NEW P, NEW c \in 1 .. Len(M),
         LinkRel(M, K, A, P, c), ListOK(M, A, P), c # A
  PROVE  /\ K[ArrayIn(M, A)].type = "array"
         /\ K[ArrayIn(M, A)].prev = 0 /\ K[ArrayIn(M, A)].next = 0
<1>1. CASE A = 0
  BY <1>1 DEF ArrayIn, LinkRel
<1>2. CASE A # 0
  <2>1. /\ A \in 1 .. Len(M) /\ M[A].type = "array" /\ M[A].prev = 0 /\ M[A].next = 0
        /\ M[P].prev # 0
    BY <1>2 DEF ListOK
  <2>2. A # P /\ ArrayIn(M, A) = A
    BY <1>2, <2>1 DEF ArrayIn
  <2> QED BY <2>1, <2>2 DEF LinkRel
<1> QED BY <1>1, <1>2

\* The list goes on to the element.
LEMMA LinkList ==
  ASSUME NEW M, MemFacts(M), NEW K, MemFacts(K), NEW A, NEW P, NEW c \in 1 .. Len(M),
         LinkRel(M, K, A, P, c), ListOK(M, A, P), c # A, ValueOK(M, P, c)
  PROVE  ListOK(K, ArrayIn(M, A), c)
<1> DEFINE a == ArrayIn(M, A)
<1>1. Len(M) \in Nat /\ Len(M) <= Len(K) /\ c \in 1 .. Len(K) /\ c # 0
  BY DEF MemFacts, LinkRel
<1>2. a \in 1 .. Len(K) /\ c \in Dn(K, a)
  BY LinkHangs
<1>3. K[a].type = "array" /\ K[a].prev = 0 /\ K[a].next = 0
  BY LinkTop
<1>4. K[c].prev = IF A = 0 THEN Len(M) + 1 ELSE P
  BY DEF LinkRel
<1>5. K[c].prev # 0
  BY <1>1, <1>4 DEF ListOK
<1>6. K[c].next \in {0, c}
  BY DEF LinkRel, ValueOK
<1>7. c \in Up(K, c) /\ K[c].prev \in Up(K, c)
  BY <1>1, <1>5, ListFacts
<1>8. a \in Up(K, c) \/ \E n \in Up(K, c) : K[n].prev = n
  <2>1. CASE A = 0
    BY <1>4, <1>7, <2>1 DEF ArrayIn
  <2>2. CASE A # 0 /\ c = P
    BY <1>4, <1>7, <2>2
  <2>3. CASE A # 0 /\ c # P
    <3>1. M[c].prev = 0 /\ a = A /\ P \in 0 .. Len(M) /\ P \in Up(K, c)
      BY <1>1, <1>4, <1>7, <2>3 DEF ValueOK, ArrayIn, ListOK
    <3>2. ASSUME NEW m \in 1 .. Len(M)
          PROVE  BeforeIn(M)[m] \ {0, m} \subseteq BeforeIn(K)[m]
      <4>1. m \in 1 .. Len(K)
        BY <1>1 DEF MemFacts
      <4>2. BeforeIn(M)[m] = {M[m].prev} /\ BeforeIn(K)[m] = {K[m].prev}
        BY <4>1, ListEdges
      <4>3. M[m].prev = 0 \/ K[m].prev = M[m].prev
        BY <3>1 DEF LinkRel
      <4> QED BY <4>2, <4>3
    <3>3. Edges(Len(M), BeforeIn(M)) /\ Edges(Len(K), BeforeIn(K))
      BY ListEdges
    <3>4. \A m \in Reached(Len(M), BeforeIn(M), P) : BeforeIn(M)[m] \ {0, m} \subseteq BeforeIn(K)[m]
      BY <3>2, <3>3, ReachedIn
    <3>5. Reached(Len(M), BeforeIn(M), P) \subseteq Reached(Len(K), BeforeIn(K), P)
      BY <1>1, <3>1, <3>3, <3>4, ReachedMore
    <3>6. Up(M, P) \subseteq Up(K, c)
      BY <3>1, <3>5, ListFacts DEF Up
    <3>7. Up(M, P) \subseteq 1 .. Len(M)
      BY ListFacts
    <3>8. A \in Up(M, P) \/ \E n \in Up(M, P) : M[n].prev = n
      BY <2>3 DEF ListOK
    <3>9. CASE A \in Up(M, P)
      BY <3>1, <3>6, <3>9
    <3>10. CASE \E n \in Up(M, P) : M[n].prev = n
      <4>1. PICK n \in Up(M, P) : M[n].prev = n
        BY <3>10
      <4>2. n # c /\ n \in 1 .. Len(M)
        BY <1>1, <3>1, <3>7, <4>1
      <4>3. K[n].prev = n
        BY <4>1, <4>2 DEF LinkRel
      <4> QED BY <3>6, <4>1, <4>3
    <3> QED BY <3>8, <3>9, <3>10
  <2> QED BY <2>1, <2>2, <2>3
<1> QED BY <1>1, <1>2, <1>3, <1>5, <1>6, <1>8 DEF ListOK

\* The lists of the other calls stay what they are.
LEMMA LinkOther ==
  ASSUME NEW M, MemFacts(M), NEW K, MemFacts(K), NEW A, NEW P, NEW c \in 1 .. Len(M),
         LinkRel(M, K, A, P, c), ListOK(M, A, P),
         NEW a, NEW p, ListOK(M, a, p), c # a, c \notin Up(M, p), P \notin Up(M, p)
  PROVE  ListOK(K, a, p) /\ Up(K, p) = Up(M, p)
<1>1. Len(M) \in Nat /\ Len(M) <= Len(K)
  BY DEF MemFacts, LinkRel
<1>2. p \in 0 .. Len(M) /\ a \in 0 .. Len(M)
  BY <1>1 DEF ListOK
<1>3. Up(K, p) = Up(M, p)
  <2>1. ASSUME NEW m \in Up(M, p)
        PROVE  BeforeIn(K)[m] = BeforeIn(M)[m]
    <3>1. m \in 1 .. Len(M) /\ m # c
      BY ListFacts
    <3>2. m \in 1 .. Len(K) /\ K[m].prev = M[m].prev
      BY <1>1, <3>1 DEF MemFacts, LinkRel
    <3>3. BeforeIn(M)[m] = {M[m].prev} /\ BeforeIn(K)[m] = {K[m].prev}
      BY <3>1, <3>2, ListEdges
    <3> QED BY <3>2, <3>3
  <2>2. \A m \in Reached(Len(M), BeforeIn(M), p) : BeforeIn(K)[m] = BeforeIn(M)[m]
    BY <2>1 DEF Up
  <2>3. Edges(Len(M), BeforeIn(M)) /\ Edges(Len(K), BeforeIn(K))
    BY ListEdges
  <2>4. Reached(Len(K), BeforeIn(K), p) = Reached(Len(M), BeforeIn(M), p)
    BY <1>1, <1>2, <2>2, <2>3, ReachedSame
  <2> QED BY <2>4 DEF Up
<1>4. CASE a = 0 /\ p = 0
  BY <1>3, <1>4 DEF ListOK
<1>5. CASE a # 0
  <2>1. /\ a \in 1 .. Len(M) /\ p \in 1 .. Len(M)
        /\ M[a].type = "array" /\ M[a].prev = 0 /\ M[a].next = 0
        /\ M[p].prev # 0 /\ M[p].next \in {0, p} /\ p \in Dn(M, a)
        /\ a \in Up(M, p) \/ \E n \in Up(M, p) : M[n].prev = n
    BY <1>5 DEF ListOK
  <2>2. p \in Up(M, p)
    BY <2>1, ListFacts
  <2>3. p # c /\ p # P /\ a # P
    BY <2>1, <2>2 DEF ListOK
  <2>4. /\ K[a].type = "array" /\ K[a].prev = 0 /\ K[a].next = 0
        /\ K[p].prev # 0 /\ K[p].next \in {0, p}
    BY <2>1, <2>3 DEF LinkRel
  <2>5. p \in Dn(K, a)
    BY <1>2, <2>1, LinkKeeps
  <2>6. (\E n \in Up(M, p) : M[n].prev = n) => \E n \in Up(K, p) : K[n].prev = n
    <3> SUFFICES ASSUME NEW n \in Up(M, p), M[n].prev = n
                 PROVE  n \in Up(K, p) /\ K[n].prev = n
      OBVIOUS
    <3>1. n \in 1 .. Len(M) /\ n # c
      BY ListFacts
    <3> QED BY <1>3, <3>1 DEF LinkRel
  <2>7. a \in 1 .. Len(K) /\ p \in 1 .. Len(K)
    BY <1>1, <2>1 DEF MemFacts
  <2> QED BY <1>3, <2>1, <2>4, <2>5, <2>6, <2>7 DEF ListOK
<1> QED BY <1>4, <1>5 DEF ListOK

-----------------------------------------------------------------------------
(* Everything but the ArrayNode structs is freed.                          *)

Dead == lex_pc \in {"crash", "hang", "undefined"}
HasValue == lex_pc \in {"insert", "returned", "printed"}

Settled == lex_pc \in {"returned", "printed", "released"} => stack = << >>

Lists == \A k \in 1 .. Len(stack) : ListOK(mem, stack[k].array, stack[k].previous)

\* What an inner call works on is not on the way back from the element of an outer one.
Apart == \A j \in 1 .. Len(stack), k \in 1 .. Len(stack) : j < k =>
           /\ stack[j].previous \notin Up(mem, stack[k].previous)
           /\ stack[j].array \notin Up(mem, stack[k].previous)
           /\ stack[j].array = 0 \/ stack[j].array # stack[k].array

\* The value returned is no call's array, and is not on the way back of an outer one.
ValueInv == HasValue /\ current # 0 =>
  /\ \A k \in 1 .. Len(stack) : current # stack[k].array
  /\ \A k \in 2 .. Len(stack) : current \notin Up(mem, stack[k].previous)
  /\ \/ mem[current].prev = 0 /\ mem[current].next = 0
     \/ stack # << >> /\ stack[1].previous # 0 /\ current = stack[1].previous

\* Whatever is allocated, an ArrayNode struct apart, hangs below the array of a call
\* or below the value returned.
HeldNode(n) == \/ \E k \in 1 .. Len(stack) : n \in Dn(mem, stack[k].array)
               \/ HasValue /\ n \in Dn(mem, current)
PieceOK(q) == /\ q \in Pieces(q[1], mem[q[1]].type)
              /\ (q[2] = "struct" /\ mem[q[1]].type = "array") \/ HeldNode(q[1])
PiecesInv == \A q \in live : PieceOK(q)

LeakBody == Settled /\ Lists /\ Apart /\ ValueInv /\ PiecesInv
LeakInv == LexTypes /\ (Dead \/ LeakBody)

LEMMA QuietLeak ==
  ASSUME LexTypes, LeakBody, AtWork, QuietStep
  PROVE  Dead' \/ LeakBody'
<1>1. UNCHANGED <<stack, mem, live>>
  BY DEF QuietStep, Quiet
<1>2. lex_pc' \notin {"returned", "printed", "released"} /\ (HasValue' => current' = 0)
  BY DEF QuietStep, Quiet, HasValue
<1>3. Settled' /\ Lists' /\ Apart' /\ ValueInv'
  BY <1>1, <1>2 DEF LeakBody, Settled, Lists, Apart, ValueInv
<1>4. ~ HasValue
  BY DEF AtWork, HasValue, SizeStates
<1>5. ASSUME NEW n, HeldNode(n) PROVE HeldNode(n)'
  BY <1>1, <1>4, <1>5 DEF HeldNode
<1>6. PiecesInv'
  BY <1>1, <1>5 DEF LeakBody, PiecesInv, PieceOK
<1> QED BY <1>3, <1>6 DEF LeakBody

LEMMA UnsetLeak ==
  ASSUME LexTypes, LeakBody, AtWork, Unset
  PROVE  Dead' \/ LeakBody'
<1> SUFFICES ASSUME lex_pc' = "insert", current' \in {0, stack[1].previous} PROVE LeakBody'
  BY DEF Unset, Dead
<1>1. UNCHANGED <<stack, mem, live>> /\ stack # << >> /\ Len(stack) \in Nat \ {0}
  BY FrameTypes DEF Unset
<1>2. Settled' /\ Lists' /\ Apart'
  BY <1>1 DEF LeakBody, Settled, Lists, Apart
<1>3. ~ HasValue
  BY DEF AtWork, HasValue, SizeStates
<1>4. ASSUME NEW n, HeldNode(n) PROVE HeldNode(n)'
  BY <1>1, <1>3, <1>4 DEF HeldNode
<1>5. PiecesInv'
  BY <1>1, <1>4 DEF LeakBody, PiecesInv, PieceOK
<1>6. ValueInv'
  <2> SUFFICES ASSUME current' # 0
               PROVE  /\ \A k \in 1 .. Len(stack) : current' # stack[k].array
                      /\ \A k \in 2 .. Len(stack) : current' \notin Up(mem, stack[k].previous)
                      /\ stack[1].previous # 0 /\ current' = stack[1].previous
    BY <1>1 DEF ValueInv
  <2>1. current' = stack[1].previous /\ stack[1].previous # 0
    OBVIOUS
  <2>2. mem[stack[1].previous].prev # 0
    BY <1>1, <2>1 DEF LeakBody, Lists, ListOK
  <2>3. \A k \in 1 .. Len(stack) : stack[k].array = 0 \/ mem[stack[k].array].prev = 0
    BY DEF LeakBody, Lists, ListOK
  <2>4. \A k \in 2 .. Len(stack) : stack[1].previous \notin Up(mem, stack[k].previous)
    BY <1>1 DEF LeakBody, Apart
  <2> QED BY <2>1, <2>2, <2>3, <2>4
<1> QED BY <1>2, <1>5, <1>6 DEF LeakBody

LEMMA PushLeak ==
  ASSUME LexTypes, LeakBody, AtWork, Pushed
  PROVE  LeakBody'
<1>1. /\ Len(stack) \in Nat /\ Len(stack') = Len(stack) + 1
      /\ stack'[1].array = 0 /\ stack'[1].previous = 0
      /\ \A k \in 1 .. Len(stack) : stack'[k + 1] = stack[k]
  BY PushedStack
<1>2. UNCHANGED <<mem, live>> /\ lex_pc' = "element"
  BY DEF Pushed
<1>3. ASSUME NEW k \in 2 .. Len(stack') PROVE k - 1 \in 1 .. Len(stack) /\ stack'[k] = stack[k - 1]
  <2>1. k - 1 \in 1 .. Len(stack) /\ (k - 1) + 1 = k
    BY <1>1
  <2> QED BY <1>1, <2>1
<1>4. Settled' /\ ValueInv'
  BY <1>2 DEF Settled, ValueInv, HasValue
<1>5. Lists'
  <2> SUFFICES ASSUME NEW k \in 1 .. Len(stack')
               PROVE  ListOK(mem, stack'[k].array, stack'[k].previous)
    BY <1>2 DEF Lists
  <2>1. CASE k = 1
    BY <1>1, <2>1 DEF ListOK
  <2>2. CASE k # 1
    <3>1. k \in 2 .. Len(stack')
      BY <1>1, <2>2
    <3> QED BY <1>3, <3>1 DEF LeakBody, Lists
  <2> QED BY <2>1, <2>2
<1>6. MemFacts(mem)
  BY TypedMem DEF LexTypes
<1>7. Apart'
  <2> SUFFICES ASSUME NEW j \in 1 .. Len(stack'), NEW k \in 1 .. Len(stack'), j < k
               PROVE  /\ stack'[j].previous \notin Up(mem, stack'[k].previous)
                      /\ stack'[j].array \notin Up(mem, stack'[k].previous)
                      /\ stack'[j].array = 0 \/ stack'[j].array # stack'[k].array
    BY <1>2 DEF Apart
  <2>1. CASE j = 1
    <3>1. 0 \notin Up(mem, stack'[k].previous)
      BY <1>6, ListFacts DEF MemFacts
    <3> QED BY <1>1, <2>1, <3>1
  <2>2. CASE j # 1
    <3>1. j \in 2 .. Len(stack') /\ k \in 2 .. Len(stack') /\ j - 1 < k - 1
      BY <1>1, <2>2
    <3>2. /\ j - 1 \in 1 .. Len(stack) /\ k - 1 \in 1 .. Len(stack)
          /\ stack'[j] = stack[j - 1] /\ stack'[k] = stack[k - 1]
      BY <1>3, <3>1
    <3>3. /\ stack[j - 1].previous \notin Up(mem, stack[k - 1].previous)
          /\ stack[j - 1].array \notin Up(mem, stack[k - 1].previous)
          /\ stack[j - 1].array = 0 \/ stack[j - 1].array # stack[k - 1].array
      BY <3>1, <3>2, Zenon DEF LeakBody, Apart
    <3> QED BY <3>2, <3>3, Zenon
  <2> QED BY <2>1, <2>2
<1>8. ASSUME NEW n, HeldNode(n) PROVE HeldNode(n)'
  <2>1. ~ HasValue
    BY DEF AtWork, HasValue, SizeStates
  <2>2. PICK k \in 1 .. Len(stack) : n \in Dn(mem, stack[k].array)
    BY <1>8, <2>1 DEF HeldNode
  <2>3. k + 1 \in 1 .. Len(stack') /\ stack'[k + 1] = stack[k]
    BY <1>1
  <2> QED BY <1>2, <2>2, <2>3 DEF HeldNode
<1>9. PiecesInv'
  BY <1>2, <1>8 DEF LeakBody, PiecesInv, PieceOK
<1> QED BY <1>4, <1>5, <1>7, <1>9 DEF LeakBody

LEMMA GrownList ==
  ASSUME NEW M, MemFacts(M), NEW K, MemFacts(K), Len(M) <= Len(K),
         \A n \in 1 .. Len(M) : K[n] = M[n], NEW a, NEW p, ListOK(M, a, p)
  PROVE  ListOK(K, a, p)
<1>1. CASE a = 0 /\ p = 0
  BY <1>1 DEF ListOK
<1>2. CASE ~ (a = 0 /\ p = 0)
  <2>1. a \in 1 .. Len(M) /\ p \in 1 .. Len(M)
    BY <1>2 DEF ListOK
  <2>2. /\ a \in 1 .. Len(K) /\ p \in 1 .. Len(K) /\ K[a] = M[a] /\ K[p] = M[p]
        /\ a \in 0 .. Len(M) /\ p \in 0 .. Len(M)
    BY <2>1 DEF MemFacts
  <2>3. \A n \in Up(M, p) : K[n] = M[n]
    BY ListFacts
  <2>4. Dn(K, a) = Dn(M, a) /\ Up(K, p) = Up(M, p)
    BY <2>2, GrownReach
  <2> QED BY <1>2, <2>2, <2>3, <2>4 DEF ListOK
<1> QED BY <1>1, <1>2

\* New nodes on top of what there is.
LEMMA GrowLeak ==
  ASSUME LexTypes, LexTypes', LeakBody, AtWork, stack' = stack, lex_pc' = "insert",
         Len(mem) <= Len(mem'), \A n \in 1 .. Len(mem) : mem'[n] = mem[n],
         current' \in Len(mem) + 1 .. Len(mem'), mem'[current'].prev = 0, mem'[current'].next = 0,
         \A q \in live' : q \in live \/ PieceOK(q)'
  PROVE  LeakBody'
<1>1. MemFacts(mem) /\ MemFacts(mem') /\ Len(stack) \in Nat
  BY TypedMem, TypedMemNext DEF LexTypes, StackOK
<1>2. \A a \in 0 .. Len(mem) : Dn(mem', a) = Dn(mem, a) /\ Up(mem', a) = Up(mem, a)
  BY <1>1, GrownReach
<1>3. \A k \in 1 .. Len(stack) :
        /\ stack[k].array \in 0 .. Len(mem) /\ stack[k].previous \in 0 .. Len(mem)
        /\ Dn(mem', stack[k].array) = Dn(mem, stack[k].array)
        /\ Up(mem', stack[k].previous) = Up(mem, stack[k].previous)
  BY <1>2 DEF LexTypes, StackOK, Address
<1>4. Settled'
  BY DEF Settled
<1>5. Lists'
  <2> SUFFICES ASSUME NEW k \in 1 .. Len(stack)
               PROVE  ListOK(mem', stack[k].array, stack[k].previous)
    BY DEF Lists
  <2>1. ListOK(mem, stack[k].array, stack[k].previous)
    BY DEF LeakBody, Lists
  <2> QED BY <1>1, <2>1, GrownList
<1>6. Apart'
  <2> SUFFICES ASSUME NEW j \in 1 .. Len(stack), NEW k \in 1 .. Len(stack), j < k
               PROVE  /\ stack[j].previous \notin Up(mem', stack[k].previous)
                      /\ stack[j].array \notin Up(mem', stack[k].previous)
                      /\ stack[j].array = 0 \/ stack[j].array # stack[k].array
    BY DEF Apart
  <2>1. Up(mem', stack[k].previous) = Up(mem, stack[k].previous)
    BY <1>3
  <2> QED BY <2>1, Zenon DEF LeakBody, Apart
<1>7. ValueInv'
  <2>1. current' # 0 /\ current' \notin 0 .. Len(mem)
    BY <1>1 DEF MemFacts
  <2>2. \A k \in 1 .. Len(stack) : current' # stack[k].array
    BY <1>3, <2>1
  <2>3. ASSUME NEW k \in 2 .. Len(stack) PROVE current' \notin Up(mem', stack[k].previous)
    <3>1. k \in 1 .. Len(stack)
      BY <1>1
    <3>2. Up(mem', stack[k].previous) \subseteq 1 .. Len(mem)
      BY <1>1, <1>3, <3>1, ListFacts
    <3> QED BY <1>1, <2>1, <3>2 DEF MemFacts
  <2> QED BY <2>2, <2>3 DEF ValueInv
<1>8. ASSUME NEW q \in live PROVE PieceOK(q)'
  <2>1. PieceOK(q) /\ q[1] \in 1 .. Len(mem)
    BY DEF LeakBody, PiecesInv, LexTypes
  <2>2. mem'[q[1]] = mem[q[1]]
    BY <2>1
  <2>3. HeldNode(q[1]) => HeldNode(q[1])'
    <3>1. ~ HasValue
      BY DEF AtWork, HasValue, SizeStates
    <3> QED BY <1>3, <3>1 DEF HeldNode
  <2> QED BY <2>1, <2>2, <2>3 DEF PieceOK
<1>9. PiecesInv'
  BY <1>8 DEF PiecesInv
<1> QED BY <1>4, <1>5, <1>6, <1>7, <1>9 DEF LeakBody

LEMMA NewBulkLeak ==
  ASSUME LexTypes, LexTypes', LeakBody, AtWork, NewBulk
  PROVE  LeakBody'
<1>1. /\ Len(mem') = Len(mem) + 1 /\ \A n \in 1 .. Len(mem) : mem'[n] = mem[n]
      /\ mem'[Len(mem) + 1] = Node("bulk", text, ElSize)
      /\ Len(mem) \in Nat
  BY GrownTypes, MemSeq DEF NewBulk, LexTypes, NodeType
<1>2. current' = Len(mem) + 1 /\ lex_pc' = "insert" /\ stack' = stack
  BY DEF NewBulk
<1>3. mem'[current'].type = "bulk" /\ mem'[current'].prev = 0 /\ mem'[current'].next = 0
  BY <1>1, <1>2 DEF Node, NULL
<1>4. ASSUME NEW q \in live', q \notin live PROVE PieceOK(q)'
  <2>1. q \in Pieces(Len(mem) + 1, "bulk")
    BY <1>4 DEF NewBulk
  <2>2. q[1] = current'
    BY <1>2, <2>1, PiecesType
  <2>3. current' \in Dn(mem', current')
    <3>1. MemFacts(mem') /\ current' \in 1 .. Len(mem')
      BY <1>1, <1>2, TypedMemNext DEF LexTypes
    <3> QED BY <3>1, ListFacts
  <2> QED BY <1>2, <1>3, <2>1, <2>2, <2>3 DEF PieceOK, HeldNode, HasValue
<1>5. Len(mem) <= Len(mem') /\ current' \in Len(mem) + 1 .. Len(mem')
  BY <1>1, <1>2
<1> QED BY <1>1, <1>2, <1>3, <1>4, <1>5, GrowLeak

LEMMA NewMarkerLeak ==
  ASSUME LexTypes, LexTypes', LeakBody, AtWork, NewMarker
  PROVE  LeakBody'
<1>1. /\ Len(mem') = Len(mem) + 2 /\ \A n \in 1 .. Len(mem) : mem'[n] = mem[n]
      /\ \E t \in Markers : mem'[Len(mem) + 1] = Node(t, 0, 0)
      /\ mem'[Len(mem) + 2] = Node("array", Len(mem) + 1, 1)
      /\ Len(mem) \in Nat
  BY NewMarkerMem, MemSeq DEF LexTypes
<1>2. current' = Len(mem) + 2 /\ lex_pc' = "insert" /\ stack' = stack
  BY DEF NewMarker
<1>3. /\ mem'[current'].type = "array" /\ mem'[current'].prev = 0 /\ mem'[current'].next = 0
      /\ mem'[current'].content = Len(mem) + 1 /\ mem'[Len(mem) + 1].type \in Markers
  BY <1>1, <1>2 DEF Node, NULL
<1>4. ASSUME NEW q \in live', q \notin live PROVE PieceOK(q)'
  <2>1. current' \in Dn(mem', current') /\ Len(mem) + 1 \in Dn(mem', current')
    <3>1. MemFacts(mem') /\ current' \in 1 .. Len(mem')
      BY <1>1, <1>2, TypedMemNext DEF LexTypes
    <3>2. current' \in Dn(mem', current')
      BY <3>1, ListFacts
    <3> QED BY <1>3, <3>1, <3>2, ListFacts
  <2>2. q \in Pieces(Len(mem) + 1, "marker") \/ q \in Pieces(Len(mem) + 2, "array")
    BY <1>4 DEF NewMarker
  <2>3. CASE q \in Pieces(Len(mem) + 1, "marker")
    <3>1. q[1] = Len(mem) + 1
      BY <2>3, PiecesType
    <3>2. Pieces(Len(mem) + 1, "marker") = Pieces(Len(mem) + 1, mem'[q[1]].type)
      BY <1>3, <3>1 DEF Pieces, Markers
    <3> QED BY <1>2, <2>1, <2>3, <3>1, <3>2 DEF PieceOK, HeldNode, HasValue
  <2>4. CASE q \in Pieces(Len(mem) + 2, "array")
    <3>1. q[1] = current'
      BY <1>2, <2>4, PiecesType
    <3> QED BY <1>2, <1>3, <2>1, <2>4, <3>1 DEF PieceOK, HeldNode, HasValue
  <2> QED BY <2>2, <2>3, <2>4
<1>5. Len(mem) <= Len(mem') /\ current' \in Len(mem) + 1 .. Len(mem')
  BY <1>1, <1>2
<1> QED BY <1>1, <1>2, <1>3, <1>4, <1>5, GrowLeak

\* What delete_array frees: all that hangs below a top it comes back to.
LEMMA FreedBelow ==
  ASSUME LexTypes, PiecesInv, NEW p, NEW a \in Up(mem, p), mem[a].prev = 0,
         NEW q \in live, q \notin Freed(Swept(p))
  PROVE  (q[2] = "struct" /\ mem[q[1]].type = "array") \/ q[1] \notin Dn(mem, a)
<1> SUFFICES ASSUME q[1] \in Dn(mem, a) PROVE q[2] = "struct" /\ mem[q[1]].type = "array"
  OBVIOUS
<1>1. Back(p) = Up(mem, p) /\ Closure(a, Below) = Dn(mem, a)
  BY ClosureIsReached DEF LexTypes, Back
<1>2. q[1] \in Swept(p)
  BY <1>1 DEF Swept
<1>3. q \in Pieces(q[1], mem[q[1]].type)
  BY DEF PiecesInv, PieceOK
<1>4. q \in UNION {Pieces(n, mem[n].type) : n \in Swept(p)}
  BY <1>2, <1>3, Zenon
<1>5. q \in {<<n, "struct">> : n \in {m \in Swept(p) : mem[m].type = "array"}}
  <2> DEFINE U == UNION {Pieces(n, mem[n].type) : n \in Swept(p)}
             X == {<<n, "struct">> : n \in {m \in Swept(p) : mem[m].type = "array"}}
  <2>1. Freed(Swept(p)) = U \ X
    BY DEF Freed
  <2>2. q \in U
    BY <1>4
  <2> HIDE DEF U, X
  <2>3. q \in X
    BY <2>1, <2>2
  <2> QED BY <2>3 DEF X
<1> QED BY <1>5

\* The frames below the one that returns.
LEMMA PoppedFrames ==
  ASSUME LexTypes, stack # << >>, stack' = Tail(stack)
  PROVE  /\ Len(stack) \in Nat \ {0} /\ Len(stack') = Len(stack) - 1
         /\ \A k \in 1 .. Len(stack') : k + 1 \in 2 .. Len(stack) /\ stack'[k] = stack[k + 1]
<1>1. /\ Len(stack) \in Nat \ {0} /\ Len(stack') = Len(stack) - 1
      /\ \A k \in 1 .. Len(stack') : stack'[k] = stack[k + 1]
  BY FrameTypes
<1> QED BY <1>1

LEMMA AbandonLeak ==
  ASSUME LexTypes, LeakBody, Abandon
  PROVE  Dead' \/ LeakBody'
<1>1. /\ lex_pc = "insert" /\ current = 0 /\ stack # << >> /\ stack' = Tail(stack)
      /\ UNCHANGED <<current, mem>> /\ Deleted(stack[1].previous, "insert")
  BY AbandonEffect
<1> SUFFICES ASSUME ~ Dead' PROVE LeakBody'
  OBVIOUS
<1>2. /\ ~ LoopsBack(Back(stack[1].previous)) /\ lex_pc' = "insert"
      /\ live' = live \ Freed(Swept(stack[1].previous))
  BY <1>1 DEF Deleted, Dead
<1>3. /\ Len(stack) \in Nat \ {0} /\ Len(stack') = Len(stack) - 1
      /\ \A k \in 1 .. Len(stack') : k + 1 \in 2 .. Len(stack) /\ stack'[k] = stack[k + 1]
  BY <1>1, PoppedFrames
<1>4. Settled' /\ ValueInv'
  BY <1>1, <1>2 DEF Settled, ValueInv
<1>5. Lists'
  <2> SUFFICES ASSUME NEW k \in 1 .. Len(stack')
               PROVE  ListOK(mem, stack'[k].array, stack'[k].previous)
    BY <1>1 DEF Lists
  <2>1. k + 1 \in 1 .. Len(stack) /\ stack'[k] = stack[k + 1]
    BY <1>3
  <2> QED BY <2>1, Zenon DEF LeakBody, Lists
<1>6. Apart'
  <2> SUFFICES ASSUME NEW j \in 1 .. Len(stack'), NEW k \in 1 .. Len(stack'), j < k
               PROVE  /\ stack'[j].previous \notin Up(mem, stack'[k].previous)
                      /\ stack'[j].array \notin Up(mem, stack'[k].previous)
                      /\ stack'[j].array = 0 \/ stack'[j].array # stack'[k].array
    BY <1>1 DEF Apart
  <2>1. /\ j + 1 \in 1 .. Len(stack) /\ k + 1 \in 1 .. Len(stack) /\ j + 1 < k + 1
        /\ stack'[j] = stack[j + 1] /\ stack'[k] = stack[k + 1]
    BY <1>3
  <2>2. /\ stack[j + 1].previous \notin Up(mem, stack[k + 1].previous)
        /\ stack[j + 1].array \notin Up(mem, stack[k + 1].previous)
        /\ stack[j + 1].array = 0 \/ stack[j + 1].array # stack[k + 1].array
    BY <2>1, Zenon DEF LeakBody, Apart
  <2> QED BY <2>1, <2>2, Zenon
<1>7. MemFacts(mem) /\ Back(stack[1].previous) = Up(mem, stack[1].previous)
  BY TypedMem, ClosureIsReached DEF LexTypes, Back
<1>8. ASSUME NEW q \in live' PROVE PieceOK(q)'
  <2>1. q \in live /\ q \notin Freed(Swept(stack[1].previous)) /\ PieceOK(q)
    BY <1>2 DEF LeakBody, PiecesInv
  <2>2. CASE q[2] = "struct" /\ mem[q[1]].type = "array"
    BY <1>1, <2>1, <2>2 DEF PieceOK
  <2>3. CASE ~ (q[2] = "struct" /\ mem[q[1]].type = "array")
    <3>1. Dn(mem, current) = {}
      BY <1>1, <1>7, ListFacts
    <3>2. PICK k \in 1 .. Len(stack) : q[1] \in Dn(mem, stack[k].array)
      BY <2>1, <2>3, <3>1 DEF PieceOK, HeldNode
    <3>3. k # 1
      <4> SUFFICES ASSUME q[1] \in Dn(mem, stack[1].array) PROVE FALSE
        BY <3>2
      <4>1. ListOK(mem, stack[1].array, stack[1].previous)
        BY <1>3 DEF LeakBody, Lists
      <4>2. stack[1].array # 0
        BY <1>7, ListFacts
      <4>3. \A n \in Up(mem, stack[1].previous) : mem[n].prev # n
        BY <1>2, <1>7 DEF LoopsBack
      <4>4. stack[1].array \in Up(mem, stack[1].previous) /\ mem[stack[1].array].prev = 0
        BY <4>1, <4>2, <4>3 DEF ListOK
      <4>5. PiecesInv
        BY DEF LeakBody
      <4> QED BY <2>1, <2>3, <4>4, <4>5, FreedBelow
    <3>4. k - 1 \in 1 .. Len(stack') /\ (k - 1) + 1 = k
      BY <1>3, <3>3
    <3>5. stack'[k - 1] = stack[k]
      BY <1>3, <3>4
    <3>6. HeldNode(q[1])'
      BY <1>1, <3>2, <3>4, <3>5 DEF HeldNode
    <3> QED BY <1>1, <2>1, <3>6 DEF PieceOK
  <2> QED BY <2>2, <2>3
<1>9. PiecesInv'
  BY <1>8 DEF PiecesInv
<1> QED BY <1>4, <1>5, <1>6, <1>9 DEF LeakBody

LEMMA InsertLeak ==
  ASSUME LexTypes, LexTypes', LeakBody, Inserted
  PROVE  LeakBody'
<1>1. /\ lex_pc = "insert" /\ current \in 1 .. Len(mem) /\ stack # << >> /\ LinkedMem
      /\ live' = live \cup Pieces(TheArray, "array")
  BY DEF Inserted
<1>2. MemFacts(mem) /\ MemFacts(mem') /\ Len(stack) \in Nat \ {0} /\ 1 \in 1 .. Len(stack)
  <2>1. Len(stack) \in Nat \ {0}
    BY <1>1, FrameTypes
  <2> QED BY <2>1, TypedMem, TypedMemNext DEF LexTypes
<1>3. PICK A, P : A = stack[1].array /\ P = stack[1].previous
  OBVIOUS
<1>4. LinkRel(mem, mem', A, P, current) /\ TheArray = ArrayIn(mem, A)
  BY <1>1, <1>3 DEF LinkedMem, LinkRel, ThePrev, TheArray, ArrayIn
<1>5. ListOK(mem, A, P)
  BY <1>2, <1>3 DEF LeakBody, Lists
<1>6. /\ \A k \in 1 .. Len(stack) : current # stack[k].array
      /\ \A k \in 2 .. Len(stack) : current \notin Up(mem, stack[k].previous)
      /\ ValueOK(mem, P, current) /\ current # A
  <2>1. HasValue /\ current # 0
    BY <1>1 DEF HasValue
  <2>2. /\ \A k \in 1 .. Len(stack) : current # stack[k].array
        /\ \A k \in 2 .. Len(stack) : current \notin Up(mem, stack[k].previous)
        /\ ValueOK(mem, P, current)
    BY <1>3, <2>1 DEF LeakBody, ValueInv, ValueOK
  <2> QED BY <1>2, <1>3, <2>2
<1>7. /\ TheArray \in 1 .. Len(mem') /\ TheArray \in Dn(mem', TheArray)
      /\ current \in Dn(mem', TheArray)
      /\ Dn(mem, A) \subseteq Dn(mem', TheArray) /\ Dn(mem, current) \subseteq Dn(mem', TheArray)
  BY <1>1, <1>2, <1>4, <1>5, LinkHangs
<1>8. /\ mem'[TheArray].type = "array"
      /\ mem'[TheArray].prev = 0 /\ mem'[TheArray].next = 0
  BY <1>1, <1>2, <1>4, <1>5, <1>6, LinkTop
<1>9. ListOK(mem', TheArray, current)
  BY <1>1, <1>2, <1>4, <1>5, <1>6, LinkList
<1>10. ASSUME NEW k \in 2 .. Len(stack)
       PROVE  /\ k \in 1 .. Len(stack) /\ ListOK(mem', stack[k].array, stack[k].previous)
              /\ Up(mem', stack[k].previous) = Up(mem, stack[k].previous)
              /\ TheArray \notin Up(mem, stack[k].previous) /\ TheArray # stack[k].array
              /\ Dn(mem, stack[k].array) \subseteq Dn(mem', stack[k].array)
  <2>1. k \in 1 .. Len(stack) /\ 1 < k
    BY <1>2
  <2>2. /\ P \notin Up(mem, stack[k].previous) /\ A \notin Up(mem, stack[k].previous)
        /\ A = 0 \/ A # stack[k].array
    BY <1>2, <1>3, <2>1 DEF LeakBody, Apart
  <2>3. ListOK(mem, stack[k].array, stack[k].previous)
    BY <2>1 DEF LeakBody, Lists
  <2>4. current # stack[k].array /\ current \notin Up(mem, stack[k].previous)
    BY <1>6, <2>1
  <2>5. /\ ListOK(mem', stack[k].array, stack[k].previous)
        /\ Up(mem', stack[k].previous) = Up(mem, stack[k].previous)
    BY <1>1, <1>2, <1>4, <1>5, <2>2, <2>3, <2>4, LinkOther
  <2>6. stack[k].array \in 0 .. Len(mem) /\ Up(mem, stack[k].previous) \subseteq 1 .. Len(mem)
    BY <1>2, <2>1, ListFacts DEF LexTypes, StackOK, Address
  <2>7. TheArray \notin Up(mem, stack[k].previous) /\ TheArray # stack[k].array
    BY <1>2, <1>4, <2>2, <2>6 DEF ArrayIn, MemFacts
  <2>8. Dn(mem, stack[k].array) \subseteq Dn(mem', stack[k].array)
    BY <1>2, <1>4, <1>5, <2>6, LinkKeeps
  <2> QED BY <2>1, <2>5, <2>7, <2>8
\* The pieces, when every node held stays held.
<1>11. PICK B : B = TheArray
  OBVIOUS
<1>12. ASSUME \A n : HeldNode(n) \/ n = B => HeldNode(n)'
       PROVE  PiecesInv'
  <2> SUFFICES ASSUME NEW q \in live' PROVE PieceOK(q)'
    BY DEF PiecesInv
  <2>1. CASE q \in live
    <3>1. PieceOK(q) /\ q[1] \in 1 .. Len(mem)
      BY <2>1 DEF LeakBody, PiecesInv, LexTypes
    <3>2. mem'[q[1]].type = mem[q[1]].type
      BY <1>4, <3>1 DEF LinkRel
    <3> QED BY <1>12, <3>1, <3>2 DEF PieceOK
  <2>2. CASE q \in Pieces(TheArray, "array")
    <3>1. q[1] = TheArray
      BY <2>2, PiecesType
    <3>2. mem'[q[1]].type = "array" /\ HeldNode(q[1])'
      BY <1>8, <1>11, <1>12, <3>1
    <3> QED BY <2>2, <3>1, <3>2 DEF PieceOK
  <2> QED BY <1>1, <2>1, <2>2
<1>13. CASE /\ lex_pc' = "element" /\ current' = current /\ Len(stack') = Len(stack)
            /\ stack'[1].array = TheArray /\ stack'[1].previous = current
            /\ \A k \in 2 .. Len(stack) : stack'[k] = stack[k]
  <2>1. Settled' /\ ValueInv'
    BY <1>13 DEF Settled, ValueInv, HasValue
  <2>2. \A k \in 1 .. Len(stack') : k = 1 \/ (k \in 2 .. Len(stack) /\ stack'[k] = stack[k])
    BY <1>2, <1>13
  <2>3. Lists'
    <3> SUFFICES ASSUME NEW k \in 1 .. Len(stack')
                 PROVE  ListOK(mem', stack'[k].array, stack'[k].previous)
      BY DEF Lists
    <3>1. CASE k = 1
      BY <1>9, <1>13, <3>1
    <3>2. CASE k \in 2 .. Len(stack) /\ stack'[k] = stack[k]
      BY <1>10, <3>2
    <3> QED BY <2>2, <3>1, <3>2
  <2>4. Apart'
    <3> SUFFICES ASSUME NEW j \in 1 .. Len(stack'), NEW k \in 1 .. Len(stack'), j < k
                 PROVE  /\ stack'[j].previous \notin Up(mem', stack'[k].previous)
                        /\ stack'[j].array \notin Up(mem', stack'[k].previous)
                        /\ stack'[j].array = 0 \/ stack'[j].array # stack'[k].array
      BY DEF Apart
    <3>1. k \in 2 .. Len(stack) /\ stack'[k] = stack[k]
      BY <1>2, <2>2
    <3>2. Up(mem', stack'[k].previous) = Up(mem, stack[k].previous)
      BY <1>10, <3>1
    <3>3. CASE j = 1
      BY <1>6, <1>10, <1>13, <3>1, <3>2, <3>3
    <3>4. CASE j \in 2 .. Len(stack) /\ stack'[j] = stack[j]
      <4>1. j \in 1 .. Len(stack) /\ k \in 1 .. Len(stack)
        BY <1>10, <3>1, <3>4
      <4>2. /\ stack[j].previous \notin Up(mem, stack[k].previous)
            /\ stack[j].array \notin Up(mem, stack[k].previous)
            /\ stack[j].array = 0 \/ stack[j].array # stack[k].array
        BY <4>1, Zenon DEF LeakBody, Apart
      <4> QED BY <3>1, <3>2, <3>4, <4>2
    <3> QED BY <2>2, <3>3, <3>4
  <2>5. 1 \in 1 .. Len(stack') /\ \A k \in 2 .. Len(stack) : k \in 1 .. Len(stack')
    BY <1>2, <1>13
  <2>6. \A n \in Dn(mem', TheArray) : HeldNode(n)'
    BY <1>13, <2>5 DEF HeldNode
  <2>7. ASSUME NEW n, HeldNode(n) PROVE HeldNode(n)'
    <3>1. CASE n \in Dn(mem, current)
      BY <1>7, <2>6, <3>1
    <3>2. CASE \E k \in 1 .. Len(stack) : n \in Dn(mem, stack[k].array)
      <4>1. PICK k \in 1 .. Len(stack) : n \in Dn(mem, stack[k].array)
        BY <3>2
      <4>2. CASE k = 1
        BY <1>3, <1>7, <2>6, <4>1, <4>2
      <4>3. CASE k # 1
        <5>1. k \in 2 .. Len(stack)
          BY <1>2, <4>3
        <5> QED BY <1>10, <1>13, <2>5, <4>1, <5>1 DEF HeldNode
      <4> QED BY <4>2, <4>3
    <3> QED BY <2>7, <3>1, <3>2 DEF HeldNode
  <2>8. PiecesInv'
    <3>1. \A n : HeldNode(n) \/ n = B => HeldNode(n)'
      BY <1>7, <1>11, <2>6, <2>7, Zenon
    <3> QED BY <1>12, <3>1, Zenon
  <2> QED BY <2>1, <2>3, <2>4, <2>8 DEF LeakBody
<1>14. CASE lex_pc' = "insert" /\ current' = TheArray /\ stack' = Tail(stack)
  <2>1. /\ Len(stack') = Len(stack) - 1
        /\ \A k \in 1 .. Len(stack') : k + 1 \in 2 .. Len(stack) /\ stack'[k] = stack[k + 1]
    BY <1>1, <1>14, PoppedFrames
  <2>2. Settled'
    BY <1>14 DEF Settled
  <2>3. Lists'
    BY <1>10, <2>1 DEF Lists
  <2>4. Apart'
    <3> SUFFICES ASSUME NEW j \in 1 .. Len(stack'), NEW k \in 1 .. Len(stack'), j < k
                 PROVE  /\ stack'[j].previous \notin Up(mem', stack'[k].previous)
                        /\ stack'[j].array \notin Up(mem', stack'[k].previous)
                        /\ stack'[j].array = 0 \/ stack'[j].array # stack'[k].array
      BY DEF Apart
    <3>1. /\ j + 1 \in 2 .. Len(stack) /\ k + 1 \in 2 .. Len(stack) /\ j + 1 < k + 1
          /\ stack'[j] = stack[j + 1] /\ stack'[k] = stack[k + 1]
      BY <2>1
    <3>2. /\ j + 1 \in 1 .. Len(stack) /\ k + 1 \in 1 .. Len(stack)
          /\ Up(mem', stack'[k].previous) = Up(mem, stack[k + 1].previous)
      BY <1>10, <3>1
    <3>3. /\ stack[j + 1].previous \notin Up(mem, stack[k + 1].previous)
          /\ stack[j + 1].array \notin Up(mem, stack[k + 1].previous)
          /\ stack[j + 1].array = 0 \/ stack[j + 1].array # stack[k + 1].array
      BY <3>1, <3>2, Zenon DEF LeakBody, Apart
    <3> QED BY <3>1, <3>2, <3>3
  <2>5. ValueInv'
    <3>1. \A k \in 1 .. Len(stack') : TheArray # stack'[k].array
      BY <1>10, <2>1
    <3>2. \A k \in 1 .. Len(stack') : TheArray \notin Up(mem', stack'[k].previous)
      BY <1>10, <2>1
    <3>3. \A k \in 2 .. Len(stack') : k \in 1 .. Len(stack')
      BY <1>2, <2>1
    <3> QED BY <1>8, <1>14, <3>1, <3>2, <3>3 DEF ValueInv
  <2>6. \A n \in Dn(mem', TheArray) : HeldNode(n)'
    BY <1>14 DEF HeldNode, HasValue
  <2>7. ASSUME NEW n, HeldNode(n) PROVE HeldNode(n)'
    <3>1. CASE n \in Dn(mem, current)
      BY <1>7, <2>6, <3>1
    <3>2. CASE \E k \in 1 .. Len(stack) : n \in Dn(mem, stack[k].array)
      <4>1. PICK k \in 1 .. Len(stack) : n \in Dn(mem, stack[k].array)
        BY <3>2
      <4>2. CASE k = 1
        BY <1>3, <1>7, <2>6, <4>1, <4>2
      <4>3. CASE k # 1
        <5>1. k \in 2 .. Len(stack) /\ k - 1 \in 1 .. Len(stack') /\ (k - 1) + 1 = k
          BY <1>2, <2>1, <4>3
        <5>2. stack'[k - 1] = stack[k]
          BY <2>1, <5>1
        <5> QED BY <1>10, <4>1, <5>1, <5>2 DEF HeldNode
      <4> QED BY <4>2, <4>3
    <3> QED BY <2>7, <3>1, <3>2 DEF HeldNode
  <2>8. PiecesInv'
    <3>1. \A n : HeldNode(n) \/ n = B => HeldNode(n)'
      BY <1>7, <1>11, <2>6, <2>7, Zenon
    <3> QED BY <1>12, <3>1, Zenon
  <2> QED BY <2>2, <2>3, <2>4, <2>5, <2>8 DEF LeakBody
<1> QED BY <1>13, <1>14 DEF Inserted

LEMMA LeakNext ==
  ASSUME LeakInv, LexNext
  PROVE  LeakInv'
<1>1. LexTypes /\ LexTypes'
  BY LexSteps DEF LeakInv
<1>2. CASE LexTerminated
  <2>1. UNCHANGED <<lex_pc, stack, current, mem, live>>
    BY <1>2 DEF LexTerminated, lex_vars
  <2> QED BY <1>1, <2>1, ZenonT(60)
       DEF LeakInv, Dead, LeakBody, Settled, Lists, Apart, ValueInv, PiecesInv, PieceOK,
             HeldNode, HasValue
<1>3. CASE Dead /\ ~ LexTerminated
  <2>1. ~ AtWork /\ lex_pc \notin {"insert", "returned", "printed"}
    BY <1>3 DEF Dead, AtWork, SizeStates
  <2>2. ~ Inserted /\ ~ Abandon /\ ~ Returned /\ ~ print_array /\ ~ Release
    BY <2>1 DEF Inserted, Abandon, Returned, print_array, Release
  <2> QED BY <1>1, <1>3, <2>1, <2>2, LexSteps
<1>4. CASE LeakBody /\ AtWork /\ (QuietStep \/ NewBulk \/ NewMarker \/ Pushed \/ Unset)
  BY <1>1, <1>4, QuietLeak, NewBulkLeak, NewMarkerLeak, PushLeak, UnsetLeak DEF LeakInv
<1>5. CASE LeakBody /\ Inserted
  BY <1>1, <1>5, InsertLeak DEF LeakInv
<1>6. CASE LeakBody /\ Abandon
  BY <1>1, <1>6, AbandonLeak DEF LeakInv
<1>7. CASE LeakBody /\ Returned
  <2>1. /\ UNCHANGED <<stack, current, mem, live>> /\ stack = << >>
        /\ lex_pc = "insert" /\ lex_pc' = "returned"
    BY <1>7 DEF Returned
  <2>2. HasValue /\ HasValue'
    BY <2>1 DEF HasValue
  <2>3. LeakBody'
    BY <1>7, <2>1, <2>2
       DEF LeakBody, Settled, Lists, Apart, ValueInv, PiecesInv, PieceOK, HeldNode
  <2> QED BY <1>1, <2>3 DEF LeakInv
<1>8. CASE LeakBody /\ print_array
  <2>1. /\ UNCHANGED <<stack, current, mem, live>> /\ lex_pc = "returned"
        /\ lex_pc' = "printed" \/ Dead'
    BY <1>8, PrintEffect DEF Dead
  <2>2. lex_pc' = "printed" => LeakBody'
    <3> SUFFICES ASSUME lex_pc' = "printed" PROVE LeakBody'
      OBVIOUS
    <3>1. HasValue /\ HasValue' /\ stack = << >>
      BY <1>8, <2>1 DEF HasValue, LeakBody, Settled
    <3> QED BY <1>8, <2>1, <3>1
         DEF LeakBody, Settled, Lists, Apart, ValueInv, PiecesInv, PieceOK, HeldNode
  <2> QED BY <1>1, <2>1, <2>2 DEF LeakInv
<1>9. CASE LeakBody /\ Release
  <2>1. /\ UNCHANGED <<current, stack, mem>>
        /\ \/ lex_pc = "returned" /\ current = 0 /\ lex_pc' = "released" /\ live' = live
           \/ lex_pc = "printed" /\ Deleted(current, "released")
    BY <1>9, ReleaseEffect
  <2> SUFFICES ASSUME ~ Dead' PROVE LeakBody'
    BY <1>1 DEF LeakInv
  <2>2. lex_pc' = "released" /\ live' \subseteq live /\ stack = << >> /\ stack' = << >>
    BY <1>9, <2>1 DEF Deleted, Dead, LeakBody, Settled
  <2>3. Settled' /\ Lists' /\ Apart' /\ ValueInv'
    BY <2>2 DEF Settled, Lists, Apart, ValueInv, HasValue
  <2>4. MemFacts(mem) /\ PiecesInv
    BY <1>1, <1>9, TypedMem DEF LexTypes, LeakBody
  <2>5. ASSUME NEW q \in live' PROVE q[2] = "struct" /\ mem[q[1]].type = "array"
    <3> SUFFICES ASSUME ~ (q[2] = "struct" /\ mem[q[1]].type = "array") PROVE FALSE
      OBVIOUS
    <3>1. q \in live /\ PieceOK(q)
      BY <2>2, <2>4 DEF PiecesInv
    <3>2. q[1] \in Dn(mem, current)
      BY <2>2, <3>1 DEF PieceOK, HeldNode
    <3>3. current # 0
      BY <2>4, <3>2, ListFacts
    <3>4. /\ lex_pc = "printed" /\ live' = live \ Freed(Swept(current))
      BY <2>1, <2>2, <3>3 DEF Deleted
    <3>5. mem[current].prev = 0
      BY <1>9, <2>2, <3>3, <3>4 DEF LeakBody, ValueInv, HasValue
    <3>6. current \in Up(mem, current)
      <4>1. current \in 1 .. Len(mem)
        BY <1>1, <2>4, <3>3 DEF LexTypes, Address, MemFacts
      <4> QED BY <2>4, <4>1, ListFacts
    <3> QED BY <1>1, <2>4, <3>1, <3>2, <3>4, <3>5, <3>6, FreedBelow
  <2>6. PiecesInv'
    BY <2>1, <2>2, <2>4, <2>5 DEF PiecesInv, PieceOK
  <2> QED BY <2>3, <2>6 DEF LeakBody
<1> QED BY <1>1, <1>2, <1>3, <1>4, <1>5, <1>6, <1>7, <1>8, <1>9, LexSteps DEF LeakInv

\* Of a request that is answered, or refused at any byte, delete_array and the error
\* paths of lexer free everything but the ArrayNode structs: at every nesting depth,
\* and for requests with markers, nil strings and unset elements as well.
THEOREM OnlyArrayStructsLeakHolds == LexSpec => []OnlyArrayStructsLeak
<1>1. LexInit => LeakInv
  <2> SUFFICES ASSUME LexInit PROVE LeakInv
    OBVIOUS
  <2>1. LexTypes
    BY LexInitTypes
  <2> QED BY <2>1
       DEF LexInit, LeakInv, LeakBody, Settled, Lists, Apart, ValueInv, PiecesInv, HasValue
<1>2. LeakInv /\ [LexNext]_lex_vars => LeakInv'
  <2>1. CASE LexNext
    BY <2>1, LeakNext
  <2>2. CASE UNCHANGED lex_vars
    <3>1. UNCHANGED <<lex_pc, sz, stack, current, mem, live, odd>>
      BY <2>2 DEF lex_vars
    <3>2. LexTypes => LexTypes'
      BY <3>1, Zenon DEF LexTypes, MemOK, SizeOK, StackOK, Address
    <3> QED BY <3>1, <3>2, ZenonT(60)
         DEF LeakInv, Dead, LeakBody, Settled, Lists, Apart, ValueInv, PiecesInv, PieceOK,
             HeldNode, HasValue
  <2> QED BY <2>1, <2>2
<1>3. LeakInv => OnlyArrayStructsLeak
  <2> SUFFICES ASSUME LeakInv, lex_pc = "released", NEW q \in live
               PROVE  q \in {<<n, "struct">> : n \in {m \in DOMAIN mem : mem[m].type = "array"}}
    BY DEF OnlyArrayStructsLeak
  <2>1. LexTypes /\ LeakBody /\ stack = << >> /\ ~ HasValue
    BY DEF LeakInv, Dead, LeakBody, Settled, HasValue
  <2>2. q[2] = "struct" /\ mem[q[1]].type = "array"
    BY <2>1 DEF LeakBody, PiecesInv, PieceOK, HeldNode
  <2>3. q[1] \in DOMAIN mem /\ q = <<q[1], q[2]>>
    BY <2>1, MemSeq DEF LexTypes
  <2> QED BY <2>2, <2>3
<1> QED BY <1>1, <1>2, <1>3, PTL DEF LexSpec

=============================================================================
