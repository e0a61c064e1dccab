----------------------------- MODULE Admission -----------------------------
(***************************************************************************)
(* What the connection front end of src/server.c promises, without its     *)
(* threads, mutexes, semaphores and file descriptors.                      *)
(*                                                                         *)
(* A connection is accepted, joins one waiting line, and leaves it from    *)
(* the head only: it is either served or, if it has waited longer than     *)
(* Limit, denied.  Either way it is closed exactly once, and a connection  *)
(* that was served is never denied.  Server.tla implements this module.    *)
(***************************************************************************)
EXTENDS Naturals, Sequences

CONSTANTS Conn,   \* the connections clients open
          Limit   \* a connection may be denied once it waited longer than this

VARIABLES phase,  \* phase[c]: how far connection c got
          line,   \* the connections waiting for a worker, oldest first
          since,  \* since[c]: when c was accepted
          now     \* the monotonic clock

vars == <<phase, line, since, now>>

Phases == {"new", "accepted", "waiting", "serving", "denied", "closed"}

Init ==
  /\ phase = [c \in Conn |-> "new"]
  /\ line  = <<>>
  /\ since = [c \in Conn |-> 0]
  /\ now   = 0

Move(c, from, to) ==
  /\ phase[c] = from
  /\ phase' = [phase EXCEPT ![c] = to]

Accept(c) ==
  /\ Move(c, "new", "accepted")
  /\ since' = [since EXCEPT ![c] = now]
  /\ UNCHANGED <<line, now>>

Join(c) ==
  /\ Move(c, "accepted", "waiting")
  /\ line' = Append(line, c)
  /\ UNCHANGED <<since, now>>

Serve ==
  /\ line # <<>>
  /\ Move(Head(line), "waiting", "serving")
  /\ line' = Tail(line)
  /\ UNCHANGED <<since, now>>

Deny ==
  /\ line # <<>>
  /\ now > since[Head(line)] + Limit
  /\ Move(Head(line), "waiting", "denied")
  /\ line' = Tail(line)
  /\ UNCHANGED <<since, now>>

Close(c) ==
  /\ Move(c, "serving", "closed") \/ Move(c, "denied", "closed")
  /\ UNCHANGED <<line, since, now>>

Tick ==
  /\ now' = now + 1
  /\ UNCHANGED <<phase, line, since>>

Next ==
  \/ \E c \in Conn : Accept(c) \/ Join(c) \/ Close(c)
  \/ Serve
  \/ Deny
  \/ Tick

Spec == Init /\ [][Next]_vars
=============================================================================
