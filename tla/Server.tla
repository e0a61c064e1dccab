------------------------------- MODULE Server -------------------------------
(***************************************************************************)
(* The connection front end of src/src/server.c: the accept loop of        *)
(* start_server, the pool of app_worker threads, the thread                *)
(* th_req_queue_mgr that takes over-age requests out of req_q, and the     *)
(* thread th_excd_tm_q_mgr that turns them away.                           *)
(*                                                                         *)
(* Every pthread mutex, semaphore and queue call is a step of its own.     *)
(* Inside a critical section a queue call is one step; MutualExclusion     *)
(* below is what justifies that.  A Request is identified with the         *)
(* connection it was allocated for: heap is the set of allocated Request   *)
(* structures, rq_fd and rq_ts their two fields.  File descriptor numbers  *)
(* are reused by the kernel: fdtab says which connection a number stands   *)
(* for, and send and close act on whatever that is.                        *)
(*                                                                         *)
(* Left out: exits of the process on a failed pthread call, a failed       *)
(* accept (the loop tries again), and what a session says (app_code).      *)
(***************************************************************************)
EXTENDS Naturals, Sequences, FiniteSets

CONSTANTS
  Conn,          \* connections that clients open, each once
  Worker,        \* the app_worker threads (max_app_workers of them)
  Fd,            \* file descriptor numbers accept can return
  MaxQueueTime,  \* max_queue_time, in seconds
  MaxTime,       \* bound on the clock
  NULL           \* the null pointer

Thread == Worker \cup {"main", "req_mgr", "excd_mgr"}
NoOwner == "unlocked"

ASSUME WorkerAssumption ==
  /\ IsFiniteSet(Worker)
  /\ Worker \cap {"main", "req_mgr", "excd_mgr", NoOwner} = {}
ASSUME NullAssumption == NULL \notin Conn /\ NULL \notin Fd
ASSUME TimeAssumption == MaxQueueTime \in Nat /\ MaxTime \in Nat

VARIABLES
  now,          \* CLOCK_MONOTONIC, in seconds
  backlog,      \* connections the kernel has not handed to accept yet
  fdtab,        \* fdtab[f]: the connection descriptor f stands for, or NULL
  heap,         \* the allocated Request structures
  rq_fd,        \* Request.fd
  rq_ts,        \* Request.ts
  req_q,        \* queue of accepted requests
  req_q_mtx,    \* its mutex: the thread that holds it, or NoOwner
  req_q_sem,    \* its semaphore
  excd_tm_q,    \* queue of requests that waited too long
  excd_tm_mtx,
  excd_tm_sem,
  pc,           \* pc[t]: what thread t does next
  rq,           \* rq[t]: the Request pointer in thread t's hands
  curr_tm,      \* th_req_queue_mgr's reading of the clock for this pass
  served,       \* connections a worker ran the application on
  denied        \* connections that were sent the timeout message

sysvars  == <<now, backlog, fdtab, heap, rq_fd, rq_ts>>
reqvars  == <<req_q, req_q_mtx, req_q_sem>>
excdvars == <<excd_tm_q, excd_tm_mtx, excd_tm_sem>>
histvars == <<served, denied>>
vars == <<sysvars, reqvars, excdvars, pc, rq, curr_tm, histvars>>

MainPc == {"accept", "lock", "enqueue", "unlock", "post"}
WorkerPc == {"sem_wait", "lock", "dequeue", "unlock", "run", "app", "close", "free"}
ReqMgrPc == {"sleep", "lock", "scan", "lock_excd", "enqueue", "unlock_excd",
             "post", "unlock"}
ExcdMgrPc == {"sem_wait", "lock", "dequeue", "unlock", "send", "close", "free"}

Init ==
  /\ now = 0
  /\ backlog = Conn
  /\ fdtab = [f \in Fd |-> NULL]
  /\ heap = {}
  /\ rq_fd = [c \in Conn |-> NULL]
  /\ rq_ts = [c \in Conn |-> 0]
  /\ req_q = <<>> /\ req_q_mtx = NoOwner /\ req_q_sem = 0
  /\ excd_tm_q = <<>> /\ excd_tm_mtx = NoOwner /\ excd_tm_sem = 0
  /\ pc = [t \in Thread |-> CASE t = "main"    -> "accept"
                              [] t = "req_mgr" -> "sleep"
                              [] OTHER         -> "sem_wait"]
  /\ rq = [t \in Thread |-> NULL]
  /\ curr_tm = 0
  /\ served = {}
  /\ denied = {}

-----------------------------------------------------------------------------
(* Steps that several threads share.                                       *)

Goto(t, from, to) ==
  /\ pc[t] = from
  /\ pc' = [pc EXCEPT ![t] = to]

\* Mutant: goes on although the mutex is taken.
LockReq_unchecked(t) ==
  /\ req_q_mtx' = t
  /\ UNCHANGED <<req_q, req_q_sem, excdvars>>

\* mutex_lock(req_q_mtx, ...) and pthread_mutex_lock(req_q_mtx).
LockReq(t) ==
  /\ req_q_mtx = NoOwner
  /\ req_q_mtx' = t
  /\ UNCHANGED <<req_q, req_q_sem, excdvars>>

UnlockReq ==
  /\ req_q_mtx' = NoOwner
  /\ UNCHANGED <<req_q, req_q_sem, excdvars>>

LockExcd(t) ==
  /\ excd_tm_mtx = NoOwner
  /\ excd_tm_mtx' = t
  /\ UNCHANGED <<excd_tm_q, excd_tm_sem, reqvars>>

UnlockExcd ==
  /\ excd_tm_mtx' = NoOwner
  /\ UNCHANGED <<excd_tm_q, excd_tm_sem, reqvars>>

\* get_front and dequeue of src/src/queue.c: NULL on an empty queue.
get_front(q) == IF q = <<>> THEN NULL ELSE Head(q)
\* Mutant: looks at the front and does not take it.
dequeued_kept(q) == q

dequeued(q) == IF q = <<>> THEN q ELSE Tail(q)

\* Mutant: the descriptor stays open.
CloseFd_skipped(t) == UNCHANGED sysvars

\* close(rq->fd), on whatever the number stands for.
CloseFd(t) ==
  /\ fdtab' = [fdtab EXCEPT ![rq_fd[rq[t]]] = NULL]
  /\ UNCHANGED <<now, backlog, heap, rq_fd, rq_ts>>

\* Mutant: the Request is not freed.
FreeRequest_skipped(t) ==
  /\ rq' = [rq EXCEPT ![t] = NULL]
  /\ UNCHANGED sysvars

\* free(rq->ts); free(rq).  The local pointer is dead afterwards.
FreeRequest(t) ==
  /\ heap' = heap \ {rq[t]}
  /\ rq' = [rq EXCEPT ![t] = NULL]
  /\ UNCHANGED <<now, backlog, fdtab, rq_fd, rq_ts>>

\* get_time_diff and was_waiting_time_exceeded(&diff, 1.0, max_queue_time).
delta == 1
limit == IF delta > MaxQueueTime THEN MaxQueueTime ELSE delta
\* Mutant: one tick early.
was_waiting_time_exceeded_early(r) == curr_tm >= rq_ts[r] + limit

was_waiting_time_exceeded(r) == curr_tm > rq_ts[r] + limit

\* Mutant: any front request is taken.
FrontExceeded_any == get_front(req_q) # NULL

\* There is a front request and it waited too long.
FrontExceeded ==
  /\ get_front(req_q) # NULL
  /\ was_waiting_time_exceeded(get_front(req_q))

-----------------------------------------------------------------------------
(* The main thread: the loop of start_server.                              *)

\* accept_client and init_request.  The last conjunct is the bound: a
\* connection is accepted only while the clock can still reach its limit.
Accept(c, f) ==
  /\ Goto("main", "accept", "lock")
  /\ c \in backlog
  /\ fdtab[f] = NULL
  /\ backlog' = backlog \ {c}
  /\ fdtab' = [fdtab EXCEPT ![f] = c]
  /\ heap' = heap \cup {c}
  /\ rq_fd' = [rq_fd EXCEPT ![c] = f]
  /\ rq_ts' = [rq_ts EXCEPT ![c] = now]
  /\ rq' = [rq EXCEPT !["main"] = c]
  /\ UNCHANGED <<now, reqvars, excdvars, curr_tm, histvars>>
  /\ now + limit < MaxTime

MainLock ==
  /\ Goto("main", "lock", "enqueue")
  /\ LockReq("main")
  /\ UNCHANGED <<sysvars, rq, curr_tm, histvars>>

\* Mutant: the new request goes to the front.
MainEnqueue_front ==
  /\ Goto("main", "enqueue", "unlock")
  /\ req_q' = <<rq["main"]>> \o req_q
  /\ rq' = [rq EXCEPT !["main"] = NULL]
  /\ UNCHANGED <<sysvars, req_q_mtx, req_q_sem, excdvars, curr_tm, histvars>>

MainEnqueue ==
  /\ Goto("main", "enqueue", "unlock")
  /\ req_q' = Append(req_q, rq["main"])
  /\ rq' = [rq EXCEPT !["main"] = NULL]
  /\ UNCHANGED <<sysvars, req_q_mtx, req_q_sem, excdvars, curr_tm, histvars>>

MainUnlock ==
  /\ Goto("main", "unlock", "post")
  /\ UnlockReq
  /\ UNCHANGED <<sysvars, rq, curr_tm, histvars>>

\* Mutant: sem_post is forgotten.
MainPost_forgotten ==
  /\ Goto("main", "post", "accept")
  /\ UNCHANGED <<sysvars, reqvars, excdvars, rq, curr_tm, histvars>>

MainPost ==
  /\ Goto("main", "post", "accept")
  /\ req_q_sem' = req_q_sem + 1
  /\ UNCHANGED <<sysvars, req_q, req_q_mtx, excdvars, rq, curr_tm, histvars>>

-----------------------------------------------------------------------------
(* app_worker.                                                             *)

\* Mutant: does not block on an empty semaphore.
WorkerSemWait_nonblocking(w) ==
  /\ Goto(w, "sem_wait", "lock")
  /\ req_q_sem' = req_q_sem - 1
  /\ UNCHANGED <<sysvars, req_q, req_q_mtx, excdvars, rq, curr_tm, histvars>>

WorkerSemWait(w) ==
  /\ Goto(w, "sem_wait", "lock")
  /\ req_q_sem > 0
  /\ req_q_sem' = req_q_sem - 1
  /\ UNCHANGED <<sysvars, req_q, req_q_mtx, excdvars, rq, curr_tm, histvars>>

WorkerLock(w) ==
  /\ Goto(w, "lock", "dequeue")
  /\ LockReq(w)
  /\ UNCHANGED <<sysvars, rq, curr_tm, histvars>>

\* Mutant: the worker looks at the front and leaves it in the queue.
WorkerDequeue_peeks(w) ==
  /\ Goto(w, "dequeue", "unlock")
  /\ rq' = [rq EXCEPT ![w] = get_front(req_q)]
  /\ UNCHANGED <<sysvars, reqvars, excdvars, curr_tm, histvars>>

WorkerDequeue(w) ==
  /\ Goto(w, "dequeue", "unlock")
  /\ rq' = [rq EXCEPT ![w] = get_front(req_q)]
  /\ req_q' = dequeued(req_q)
  /\ UNCHANGED <<sysvars, req_q_mtx, req_q_sem, excdvars, curr_tm, histvars>>

WorkerUnlock(w) ==
  /\ Goto(w, "unlock", IF rq[w] = NULL THEN "sem_wait" ELSE "run")
  /\ UnlockReq
  /\ UNCHANGED <<sysvars, rq, curr_tm, histvars>>

\* set_recv_tmout(rq->fd, ...) and the call args->func(&rq->fd).
WorkerRun(w) ==
  /\ Goto(w, "run", "app")
  /\ served' = served \cup {fdtab[rq_fd[rq[w]]]}
  /\ UNCHANGED <<sysvars, reqvars, excdvars, rq, curr_tm, denied>>

\* args->func returns: the client closed the connection, or an error ended
\* the session.
AppReturn(w) ==
  /\ Goto(w, "app", "close")
  /\ UNCHANGED <<sysvars, reqvars, excdvars, rq, curr_tm, histvars>>

WorkerClose(w) ==
  /\ Goto(w, "close", "free")
  /\ CloseFd(w)
  /\ UNCHANGED <<reqvars, excdvars, rq, curr_tm, histvars>>

WorkerFree(w) ==
  /\ Goto(w, "free", "sem_wait")
  /\ FreeRequest(w)
  /\ UNCHANGED <<reqvars, excdvars, curr_tm, histvars>>

-----------------------------------------------------------------------------
(* th_req_queue_mgr.                                                       *)

\* msleep(1000, 3): how long it really sleeps is left open.
ReqMgrWake ==
  /\ Goto("req_mgr", "sleep", "lock")
  /\ UNCHANGED <<sysvars, reqvars, excdvars, rq, curr_tm, histvars>>

ReqMgrLock ==
  /\ Goto("req_mgr", "lock", "scan")
  /\ LockReq("req_mgr")
  /\ curr_tm' = now
  /\ UNCHANGED <<sysvars, rq, histvars>>

\* The front request waited too long: take it out.
ReqMgrExpire ==
  /\ Goto("req_mgr", "scan", "lock_excd")
  /\ FrontExceeded
  /\ rq' = [rq EXCEPT !["req_mgr"] = get_front(req_q)]
  /\ req_q' = dequeued(req_q)
  /\ UNCHANGED <<sysvars, req_q_mtx, req_q_sem, excdvars, curr_tm, histvars>>

\* The queue is empty, or the front request may still wait: end of the pass.
ReqMgrStop ==
  /\ Goto("req_mgr", "scan", "unlock")
  /\ ~ FrontExceeded
  /\ UNCHANGED <<sysvars, reqvars, excdvars, rq, curr_tm, histvars>>

\* Still holding req_q_mtx.
ReqMgrLockExcd ==
  /\ Goto("req_mgr", "lock_excd", "enqueue")
  /\ LockExcd("req_mgr")
  /\ UNCHANGED <<sysvars, rq, curr_tm, histvars>>

ReqMgrEnqueue ==
  /\ Goto("req_mgr", "enqueue", "unlock_excd")
  /\ excd_tm_q' = Append(excd_tm_q, rq["req_mgr"])
  /\ rq' = [rq EXCEPT !["req_mgr"] = NULL]
  /\ UNCHANGED <<sysvars, reqvars, excd_tm_mtx, excd_tm_sem, curr_tm, histvars>>

ReqMgrUnlockExcd ==
  /\ Goto("req_mgr", "unlock_excd", "post")
  /\ UnlockExcd
  /\ UNCHANGED <<sysvars, rq, curr_tm, histvars>>

\* Mutant: sem_post is forgotten.
ReqMgrPost_forgotten ==
  /\ Goto("req_mgr", "post", "scan")
  /\ UNCHANGED <<sysvars, reqvars, excdvars, rq, curr_tm, histvars>>

\* Mutant: the pass ends after one request.
ReqMgrPost_once ==
  /\ Goto("req_mgr", "post", "unlock")
  /\ excd_tm_sem' = excd_tm_sem + 1
  /\ UNCHANGED <<sysvars, reqvars, excd_tm_q, excd_tm_mtx, rq, curr_tm, histvars>>

ReqMgrPost ==
  /\ Goto("req_mgr", "post", "scan")
  /\ excd_tm_sem' = excd_tm_sem + 1
  /\ UNCHANGED <<sysvars, reqvars, excd_tm_q, excd_tm_mtx, rq, curr_tm, histvars>>

ReqMgrUnlock ==
  /\ Goto("req_mgr", "unlock", "sleep")
  /\ UnlockReq
  /\ UNCHANGED <<sysvars, rq, curr_tm, histvars>>

-----------------------------------------------------------------------------
(* th_excd_tm_q_mgr.                                                       *)

ExcdMgrSemWait ==
  /\ Goto("excd_mgr", "sem_wait", "lock")
  /\ excd_tm_sem > 0
  /\ excd_tm_sem' = excd_tm_sem - 1
  /\ UNCHANGED <<sysvars, reqvars, excd_tm_q, excd_tm_mtx, rq, curr_tm, histvars>>

ExcdMgrLock ==
  /\ Goto("excd_mgr", "lock", "dequeue")
  /\ LockExcd("excd_mgr")
  /\ UNCHANGED <<sysvars, rq, curr_tm, histvars>>

ExcdMgrDequeue ==
  /\ Goto("excd_mgr", "dequeue", "unlock")
  /\ rq' = [rq EXCEPT !["excd_mgr"] = get_front(excd_tm_q)]
  /\ excd_tm_q' = dequeued(excd_tm_q)
  /\ UNCHANGED <<sysvars, reqvars, excd_tm_mtx, excd_tm_sem, curr_tm, histvars>>

ExcdMgrUnlock ==
  /\ Goto("excd_mgr", "unlock", IF rq["excd_mgr"] = NULL THEN "sem_wait" ELSE "send")
  /\ UnlockExcd
  /\ UNCHANGED <<sysvars, rq, curr_tm, histvars>>

\* send_resp_to_clnt(msg, ..., rq->fd, 3, 1000); its result is ignored.
ExcdMgrSend ==
  /\ Goto("excd_mgr", "send", "close")
  /\ denied' = denied \cup {fdtab[rq_fd[rq["excd_mgr"]]]}
  /\ UNCHANGED <<sysvars, reqvars, excdvars, rq, curr_tm, served>>

ExcdMgrClose ==
  /\ Goto("excd_mgr", "close", "free")
  /\ CloseFd("excd_mgr")
  /\ UNCHANGED <<reqvars, excdvars, rq, curr_tm, histvars>>

ExcdMgrFree ==
  /\ Goto("excd_mgr", "free", "sem_wait")
  /\ FreeRequest("excd_mgr")
  /\ UNCHANGED <<reqvars, excdvars, curr_tm, histvars>>

-----------------------------------------------------------------------------
Tick ==
  /\ now < MaxTime
  /\ now' = now + 1
  /\ UNCHANGED <<backlog, fdtab, heap, rq_fd, rq_ts, reqvars, excdvars, pc, rq,
                 curr_tm, histvars>>

\* What the main thread does between two calls of accept.
MainStep == MainLock \/ MainEnqueue \/ MainUnlock \/ MainPost

\* What a worker does by itself once it has been woken.
WorkerStep(w) ==
  \/ WorkerLock(w) \/ WorkerDequeue(w) \/ WorkerUnlock(w)
  \/ WorkerRun(w) \/ WorkerClose(w) \/ WorkerFree(w)

ReqMgrStep ==
  \/ ReqMgrWake \/ ReqMgrLock \/ ReqMgrExpire \/ ReqMgrStop \/ ReqMgrLockExcd
  \/ ReqMgrEnqueue \/ ReqMgrUnlockExcd \/ ReqMgrPost \/ ReqMgrUnlock

ExcdMgrStep ==
  \/ ExcdMgrSemWait \/ ExcdMgrLock \/ ExcdMgrDequeue \/ ExcdMgrUnlock
  \/ ExcdMgrSend \/ ExcdMgrClose \/ ExcdMgrFree

Next ==
  \/ \E c \in Conn, f \in Fd : Accept(c, f)
  \/ MainStep
  \/ \E w \in Worker : WorkerSemWait(w) \/ WorkerStep(w) \/ AppReturn(w)
  \/ ReqMgrStep
  \/ ExcdMgrStep
  \/ Tick

Spec == Init /\ [][Next]_vars

\* The scheduler runs every thread, a mutex is not withheld forever from one
\* that waits for it (the only endless loop around req_q_mtx sleeps a second
\* outside it), a posted semaphore wakes somebody, and time passes.  Nothing
\* is assumed of the clients: a session may last forever.
FairSpec ==
  /\ Spec
  /\ WF_vars(Tick)
  /\ SF_vars(MainStep)
  /\ WF_vars(\E w \in Worker : WorkerSemWait(w))
  /\ \A w \in Worker : SF_vars(WorkerStep(w))
  /\ SF_vars(ReqMgrStep)
  /\ SF_vars(ExcdMgrStep)

-----------------------------------------------------------------------------
(* Properties.                                                             *)

\* Every variable has its type; each thread is at one of its own labels.
TypeOK ==
  /\ now \in Nat /\ curr_tm \in Nat
  /\ backlog \subseteq Conn
  /\ fdtab \in [Fd -> Conn \cup {NULL}]
  /\ heap \subseteq Conn
  /\ rq_fd \in [Conn -> Fd \cup {NULL}]
  /\ rq_ts \in [Conn -> Nat]
  /\ req_q \in Seq(Conn) /\ excd_tm_q \in Seq(Conn)
  /\ req_q_mtx \in Thread \cup {NoOwner} /\ excd_tm_mtx \in Thread \cup {NoOwner}
  /\ req_q_sem \in Nat /\ excd_tm_sem \in Nat
  /\ pc \in [Thread -> MainPc \cup WorkerPc \cup ReqMgrPc \cup ExcdMgrPc]
  /\ pc["main"] \in MainPc
  /\ pc["req_mgr"] \in ReqMgrPc
  /\ pc["excd_mgr"] \in ExcdMgrPc
  /\ \A w \in Worker : pc[w] \in WorkerPc
  /\ rq \in [Thread -> Conn \cup {NULL}]
  /\ served \subseteq Conn /\ denied \subseteq Conn

\* Where each mutex is held.
InReqSection(t) ==
  \/ t = "main"    /\ pc[t] \in {"enqueue", "unlock"}
  \/ t = "req_mgr" /\ pc[t] \in ReqMgrPc \ {"sleep", "lock"}
  \/ t \in Worker  /\ pc[t] \in {"dequeue", "unlock"}

InExcdSection(t) ==
  \/ t = "req_mgr"  /\ pc[t] \in {"enqueue", "unlock_excd"}
  \/ t = "excd_mgr" /\ pc[t] \in {"dequeue", "unlock"}

\* A queue is touched by one thread at a time: a thread is between lock and
\* unlock of a queue's mutex exactly when it is the mutex's owner.
MutualExclusion ==
  \A t \in Thread : /\ InReqSection(t)  <=> req_q_mtx = t
                    /\ InExcdSection(t) <=> excd_tm_mtx = t

In(c, q) == \E i \in DOMAIN q : q[i] = c
Distinct(q) == \A i, j \in DOMAIN q : q[i] = q[j] => i = j

\* A Request is never in two places: no queue holds it twice, no two queues
\* or threads hold it.  (server.c has no reference counts: whoever takes a
\* Request out of a queue closes its descriptor and frees it.)
OneOwner ==
  /\ Distinct(req_q) /\ Distinct(excd_tm_q)
  /\ \A c \in Conn : ~ (In(c, req_q) /\ In(c, excd_tm_q))
  /\ \A t \in Thread : rq[t] # NULL =>
       /\ ~ In(rq[t], req_q) /\ ~ In(rq[t], excd_tm_q)
       /\ \A u \in Thread : rq[u] = rq[t] => u = t

\* No Request is used after it was freed, and none is forgotten: the
\* allocated ones are exactly those in a queue or in a thread's hands.
HeapExact ==
  \A c \in Conn : c \in heap <=> \/ In(c, req_q)
                                 \/ In(c, excd_tm_q)
                                 \/ \E t \in Thread : rq[t] = c

\* Thread t is past close(rq->fd).
Closed(c) == \E t \in Thread : rq[t] = c /\ pc[t] = "free"

\* Although descriptor numbers are reused, the number in a Request stands for
\* the Request's own connection until the Request's owner closes it, and no
\* descriptor stays open that no Request will close.
FdBinding ==
  /\ \A c \in heap : ~ Closed(c) => rq_fd[c] \in Fd /\ fdtab[rq_fd[c]] = c
  /\ \A f \in Fd : fdtab[f] # NULL =>
       fdtab[f] \in heap /\ rq_fd[fdtab[f]] = f /\ ~ Closed(fdtab[f])

\* A connection gets the application or the timeout message, never both, and
\* neither before it was accepted.
ServedOrDenied == served \cap denied = {} /\ (served \cup denied) \cap backlog = {}

\* No lost wake-up: every request in req_q is covered by a token of req_q_sem,
\* by a worker that took a token and has not dequeued yet, or by the post that
\* the main thread is about to make.
Coming(b) == IF b THEN 1 ELSE 0
Woken == {w \in Worker : pc[w] \in {"lock", "dequeue"}}
NoLostWakeup ==
  Len(req_q) =< req_q_sem + Cardinality(Woken)
                  + Coming(pc["main"] \in {"unlock", "post"})

\* excd_tm_sem counts excd_tm_q exactly, so th_excd_tm_q_mgr never finds the
\* queue empty (its "if(!rq) continue" is never taken) and none is left behind.
ExcdTokens ==
  /\ Len(excd_tm_q) = excd_tm_sem
                        + Coming(pc["excd_mgr"] \in {"lock", "dequeue"})
                        + Coming(pc["req_mgr"] \in {"unlock_excd", "post"})
  /\ pc["excd_mgr"] = "unlock" => rq["excd_mgr"] # NULL

\* The queue is ordered by time of arrival, also with respect to the request
\* the main thread is about to append.
TimeOrder ==
  /\ \A i, j \in DOMAIN req_q : i =< j => rq_ts[req_q[i]] =< rq_ts[req_q[j]]
  /\ rq["main"] # NULL =>
       \A i \in DOMAIN req_q : rq_ts[req_q[i]] =< rq_ts[rq["main"]]

\* th_req_queue_mgr looks at the front only and stops at the first request
\* that may still wait; even so no over-age request survives its pass.
PassComplete ==
  pc["req_mgr"] = "unlock" =>
    \A i \in DOMAIN req_q : ~ was_waiting_time_exceeded(req_q[i])

\* Who is turned away really waited longer than the limit.
DeniedWaited ==
  \A c \in Conn :
    (c \in denied \/ In(c, excd_tm_q) \/ rq["req_mgr"] = c \/ rq["excd_mgr"] = c)
      => now > rq_ts[c] + limit

\* Every accepted connection is eventually handed to the application or told
\* that it timed out, even if the sessions on all workers last forever.
Decided == \A c \in Conn : (c \in heap) ~> (c \in served \cup denied)

\* If sessions end, every accepted connection is eventually closed and its
\* Request freed.
Released ==
  (\A w \in Worker : WF_vars(AppReturn(w))) => \A c \in Conn : (c \in heap) ~> (c \notin heap)

\* The abstract view: how far a connection got.  A connection is over when its
\* descriptor is closed, although its Request is freed a step later.
Open(c) == \E f \in Fd : fdtab[f] = c
phase == [c \in Conn |->
  CASE c \in backlog                              -> "new"
    [] c \notin backlog /\ ~ Open(c)              -> "closed"
    [] Open(c) /\ rq["main"] = c                  -> "accepted"
    [] Open(c) /\ In(c, req_q)                    -> "waiting"
    [] Open(c) /\ \E w \in Worker : rq[w] = c     -> "serving"
    [] OTHER                                      -> "denied"]

Adm == INSTANCE Admission WITH Limit <- limit, line <- req_q, since <- rq_ts

\* The threads implement the one waiting line of Admission.
ImplementsAdmission == Adm!Spec
=============================================================================
