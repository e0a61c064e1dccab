---------------------------- MODULE ServerProofs ----------------------------
(***************************************************************************)
(* Proofs about Server.tla, for any number of connections, workers and     *)
(* descriptors and any time limit.                                         *)
(*                                                                         *)
(* The inductive invariant is built in layers; the proof of a layer uses   *)
(* the layers below it:                                                    *)
(*   Shape       types, and which thread holds a Request at which label;   *)
(*   Exclusive   MutualExclusion;                                          *)
(*   Owned       OneOwner and HeapExact: a Request is in exactly one place *)
(*               from its allocation to its release;                       *)
(*   FdBinding   needs Owned: the only thread that can close a Request's   *)
(*               descriptor is the one that holds it;                      *)
(*   Outcomes    who was served or denied, and where its Request is now;   *)
(*   Timely      req_q is ordered by age, a pass of th_req_queue_mgr       *)
(*               leaves no over-age request, only over-age ones are denied;*)
(*   ExcdTokens  excd_tm_sem counts excd_tm_q exactly;                     *)
(*   NoLostWakeup  req_q_sem covers req_q.                                 *)
(* The refinement of Admission.tla rests on them.                          *)
(***************************************************************************)
EXTENDS Server, FiniteSetTheorems, TLAPS

\* TypeOK without the two history variables: that their elements are
\* connections depends on FdBinding.
Types ==
  /\ now \in Nat /\ curr_tm \in Nat
  /\ backlog \subseteq Conn
  /\ fdtab \in [Fd -> Conn \cup {NULL}]
  /\ heap \subseteq Conn
  /\ rq_fd \in [Conn -> Fd \cup {NULL}]
  /\ rq_ts \in [Conn -> Nat]
  /\ req_q \in Seq(Conn) /\ excd_tm_q \in Seq(Conn)
  /\ req_q_mtx \in Thread \cup {NoOwner} /\ excd_tm_mtx \in Thread \cup {NoOwner}
  /\ req_q_sem \in Nat /\ excd_tm_sem \in Nat
  /\ pc \in [Thread -> MainPc \cup WorkerPc \cup ReqMgrPc \cup ExcdMgrPc]
  /\ pc["main"] \in MainPc
  /\ pc["req_mgr"] \in ReqMgrPc
  /\ pc["excd_mgr"] \in ExcdMgrPc
  /\ \A w \in Worker : pc[w] \in WorkerPc
  /\ rq \in [Thread -> Conn \cup {NULL}]

\* A thread holds a Request where its code needs one.
Hands ==
  /\ rq["main"] # NULL <=> pc["main"] \in {"lock", "enqueue"}
  /\ rq["req_mgr"] # NULL <=> pc["req_mgr"] \in {"lock_excd", "enqueue"}
  /\ \A w \in Worker :
       /\ pc[w] \in {"run", "app", "close", "free"} => rq[w] # NULL
       /\ pc[w] \in {"sem_wait", "lock", "dequeue"} => rq[w] = NULL
  /\ pc["excd_mgr"] \in {"send", "close", "free"} => rq["excd_mgr"] # NULL
  /\ pc["excd_mgr"] \in {"sem_wait", "lock", "dequeue"} => rq["excd_mgr"] = NULL

Shape == Types /\ Hands

USE WorkerAssumption, NullAssumption, TimeAssumption

-----------------------------------------------------------------------------
(* Next, one action at a time.                                             *)

\* Every step is an action of one thread, a tick of the clock, or stutters.
LEMMA Steps ==
  ASSUME [Next]_vars
  PROVE  \/ \E c \in Conn, f \in Fd : Accept(c, f)
         \/ MainLock \/ MainEnqueue \/ MainUnlock \/ MainPost
         \/ \E w \in Worker : \/ WorkerSemWait(w) \/ WorkerLock(w) \/ WorkerDequeue(w)
                              \/ WorkerUnlock(w) \/ WorkerRun(w) \/ AppReturn(w)
                              \/ WorkerClose(w) \/ WorkerFree(w)
         \/ ReqMgrWake \/ ReqMgrLock \/ ReqMgrExpire \/ ReqMgrStop \/ ReqMgrLockExcd
         \/ ReqMgrEnqueue \/ ReqMgrUnlockExcd \/ ReqMgrPost \/ ReqMgrUnlock
         \/ ExcdMgrSemWait \/ ExcdMgrLock \/ ExcdMgrDequeue \/ ExcdMgrUnlock
         \/ ExcdMgrSend \/ ExcdMgrClose \/ ExcdMgrFree
         \/ Tick
         \/ UNCHANGED vars
BY DEF Next, MainStep, WorkerStep, ReqMgrStep, ExcdMgrStep

\* close clears an entry of the descriptor table or none.
LEMMA CloseType ==
  ASSUME NEW t \in Thread, fdtab \in [Fd -> Conn \cup {NULL}], CloseFd(t)
  PROVE  fdtab' \in [Fd -> Conn \cup {NULL}]
BY DEF CloseFd

-----------------------------------------------------------------------------
(* Shape.                                                                  *)

\* All threads start empty-handed at the head of their loops.
LEMMA ShapeInit == Init => Shape
BY DEF Init, Shape, Types, Hands, Thread, MainPc, WorkerPc, ReqMgrPc, ExcdMgrPc, NoOwner

\* Types are kept, and a thread that acts on its Request has one.
LEMMA ShapeNext == Shape /\ [Next]_vars => Shape'
<1> SUFFICES ASSUME Shape, [Next]_vars PROVE Shape'
  OBVIOUS
<1> USE DEF Shape, Types, Hands, Thread, MainPc, WorkerPc, ReqMgrPc, ExcdMgrPc, NoOwner,
            sysvars, reqvars, excdvars, histvars, Goto,
            LockReq, UnlockReq, LockExcd, UnlockExcd
<1>1. ASSUME NEW c \in Conn, NEW f \in Fd, Accept(c, f) PROVE Shape'
  BY <1>1 DEF Accept
<1>2. CASE MainLock  BY <1>2 DEF MainLock
<1>3. CASE MainEnqueue  BY <1>3 DEF MainEnqueue
<1>4. CASE MainUnlock  BY <1>4 DEF MainUnlock
<1>5. CASE MainPost  BY <1>5 DEF MainPost
<1>6. ASSUME NEW w \in Worker, WorkerSemWait(w) PROVE Shape'
  BY <1>6 DEF WorkerSemWait
<1>7. ASSUME NEW w \in Worker, WorkerLock(w) PROVE Shape'
  BY <1>7 DEF WorkerLock
<1>8. ASSUME NEW w \in Worker, WorkerDequeue(w) PROVE Shape'
  BY <1>8 DEF WorkerDequeue, get_front, dequeued
<1>9. ASSUME NEW w \in Worker, WorkerUnlock(w) PROVE Shape'
  BY <1>9 DEF WorkerUnlock
<1>10. ASSUME NEW w \in Worker, WorkerRun(w) PROVE Shape'
  BY <1>10 DEF WorkerRun
<1>11. ASSUME NEW w \in Worker, AppReturn(w) PROVE Shape'
  BY <1>11 DEF AppReturn
<1>12. ASSUME NEW w \in Worker, WorkerClose(w) PROVE Shape'
  <2>1. fdtab' \in [Fd -> Conn \cup {NULL}]
    BY <1>12, CloseType DEF WorkerClose
  <2>2. UNCHANGED <<now, backlog, heap, rq_fd, rq_ts>>
    BY <1>12 DEF WorkerClose, CloseFd
  <2> QED
    BY <1>12, <2>1, <2>2 DEF WorkerClose
<1>13. ASSUME NEW w \in Worker, WorkerFree(w) PROVE Shape'
  BY <1>13 DEF WorkerFree, FreeRequest
<1>14. CASE ReqMgrWake  BY <1>14 DEF ReqMgrWake
<1>15. CASE ReqMgrLock  BY <1>15 DEF ReqMgrLock
<1>16. CASE ReqMgrExpire
  BY <1>16 DEF ReqMgrExpire, FrontExceeded, get_front, dequeued
<1>17. CASE ReqMgrStop  BY <1>17 DEF ReqMgrStop
<1>18. CASE ReqMgrLockExcd  BY <1>18 DEF ReqMgrLockExcd
<1>19. CASE ReqMgrEnqueue  BY <1>19 DEF ReqMgrEnqueue
<1>20. CASE ReqMgrUnlockExcd  BY <1>20 DEF ReqMgrUnlockExcd
<1>21. CASE ReqMgrPost  BY <1>21 DEF ReqMgrPost
<1>22. CASE ReqMgrUnlock  BY <1>22 DEF ReqMgrUnlock
<1>23. CASE ExcdMgrSemWait  BY <1>23 DEF ExcdMgrSemWait
<1>24. CASE ExcdMgrLock  BY <1>24 DEF ExcdMgrLock
<1>25. CASE ExcdMgrDequeue  BY <1>25 DEF ExcdMgrDequeue, get_front, dequeued
<1>26. CASE ExcdMgrUnlock  BY <1>26 DEF ExcdMgrUnlock
<1>27. CASE ExcdMgrSend  BY <1>27 DEF ExcdMgrSend
<1>28. CASE ExcdMgrClose
  <2>1. fdtab' \in [Fd -> Conn \cup {NULL}]
    BY <1>28, CloseType DEF ExcdMgrClose
  <2>2. UNCHANGED <<now, backlog, heap, rq_fd, rq_ts>>
    BY <1>28 DEF ExcdMgrClose, CloseFd
  <2> QED
    BY <1>28, <2>1, <2>2 DEF ExcdMgrClose
<1>29. CASE ExcdMgrFree  BY <1>29 DEF ExcdMgrFree, FreeRequest
<1>30. CASE Tick  BY <1>30 DEF Tick
<1>31. CASE UNCHANGED vars  BY <1>31 DEF vars
<1> QED
  <2> HIDE DEF Shape
  <2> QED
    BY Steps, <1>1, <1>2, <1>3, <1>4, <1>5, <1>6, <1>7, <1>8, <1>9, <1>10, <1>11,
       <1>12, <1>13, <1>14, <1>15, <1>16, <1>17, <1>18, <1>19, <1>20, <1>21, <1>22,
       <1>23, <1>24, <1>25, <1>26, <1>27, <1>28, <1>29, <1>30, <1>31

-----------------------------------------------------------------------------
(* MutualExclusion.                                                        *)

\* Both mutexes start free, with nobody between lock and unlock.
LEMMA ExclusiveInit == Init => MutualExclusion
BY DEF Init, MutualExclusion, InReqSection, InExcdSection, Thread, NoOwner, ReqMgrPc

\* No step but lock and unlock of a queue's mutex crosses the border of the
\* critical section; lock waits until the mutex is free.
LEMMA ExclusiveNext == Shape /\ MutualExclusion /\ [Next]_vars => MutualExclusion'
<1> SUFFICES ASSUME Shape, MutualExclusion, [Next]_vars PROVE MutualExclusion'
  OBVIOUS
<1>0. /\ pc \in [Thread -> MainPc \cup WorkerPc \cup ReqMgrPc \cup ExcdMgrPc]
      /\ pc["main"] \in MainPc
      /\ pc["req_mgr"] \in ReqMgrPc
      /\ pc["excd_mgr"] \in ExcdMgrPc
      /\ \A w \in Worker : pc[w] \in WorkerPc
  BY DEF Shape, Types
<1> USE <1>0 DEF MutualExclusion, InReqSection, InExcdSection, Thread, NoOwner,
            MainPc, WorkerPc, ReqMgrPc, ExcdMgrPc, reqvars, excdvars, Goto,
            LockReq, UnlockReq, LockExcd, UnlockExcd
<1>1. ASSUME NEW c \in Conn, NEW f \in Fd, Accept(c, f) PROVE MutualExclusion'
  BY <1>1 DEF Accept
<1>2. CASE MainLock  BY <1>2 DEF MainLock
<1>3. CASE MainEnqueue  BY <1>3 DEF MainEnqueue
<1>4. CASE MainUnlock  BY <1>4 DEF MainUnlock
<1>5. CASE MainPost  BY <1>5 DEF MainPost
<1>6. ASSUME NEW w \in Worker, WorkerSemWait(w) PROVE MutualExclusion'
  BY <1>6 DEF WorkerSemWait
<1>7. ASSUME NEW w \in Worker, WorkerLock(w) PROVE MutualExclusion'
  BY <1>7 DEF WorkerLock
<1>8. ASSUME NEW w \in Worker, WorkerDequeue(w) PROVE MutualExclusion'
  BY <1>8 DEF WorkerDequeue
<1>9. ASSUME NEW w \in Worker, WorkerUnlock(w) PROVE MutualExclusion'
  BY <1>9 DEF WorkerUnlock
<1>10. ASSUME NEW w \in Worker, WorkerRun(w) PROVE MutualExclusion'
  BY <1>10 DEF WorkerRun
<1>11. ASSUME NEW w \in Worker, AppReturn(w) PROVE MutualExclusion'
  BY <1>11 DEF AppReturn
<1>12. ASSUME NEW w \in Worker, WorkerClose(w) PROVE MutualExclusion'
  BY <1>12 DEF WorkerClose
<1>13. ASSUME NEW w \in Worker, WorkerFree(w) PROVE MutualExclusion'
  BY <1>13 DEF WorkerFree
<1>14. CASE ReqMgrWake  BY <1>14 DEF ReqMgrWake
<1>15. CASE ReqMgrLock  BY <1>15 DEF ReqMgrLock
<1>16. CASE ReqMgrExpire  BY <1>16 DEF ReqMgrExpire
<1>17. CASE ReqMgrStop  BY <1>17 DEF ReqMgrStop
<1>18. CASE ReqMgrLockExcd  BY <1>18 DEF ReqMgrLockExcd
<1>19. CASE ReqMgrEnqueue  BY <1>19 DEF ReqMgrEnqueue
<1>20. CASE ReqMgrUnlockExcd  BY <1>20 DEF ReqMgrUnlockExcd
<1>21. CASE ReqMgrPost  BY <1>21 DEF ReqMgrPost
<1>22. CASE ReqMgrUnlock  BY <1>22 DEF ReqMgrUnlock
<1>23. CASE ExcdMgrSemWait  BY <1>23 DEF ExcdMgrSemWait
<1>24. CASE ExcdMgrLock  BY <1>24 DEF ExcdMgrLock
<1>25. CASE ExcdMgrDequeue  BY <1>25 DEF ExcdMgrDequeue
<1>26. CASE ExcdMgrUnlock  BY <1>26 DEF ExcdMgrUnlock
<1>27. CASE ExcdMgrSend  BY <1>27 DEF ExcdMgrSend
<1>28. CASE ExcdMgrClose  BY <1>28 DEF ExcdMgrClose
<1>29. CASE ExcdMgrFree  BY <1>29 DEF ExcdMgrFree
<1>30. CASE Tick  BY <1>30 DEF Tick
<1>31. CASE UNCHANGED vars  BY <1>31 DEF vars
<1> QED
  <2> HIDE DEF MutualExclusion
  <2> QED
    BY Steps, <1>1, <1>2, <1>3, <1>4, <1>5, <1>6, <1>7, <1>8, <1>9, <1>10, <1>11,
       <1>12, <1>13, <1>14, <1>15, <1>16, <1>17, <1>18, <1>19, <1>20, <1>21, <1>22,
       <1>23, <1>24, <1>25, <1>26, <1>27, <1>28, <1>29, <1>30, <1>31

-----------------------------------------------------------------------------
(* Queues as sets of Requests.                                             *)

\* enqueue adds its argument and nothing else.
LEMMA AppendIn ==
  ASSUME NEW q \in Seq(Conn), NEW x \in Conn
  PROVE  \A c : In(c, Append(q, x)) <=> In(c, q) \/ c = x
<1> TAKE c
<1>1. ASSUME In(c, q) PROVE In(c, Append(q, x))
  <2> PICK i \in DOMAIN q : q[i] = c
    BY <1>1 DEF In
  <2> i \in DOMAIN Append(q, x) /\ Append(q, x)[i] = c
    OBVIOUS
  <2> QED BY DEF In
<1>2. In(x, Append(q, x))
  <2> Len(q) + 1 \in DOMAIN Append(q, x) /\ Append(q, x)[Len(q) + 1] = x
    OBVIOUS
  <2> QED BY DEF In
<1>3. ASSUME In(c, Append(q, x)), c # x PROVE In(c, q)
  <2> PICK i \in DOMAIN Append(q, x) : Append(q, x)[i] = c
    BY <1>3 DEF In
  <2> i \in DOMAIN q /\ q[i] = c
    BY <1>3
  <2> QED BY DEF In
<1> QED BY <1>1, <1>2, <1>3

\* enqueue of a Request that is not queued keeps the queue free of repetitions.
LEMMA AppendDistinct ==
  ASSUME NEW q \in Seq(Conn), NEW x \in Conn, Distinct(q), ~ In(x, q)
  PROVE  Distinct(Append(q, x))
BY DEF Distinct, In

\* What a thread gets from a queue, and what it leaves.
LEMMA TakeFront ==
  ASSUME NEW q \in Seq(Conn), q # <<>>, Distinct(q)
  PROVE  /\ get_front(q) \in Conn /\ In(get_front(q), q)
         /\ dequeued(q) \in Seq(Conn) /\ Distinct(dequeued(q))
         /\ \A c : In(c, dequeued(q)) <=> In(c, q) /\ c # get_front(q)
<1>1. get_front(q) = q[1] /\ get_front(q) \in Conn /\ 1 \in DOMAIN q
  BY DEF get_front
<1>2. /\ dequeued(q) \in Seq(Conn) /\ Len(dequeued(q)) = Len(q) - 1
      /\ \A i \in DOMAIN dequeued(q) : dequeued(q)[i] = q[i + 1] /\ i + 1 \in DOMAIN q
  BY DEF dequeued
<1>3. In(get_front(q), q)
  BY <1>1 DEF In
<1>4. Distinct(dequeued(q))
  BY <1>2 DEF Distinct
<1>5. ASSUME NEW c, In(c, dequeued(q)) PROVE In(c, q) /\ c # get_front(q)
  BY <1>1, <1>2, <1>5 DEF In, Distinct
<1>6. ASSUME NEW c, In(c, q), c # get_front(q) PROVE In(c, dequeued(q))
  <2> PICK i \in DOMAIN q : q[i] = c
    BY <1>6 DEF In
  <2>1. i # 1
    BY <1>1, <1>6
  <2>2. i - 1 \in DOMAIN dequeued(q) /\ dequeued(q)[i - 1] = c
    BY <1>2, <2>1
  <2> QED BY <2>2 DEF In
<1> QED BY <1>1, <1>2, <1>3, <1>4, <1>5, <1>6

-----------------------------------------------------------------------------
(* Owned.                                                                  *)

Owned == OneOwner /\ HeapExact /\ backlog \cap heap = {}

ownvars == <<req_q, excd_tm_q, rq, heap, backlog>>

\* There are no Requests at the start.
LEMMA OwnedInit == Init => Owned
BY DEF Init, Owned, OneOwner, HeapExact, Distinct, In

\* Steps that move no Request.
LEMMA OwnedUnchanged == Owned /\ UNCHANGED ownvars => Owned'
BY DEF Owned, ownvars, OneOwner, HeapExact, Distinct, In

\* A Request moves from a thread's hands to the end of a queue.
LEMMA OwnedEnqueue ==
  ASSUME Shape, Owned, NEW t \in Thread, rq[t] # NULL,
         rq' = [rq EXCEPT ![t] = NULL], UNCHANGED <<heap, backlog>>,
         \/ req_q' = Append(req_q, rq[t]) /\ UNCHANGED excd_tm_q
         \/ excd_tm_q' = Append(excd_tm_q, rq[t]) /\ UNCHANGED req_q
  PROVE  Owned'
<1> DEFINE c == rq[t]
<1>1. /\ c \in Conn /\ req_q \in Seq(Conn) /\ excd_tm_q \in Seq(Conn)
      /\ rq \in [Thread -> Conn \cup {NULL}]
  BY DEF Shape, Types
<1>2. ~ In(c, req_q) /\ ~ In(c, excd_tm_q) /\ \A u \in Thread : rq[u] = c => u = t
  BY DEF Owned, OneOwner
<1>3. /\ \A d : In(d, Append(req_q, c)) <=> In(d, req_q) \/ d = c
      /\ \A d : In(d, Append(excd_tm_q, c)) <=> In(d, excd_tm_q) \/ d = c
  BY <1>1, AppendIn
<1>4. /\ Distinct(req_q) => Distinct(Append(req_q, c))
      /\ Distinct(excd_tm_q) => Distinct(Append(excd_tm_q, c))
  BY <1>1, <1>2, AppendDistinct
<1>5. /\ \A u \in Thread : rq'[u] = IF u = t THEN NULL ELSE rq[u]
      /\ rq' \in [Thread -> Conn \cup {NULL}]
  BY <1>1
<1> HIDE DEF c
<1>6. CASE req_q' = Append(req_q, c) /\ UNCHANGED excd_tm_q
  <2>1. \A d : In(d, req_q') <=> In(d, req_q) \/ d = c
    BY <1>3, <1>6
  <2>2. \A d : In(d, excd_tm_q') <=> In(d, excd_tm_q)
    BY <1>6
  <2>3. Distinct(req_q') /\ Distinct(excd_tm_q')
    BY <1>4, <1>6 DEF Owned, OneOwner
  <2>4. OneOwner'
    BY <2>1, <2>2, <2>3, <1>2, <1>5 DEF Owned, OneOwner
  <2>5. HeapExact'
    BY <2>1, <2>2, <1>1, <1>2, <1>5 DEF Owned, HeapExact, c
  <2> QED BY <2>4, <2>5 DEF Owned
<1>7. CASE excd_tm_q' = Append(excd_tm_q, c) /\ UNCHANGED req_q
  <2>1. \A d : In(d, excd_tm_q') <=> In(d, excd_tm_q) \/ d = c
    BY <1>3, <1>7
  <2>2. \A d : In(d, req_q') <=> In(d, req_q)
    BY <1>7
  <2>3. Distinct(req_q') /\ Distinct(excd_tm_q')
    BY <1>4, <1>7 DEF Owned, OneOwner
  <2>4. OneOwner'
    BY <2>1, <2>2, <2>3, <1>2, <1>5 DEF Owned, OneOwner
  <2>5. HeapExact'
    BY <2>1, <2>2, <1>1, <1>2, <1>5 DEF Owned, HeapExact, c
  <2> QED BY <2>4, <2>5 DEF Owned
<1> QED BY <1>6, <1>7 DEF c

\* A Request moves from the front of a queue into a thread's empty hands; with
\* an empty queue they stay empty.
LEMMA OwnedDequeue ==
  ASSUME Shape, Owned, NEW t \in Thread, rq[t] = NULL, UNCHANGED <<heap, backlog>>,
         \/ /\ rq' = [rq EXCEPT ![t] = get_front(req_q)]
            /\ req_q' = dequeued(req_q) /\ UNCHANGED excd_tm_q
         \/ /\ rq' = [rq EXCEPT ![t] = get_front(excd_tm_q)]
            /\ excd_tm_q' = dequeued(excd_tm_q) /\ UNCHANGED req_q
  PROVE  Owned'
<1>1. /\ req_q \in Seq(Conn) /\ excd_tm_q \in Seq(Conn)
      /\ rq \in [Thread -> Conn \cup {NULL}]
  BY DEF Shape, Types
<1>2. Distinct(req_q) /\ Distinct(excd_tm_q)
  BY DEF Owned, OneOwner
<1>3. CASE /\ rq' = [rq EXCEPT ![t] = get_front(req_q)]
           /\ req_q' = dequeued(req_q) /\ UNCHANGED excd_tm_q
  <2>1. CASE req_q = <<>>
    BY <2>1, <1>1, <1>3, OwnedUnchanged DEF get_front, dequeued, ownvars
  <2>2. CASE req_q # <<>>
    <3> DEFINE c == get_front(req_q)
    <3>1. /\ c \in Conn /\ In(c, req_q)
          /\ Distinct(req_q') /\ \A d : In(d, req_q') <=> In(d, req_q) /\ d # c
      BY <1>1, <1>2, <1>3, <2>2, TakeFront
    <3>2. \A u \in Thread : rq'[u] = IF u = t THEN c ELSE rq[u]
      BY <1>1, <1>3
    <3>3. \A d : In(d, excd_tm_q') <=> In(d, excd_tm_q)
      BY <1>3
    <3> HIDE DEF c
    <3>4. ~ In(c, excd_tm_q) /\ \A u \in Thread : rq[u] # c
      BY <3>1 DEF Owned, OneOwner
    <3>5. OneOwner'
      BY <1>2, <1>3, <3>1, <3>2, <3>3, <3>4 DEF Owned, OneOwner
    <3>6. HeapExact'
      BY <3>1, <3>2, <3>3, <3>4 DEF Owned, HeapExact
    <3> QED BY <3>5, <3>6 DEF Owned
  <2> QED BY <2>1, <2>2
<1>4. CASE /\ rq' = [rq EXCEPT ![t] = get_front(excd_tm_q)]
           /\ excd_tm_q' = dequeued(excd_tm_q) /\ UNCHANGED req_q
  <2>1. CASE excd_tm_q = <<>>
    BY <2>1, <1>1, <1>4, OwnedUnchanged DEF get_front, dequeued, ownvars
  <2>2. CASE excd_tm_q # <<>>
    <3> DEFINE c == get_front(excd_tm_q)
    <3>1. /\ c \in Conn /\ In(c, excd_tm_q)
          /\ Distinct(excd_tm_q') /\ \A d : In(d, excd_tm_q') <=> In(d, excd_tm_q) /\ d # c
      BY <1>1, <1>2, <1>4, <2>2, TakeFront
    <3>2. \A u \in Thread : rq'[u] = IF u = t THEN c ELSE rq[u]
      BY <1>1, <1>4
    <3>3. \A d : In(d, req_q') <=> In(d, req_q)
      BY <1>4
    <3> HIDE DEF c
    <3>4. ~ In(c, req_q) /\ \A u \in Thread : rq[u] # c
      BY <3>1 DEF Owned, OneOwner
    <3>5. OneOwner'
      BY <1>2, <1>4, <3>1, <3>2, <3>3, <3>4 DEF Owned, OneOwner
    <3>6. HeapExact'
      BY <3>1, <3>2, <3>3, <3>4 DEF Owned, HeapExact
    <3> QED BY <3>5, <3>6 DEF Owned
  <2> QED BY <2>1, <2>2
<1> QED BY <1>3, <1>4

\* The thread that holds a Request frees it.
LEMMA OwnedFree ==
  ASSUME Shape, Owned, NEW t \in Thread, rq[t] # NULL, FreeRequest(t),
         UNCHANGED <<req_q, excd_tm_q>>
  PROVE  Owned'
<1>1. rq \in [Thread -> Conn \cup {NULL}] /\ heap' = heap \ {rq[t]} /\ UNCHANGED backlog
  BY DEF Shape, Types, FreeRequest
<1>2. \A u \in Thread : rq'[u] = IF u = t THEN NULL ELSE rq[u]
  BY <1>1 DEF FreeRequest
<1>3. /\ \A d : In(d, req_q') <=> In(d, req_q)
      /\ \A d : In(d, excd_tm_q') <=> In(d, excd_tm_q)
      /\ Distinct(req_q') /\ Distinct(excd_tm_q')
  BY DEF Owned, OneOwner
<1>4. OneOwner'
  BY <1>2, <1>3 DEF Owned, OneOwner
<1>5. HeapExact'
  BY <1>1, <1>2, <1>3 DEF Owned, OneOwner, HeapExact
<1> QED BY <1>1, <1>4, <1>5 DEF Owned

\* Every Request keeps exactly one owner: accept creates one in the main
\* thread's hands, queues pass it on, the last holder frees it.
LEMMA OwnedNext == Shape /\ Owned /\ [Next]_vars => Owned'
<1> SUFFICES ASSUME Shape, Owned, [Next]_vars PROVE Owned'
  OBVIOUS
<1> USE DEF sysvars, reqvars, excdvars, histvars, Goto
<1>0. {"main", "req_mgr", "excd_mgr"} \cup Worker = Thread /\ Hands
  BY DEF Thread, Shape
<1>1. ASSUME NEW c \in Conn, NEW f \in Fd, Accept(c, f) PROVE Owned'
  <2>1. /\ c \in backlog /\ backlog' = backlog \ {c} /\ heap' = heap \cup {c}
        /\ rq' = [rq EXCEPT !["main"] = c] /\ UNCHANGED <<req_q, excd_tm_q>>
        /\ pc["main"] = "accept"
    BY <1>1 DEF Accept
  <2>2. rq["main"] = NULL /\ rq \in [Thread -> Conn \cup {NULL}]
    BY <2>1 DEF Shape, Types, Hands
  <2>3. c \notin heap /\ ~ In(c, req_q) /\ ~ In(c, excd_tm_q) /\ \A u \in Thread : rq[u] # c
    BY <2>1 DEF Owned, HeapExact
  <2>4. \A u \in Thread : rq'[u] = IF u = "main" THEN c ELSE rq[u]
    BY <2>1, <2>2
  <2>5. /\ \A d : In(d, req_q') <=> In(d, req_q)
        /\ \A d : In(d, excd_tm_q') <=> In(d, excd_tm_q)
        /\ Distinct(req_q') /\ Distinct(excd_tm_q')
    BY <2>1 DEF Owned, OneOwner
  <2>6. OneOwner'
    BY <2>3, <2>4, <2>5 DEF Owned, OneOwner
  <2>7. HeapExact'
    BY <1>0, <2>1, <2>2, <2>3, <2>4, <2>5 DEF Owned, HeapExact
  <2> QED BY <2>1, <2>3, <2>6, <2>7 DEF Owned
<1>2. CASE MainEnqueue
  BY <1>0, <1>2, OwnedEnqueue DEF MainEnqueue, Hands
<1>3. CASE ReqMgrEnqueue
  BY <1>0, <1>3, OwnedEnqueue DEF ReqMgrEnqueue, Hands
<1>4. ASSUME NEW w \in Worker, WorkerDequeue(w) PROVE Owned'
  BY <1>0, <1>4, OwnedDequeue DEF WorkerDequeue, Hands
<1>5. CASE ReqMgrExpire
  BY <1>0, <1>5, OwnedDequeue DEF ReqMgrExpire, Hands
<1>6. CASE ExcdMgrDequeue
  BY <1>0, <1>6, OwnedDequeue DEF ExcdMgrDequeue, Hands
<1>7. ASSUME NEW w \in Worker, WorkerFree(w) PROVE Owned'
  BY <1>0, <1>7, OwnedFree DEF WorkerFree, Hands
<1>8. CASE ExcdMgrFree
  BY <1>0, <1>8, OwnedFree DEF ExcdMgrFree, Hands
<1>9. CASE MainLock \/ MainUnlock \/ MainPost \/ Tick \/ UNCHANGED vars
  <2> UNCHANGED ownvars
    BY <1>9 DEF MainLock, MainUnlock, MainPost, Tick, vars, ownvars,
         LockReq, UnlockReq
  <2> QED BY OwnedUnchanged
<1>10. ASSUME NEW w \in Worker,
              \/ WorkerSemWait(w) \/ WorkerLock(w) \/ WorkerUnlock(w) \/ WorkerRun(w)
              \/ AppReturn(w) \/ WorkerClose(w)
       PROVE  Owned'
  <2> UNCHANGED ownvars
    BY <1>10 DEF WorkerSemWait, WorkerLock, WorkerUnlock, WorkerRun, AppReturn,
         WorkerClose, CloseFd, LockReq, UnlockReq, ownvars
  <2> QED BY OwnedUnchanged
<1>11. CASE \/ ReqMgrWake \/ ReqMgrLock \/ ReqMgrStop \/ ReqMgrLockExcd
            \/ ReqMgrUnlockExcd \/ ReqMgrPost \/ ReqMgrUnlock
  <2> UNCHANGED ownvars
    BY <1>11 DEF ReqMgrWake, ReqMgrLock, ReqMgrStop, ReqMgrLockExcd, ReqMgrUnlockExcd,
         ReqMgrPost, ReqMgrUnlock, LockReq, UnlockReq, LockExcd, UnlockExcd, ownvars
  <2> QED BY OwnedUnchanged
<1>12. CASE \/ ExcdMgrSemWait \/ ExcdMgrLock \/ ExcdMgrUnlock
            \/ ExcdMgrSend \/ ExcdMgrClose
  <2> UNCHANGED ownvars
    BY <1>12 DEF ExcdMgrSemWait, ExcdMgrLock, ExcdMgrUnlock, ExcdMgrSend, ExcdMgrClose,
         CloseFd, LockExcd, UnlockExcd, ownvars
  <2> QED BY OwnedUnchanged
<1> QED
  BY Steps, <1>1, <1>2, <1>3, <1>4, <1>5, <1>6, <1>7, <1>8, <1>9, <1>10, <1>11, <1>12

-----------------------------------------------------------------------------
(* FdBinding.                                                              *)

fdvars == <<fdtab, rq_fd, heap>>

\* No descriptor is open at the start.
LEMMA FdInit == Init => FdBinding
BY DEF Init, FdBinding

\* A step that neither enters nor leaves a label "free", and changes no hands
\* there, closes nothing.
LEMMA ClosedSame ==
  ASSUME Shape, NEW t \in Thread, NEW to, NEW r,
         pc' = [pc EXCEPT ![t] = to], pc[t] # "free", to # "free",
         rq' = [rq EXCEPT ![t] = r]
  PROVE  \A c : Closed(c)' <=> Closed(c)
<1>1. pc \in [Thread -> MainPc \cup WorkerPc \cup ReqMgrPc \cup ExcdMgrPc]
      /\ rq \in [Thread -> Conn \cup {NULL}]
  BY DEF Shape, Types
<1>2. \A u \in Thread : /\ pc'[u] = IF u = t THEN to ELSE pc[u]
                        /\ rq'[u] = IF u = t THEN r ELSE rq[u]
  BY <1>1
<1> QED BY <1>2 DEF Closed

\* A step that changes neither descriptors nor Requests, and closes nothing.
LEMMA FdSame ==
  ASSUME FdBinding, UNCHANGED fdvars, \A c : Closed(c)' <=> Closed(c)
  PROVE  FdBinding'
BY DEF FdBinding, fdvars

\* Steps of a thread that leave descriptors and the heap alone.
LEMMA FdQuiet ==
  ASSUME Shape, FdBinding, UNCHANGED fdvars,
         NEW t \in Thread, NEW to, NEW r,
         pc' = [pc EXCEPT ![t] = to], pc[t] # "free", to # "free",
         rq' = [rq EXCEPT ![t] = r]
  PROVE  FdBinding'
BY ClosedSame, FdSame

\* The holder of a Request closes its descriptor: until then the number
\* stood for the Request's connection.
LEMMA FdClose ==
  ASSUME Shape, Owned, FdBinding, NEW t \in Thread, rq[t] # NULL,
         Goto(t, "close", "free"), CloseFd(t), UNCHANGED rq
  PROVE  FdBinding'
<1> DEFINE c == rq[t]
<1>1. /\ pc \in [Thread -> MainPc \cup WorkerPc \cup ReqMgrPc \cup ExcdMgrPc]
      /\ rq \in [Thread -> Conn \cup {NULL}] /\ fdtab \in [Fd -> Conn \cup {NULL}]
      /\ heap \subseteq Conn
  BY DEF Shape, Types
<1>2. c \in Conn /\ c \in heap /\ \A u \in Thread : rq[u] = c => u = t
  BY <1>1 DEF Owned, OneOwner, HeapExact
<1>3. \A u \in Thread : pc'[u] = IF u = t THEN "free" ELSE pc[u]
  BY <1>1 DEF Goto
<1>4. ~ Closed(c)
  BY <1>2 DEF Closed, Goto
<1>5. \A d : Closed(d)' <=> Closed(d) \/ d = c
  BY <1>3 DEF Closed, Goto
<1>6. rq_fd[c] \in Fd /\ fdtab[rq_fd[c]] = c
  BY <1>2, <1>4 DEF FdBinding
<1>7. /\ UNCHANGED <<rq_fd, heap>>
      /\ \A f \in Fd : fdtab'[f] = IF f = rq_fd[c] THEN NULL ELSE fdtab[f]
  BY <1>1, <1>6 DEF CloseFd
<1> HIDE DEF c
<1>8. ASSUME NEW d \in heap', ~ Closed(d)' PROVE rq_fd'[d] \in Fd /\ fdtab'[rq_fd'[d]] = d
  BY <1>5, <1>6, <1>7, <1>8 DEF FdBinding
<1>9. ASSUME NEW f \in Fd, fdtab'[f] # NULL
      PROVE  fdtab'[f] \in heap' /\ rq_fd'[fdtab'[f]] = f 
             /\ \A u \in Thread : ~ (rq'[u] = fdtab'[f] /\ pc'[u] = "free")
  <2>1. f # rq_fd[c] /\ fdtab'[f] = fdtab[f]
    BY <1>7, <1>9
  <2>2. fdtab[f] # c /\ ~ Closed(fdtab[f]) /\ fdtab[f] \in heap /\ rq_fd[fdtab[f]] = f
    BY <1>9, <2>1 DEF FdBinding
  <2> QED BY <1>5, <1>7, <2>1, <2>2 DEF Closed
<1> QED BY <1>8, <1>9 DEF FdBinding, Closed

\* It frees the Request: no descriptor stands for it any more.
LEMMA FdFree ==
  ASSUME Shape, Owned, FdBinding, NEW t \in Thread, rq[t] # NULL, NEW to, to # "free",
         Goto(t, "free", to), FreeRequest(t)
  PROVE  FdBinding'
<1> DEFINE c == rq[t]
<1>1. /\ pc \in [Thread -> MainPc \cup WorkerPc \cup ReqMgrPc \cup ExcdMgrPc]
      /\ rq \in [Thread -> Conn \cup {NULL}] /\ fdtab \in [Fd -> Conn \cup {NULL}]
      /\ heap \subseteq Conn
  BY DEF Shape, Types
<1>2. c \in Conn /\ \A u \in Thread : rq[u] = c => u = t
  BY <1>1 DEF Owned, OneOwner
<1>3. \A u \in Thread : /\ pc'[u] = IF u = t THEN to ELSE pc[u]
                        /\ rq'[u] = IF u = t THEN NULL ELSE rq[u]
  BY <1>1 DEF Goto, FreeRequest
<1>4. Closed(c)
  BY DEF Closed, Goto
<1>5. \A d : d # c => (Closed(d)' <=> Closed(d))
  BY <1>3 DEF Closed, Goto
<1>6. UNCHANGED <<fdtab, rq_fd>> /\ heap' = heap \ {c}
  BY DEF FreeRequest
<1> HIDE DEF c
<1>7. \A f \in Fd : fdtab[f] # NULL => fdtab[f] # c
  BY <1>4 DEF FdBinding
<1> QED BY <1>5, <1>6, <1>7 DEF FdBinding

\* Only the holder of a Request closes its descriptor, so the number in a
\* Request is not reused before that.
LEMMA FdNext == Shape /\ Owned /\ FdBinding /\ [Next]_vars => FdBinding'
<1> SUFFICES ASSUME Shape, Owned, FdBinding, [Next]_vars PROVE FdBinding'
  OBVIOUS
<1>0. /\ {"main", "req_mgr", "excd_mgr"} \cup Worker = Thread /\ Hands
      /\ rq \in [Thread -> Conn \cup {NULL}]
  BY DEF Thread, Shape, Types
<1>1. ASSUME NEW c \in Conn, NEW f \in Fd, Accept(c, f) PROVE FdBinding'
  <2>1. /\ c \in backlog /\ fdtab[f] = NULL /\ heap' = heap \cup {c}
        /\ fdtab' = [fdtab EXCEPT ![f] = c] /\ rq_fd' = [rq_fd EXCEPT ![c] = f]
        /\ pc' = [pc EXCEPT !["main"] = "lock"] /\ pc["main"] = "accept"
        /\ rq' = [rq EXCEPT !["main"] = c]
    BY <1>1 DEF Accept, Goto
  <2>2. fdtab \in [Fd -> Conn \cup {NULL}] /\ rq_fd \in [Conn -> Fd \cup {NULL}]
        /\ heap \subseteq Conn
    BY DEF Shape, Types
  <2>3. \A d : Closed(d)' <=> Closed(d)
    BY <1>0, <2>1, ClosedSame
  <2>4. c \notin heap /\ ~ Closed(c)
    BY <2>1 DEF Owned, HeapExact, Closed
  <2>5. /\ \A g \in Fd : fdtab'[g] = IF g = f THEN c ELSE fdtab[g]
        /\ \A d \in Conn : rq_fd'[d] = IF d = c THEN f ELSE rq_fd[d]
    BY <2>1, <2>2
  <2>6. ASSUME NEW d \in heap', ~ Closed(d)' PROVE rq_fd'[d] \in Fd /\ fdtab'[rq_fd'[d]] = d
    BY <2>1, <2>2, <2>3, <2>4, <2>5, <2>6 DEF FdBinding
  <2>7. ASSUME NEW g \in Fd, fdtab'[g] # NULL
        PROVE  fdtab'[g] \in heap' /\ rq_fd'[fdtab'[g]] = g 
               /\ \A u \in Thread : ~ (rq'[u] = fdtab'[g] /\ pc'[u] = "free")
    <3>1. CASE g = f
      BY <3>1, <2>1, <2>3, <2>4, <2>5 DEF Closed
    <3>2. CASE g # f
      <4>1. fdtab'[g] = fdtab[g] /\ fdtab[g] # c
        BY <3>2, <2>4, <2>5, <2>7 DEF FdBinding
      <4>2. fdtab[g] \in heap /\ rq_fd[fdtab[g]] = g /\ ~ Closed(fdtab[g])
        BY <4>1, <2>7 DEF FdBinding
      <4> QED BY <4>1, <4>2, <2>1, <2>2, <2>3, <2>5 DEF Closed
    <3> QED BY <3>1, <3>2
  <2> QED BY <2>6, <2>7 DEF FdBinding, Closed
<1>2. ASSUME NEW w \in Worker, WorkerClose(w) PROVE FdBinding'
  BY <1>0, <1>2, FdClose DEF WorkerClose, Goto, Hands
<1>3. ASSUME NEW w \in Worker, WorkerFree(w) PROVE FdBinding'
  BY <1>0, <1>3, FdFree DEF WorkerFree, Goto, Hands
<1>4. CASE ExcdMgrClose
  BY <1>0, <1>4, FdClose DEF ExcdMgrClose, Goto, Hands
<1>5. CASE ExcdMgrFree
  BY <1>0, <1>5, FdFree DEF ExcdMgrFree, Goto, Hands
<1>6. CASE MainLock \/ MainEnqueue \/ MainUnlock \/ MainPost
  <2>1. \E from, to \in MainPc : Goto("main", from, to)
    BY <1>6 DEF MainLock, MainEnqueue, MainUnlock, MainPost, MainPc
  <2>2. UNCHANGED fdvars /\ \E r : rq' = [rq EXCEPT !["main"] = r]
    BY <1>0, <1>6 DEF MainLock, MainEnqueue, MainUnlock, MainPost, sysvars, fdvars
  <2> QED BY <1>0, <2>1, <2>2, FdQuiet DEF Goto, MainPc
<1>7. ASSUME NEW w \in Worker,
             \/ WorkerSemWait(w) \/ WorkerLock(w) \/ WorkerDequeue(w)
             \/ WorkerUnlock(w) \/ WorkerRun(w) \/ AppReturn(w)
      PROVE  FdBinding'
  <2>1. \E from, to \in WorkerPc \ {"free"} : Goto(w, from, to)
    BY <1>7 DEF WorkerSemWait, WorkerLock, WorkerDequeue, WorkerUnlock, WorkerRun,
         AppReturn, WorkerPc
  <2>2. UNCHANGED fdvars /\ \E r : rq' = [rq EXCEPT ![w] = r]
    BY <1>0, <1>7 DEF WorkerSemWait, WorkerLock, WorkerDequeue, WorkerUnlock, WorkerRun,
         AppReturn, sysvars, fdvars
  <2> QED BY <1>0, <2>1, <2>2, FdQuiet DEF Goto
<1>8. CASE \/ ReqMgrWake \/ ReqMgrLock \/ ReqMgrExpire \/ ReqMgrStop \/ ReqMgrLockExcd
           \/ ReqMgrEnqueue \/ ReqMgrUnlockExcd \/ ReqMgrPost \/ ReqMgrUnlock
  <2>1. \E from, to \in ReqMgrPc : Goto("req_mgr", from, to)
    BY <1>8 DEF ReqMgrWake, ReqMgrLock, ReqMgrExpire, ReqMgrStop, ReqMgrLockExcd,
         ReqMgrEnqueue, ReqMgrUnlockExcd, ReqMgrPost, ReqMgrUnlock, ReqMgrPc
  <2>2. UNCHANGED fdvars /\ \E r : rq' = [rq EXCEPT !["req_mgr"] = r]
    BY <1>0, <1>8 DEF ReqMgrWake, ReqMgrLock, ReqMgrExpire, ReqMgrStop, ReqMgrLockExcd,
         ReqMgrEnqueue, ReqMgrUnlockExcd, ReqMgrPost, ReqMgrUnlock, sysvars, fdvars
  <2> QED BY <1>0, <2>1, <2>2, FdQuiet DEF Goto, ReqMgrPc
<1>9. CASE \/ ExcdMgrSemWait \/ ExcdMgrLock \/ ExcdMgrDequeue \/ ExcdMgrUnlock \/ ExcdMgrSend
  <2>1. \E from, to \in ExcdMgrPc \ {"free"} : Goto("excd_mgr", from, to)
    BY <1>9 DEF ExcdMgrSemWait, ExcdMgrLock, ExcdMgrDequeue, ExcdMgrUnlock, ExcdMgrSend,
         ExcdMgrPc
  <2>2. UNCHANGED fdvars /\ \E r : rq' = [rq EXCEPT !["excd_mgr"] = r]
    BY <1>0, <1>9 DEF ExcdMgrSemWait, ExcdMgrLock, ExcdMgrDequeue, ExcdMgrUnlock,
         ExcdMgrSend, sysvars, fdvars
  <2> QED BY <1>0, <2>1, <2>2, FdQuiet DEF Goto
<1>10. CASE Tick \/ UNCHANGED vars
  BY <1>10 DEF Tick, vars, sysvars, FdBinding, Closed
<1> QED
  BY Steps, <1>1, <1>2, <1>3, <1>4, <1>5, <1>6, <1>7, <1>8, <1>9, <1>10

-----------------------------------------------------------------------------
(* Outcomes.                                                               *)

\* A served connection was accepted, and as long as its Request exists a
\* worker past the call of the application holds it; likewise for a denied
\* one and th_excd_tm_q_mgr.
Outcomes ==
  /\ served \subseteq Conn /\ denied \subseteq Conn
  /\ \A c \in served : c \notin backlog /\ c \notin denied
  /\ \A c \in served : c \in heap =>
       \E w \in Worker : rq[w] = c /\ pc[w] \in {"app", "close", "free"}
  /\ \A c \in denied : c \notin backlog
  /\ \A c \in denied : c \in heap =>
       rq["excd_mgr"] = c /\ pc["excd_mgr"] \in {"close", "free"}

outvars == <<served, denied, backlog, heap>>

\* Nobody is served or denied at the start.
LEMMA OutcomesInit == Init => Outcomes
BY DEF Init, Outcomes

\* A step that does not touch the threads that serve or deny.
LEMMA OutcomesSame ==
  ASSUME Shape, Outcomes, UNCHANGED outvars, NEW t \in Thread, NEW to, NEW r,
         pc' = [pc EXCEPT ![t] = to], rq' = [rq EXCEPT ![t] = r],
         t \in Worker => pc[t] \notin {"app", "close", "free"},
         t = "excd_mgr" => pc[t] \notin {"close", "free"}
  PROVE  Outcomes'
<1>1. /\ pc \in [Thread -> MainPc \cup WorkerPc \cup ReqMgrPc \cup ExcdMgrPc]
      /\ rq \in [Thread -> Conn \cup {NULL}]
      /\ Worker \subseteq Thread /\ "excd_mgr" \in Thread
  BY DEF Shape, Types, Thread
<1>2. \A u \in Thread : /\ pc'[u] = IF u = t THEN to ELSE pc[u]
                        /\ rq'[u] = IF u = t THEN r ELSE rq[u]
  BY <1>1
<1>3. ASSUME NEW c \in served, c \in heap
      PROVE  \E w \in Worker : rq'[w] = c /\ pc'[w] \in {"app", "close", "free"}
  BY <1>1, <1>2, <1>3 DEF Outcomes
<1>4. ASSUME NEW c \in denied, c \in heap
      PROVE  rq'["excd_mgr"] = c /\ pc'["excd_mgr"] \in {"close", "free"}
  BY <1>1, <1>2, <1>4 DEF Outcomes
<1> QED BY <1>3, <1>4 DEF Outcomes, outvars

\* The connection behind the descriptor of a Request that is held and not
\* closed yet is the Request's own.
LEMMA HeldFd ==
  ASSUME Shape, Owned, FdBinding, NEW t \in Thread, rq[t] # NULL, pc[t] # "free"
  PROVE  rq[t] \in heap /\ rq[t] \in Conn /\ fdtab[rq_fd[rq[t]]] = rq[t]
<1>1. rq[t] \in Conn /\ rq[t] \in heap
  BY DEF Shape, Types, Owned, HeapExact
<1>2. ~ Closed(rq[t])
  BY DEF Owned, OneOwner, Closed
<1> QED BY <1>1, <1>2 DEF FdBinding

\* Serving and denying happen to the Request in hand, which OneOwner keeps
\* out of everybody else's.
LEMMA OutcomesNext ==
  Shape /\ Owned /\ FdBinding /\ Outcomes /\ [Next]_vars => Outcomes'
<1> SUFFICES ASSUME Shape, Owned, FdBinding, Outcomes, [Next]_vars PROVE Outcomes'
  OBVIOUS
<1>0. /\ {"main", "req_mgr", "excd_mgr"} \cup Worker = Thread /\ Hands
      /\ "main" \notin Worker /\ "req_mgr" \notin Worker /\ "excd_mgr" \notin Worker
      /\ pc \in [Thread -> MainPc \cup WorkerPc \cup ReqMgrPc \cup ExcdMgrPc]
      /\ rq \in [Thread -> Conn \cup {NULL}]
  BY DEF Thread, Shape, Types
<1>1. ASSUME NEW c \in Conn, NEW f \in Fd, Accept(c, f) PROVE Outcomes'
  <2>1. /\ c \in backlog /\ backlog' = backlog \ {c} /\ heap' = heap \cup {c}
        /\ pc' = [pc EXCEPT !["main"] = "lock"] /\ rq' = [rq EXCEPT !["main"] = c]
        /\ UNCHANGED <<served, denied>>
    BY <1>1 DEF Accept, Goto, histvars
  <2>2. c \notin served /\ c \notin denied
    BY <2>1 DEF Outcomes
  <2>3. \A u \in Worker \cup {"excd_mgr"} : pc'[u] = pc[u] /\ rq'[u] = rq[u]
    BY <1>0, <2>1
  <2> QED BY <2>1, <2>2, <2>3 DEF Outcomes
<1>2. ASSUME NEW w \in Worker, WorkerRun(w) PROVE Outcomes'
  <2>1. /\ pc[w] = "run" /\ pc' = [pc EXCEPT ![w] = "app"]
        /\ served' = served \cup {fdtab[rq_fd[rq[w]]]}
        /\ UNCHANGED <<rq, denied, backlog, heap>>
    BY <1>2 DEF WorkerRun, Goto, sysvars
  <2>2. rq[w] \in heap /\ rq[w] \in Conn /\ fdtab[rq_fd[rq[w]]] = rq[w]
    BY <1>0, <2>1, HeldFd DEF Hands
  <2>3. rq[w] \notin backlog /\ rq[w] \notin denied
    BY <1>0, <2>2 DEF Outcomes, Owned, OneOwner
  <2>4. \A u \in Thread : pc'[u] = IF u = w THEN "app" ELSE pc[u]
    BY <1>0, <2>1
  <2>5. ASSUME NEW c \in served', c \in heap
        PROVE  \E v \in Worker : rq[v] = c /\ pc'[v] \in {"app", "close", "free"}
    <3>1. CASE c = rq[w]
      BY <1>0, <2>4, <3>1
    <3>2. CASE c \in served
      <4> PICK v \in Worker : rq[v] = c /\ pc[v] \in {"app", "close", "free"}
        BY <2>5, <3>2 DEF Outcomes
      <4> QED BY <1>0, <2>1, <2>4
    <3> QED BY <2>1, <2>2, <3>1, <3>2
  <2>6. pc'["excd_mgr"] = pc["excd_mgr"]
    BY <1>0, <2>4
  <2> QED BY <2>1, <2>2, <2>3, <2>5, <2>6 DEF Outcomes
<1>3. CASE ExcdMgrSend
  <2> DEFINE e == "excd_mgr"
  <2>1. /\ pc[e] = "send" /\ pc' = [pc EXCEPT ![e] = "close"]
        /\ denied' = denied \cup {fdtab[rq_fd[rq[e]]]}
        /\ UNCHANGED <<rq, served, backlog, heap>>
    BY <1>3 DEF ExcdMgrSend, Goto, sysvars
  <2>2. rq[e] \in heap /\ rq[e] \in Conn /\ fdtab[rq_fd[rq[e]]] = rq[e]
    BY <1>0, <2>1, HeldFd DEF Hands
  <2>3. rq[e] \notin backlog /\ rq[e] \notin served
    BY <1>0, <2>2 DEF Outcomes, Owned, OneOwner
  <2>4. \A u \in Thread : pc'[u] = IF u = e THEN "close" ELSE pc[u]
    BY <1>0, <2>1
  <2>5. \A c \in denied : c \notin heap
    BY <2>1 DEF Outcomes
  <2>6. \A u \in Worker : pc'[u] = pc[u]
    BY <1>0, <2>4
  <2> QED BY <1>0, <2>1, <2>2, <2>3, <2>4, <2>5, <2>6 DEF Outcomes
<1>4. ASSUME NEW w \in Worker, AppReturn(w) \/ WorkerClose(w) PROVE Outcomes'
  <2>1. /\ pc' = [pc EXCEPT ![w] = "close"] \/ pc' = [pc EXCEPT ![w] = "free"]
        /\ UNCHANGED <<rq, served, denied, backlog, heap>>
    BY <1>4 DEF AppReturn, WorkerClose, CloseFd, Goto, sysvars, histvars
  <2>2. /\ pc'[w] \in {"close", "free"}
        /\ \A u \in Thread : u # w => pc'[u] = pc[u]
    BY <1>0, <2>1
  <2> QED BY <1>0, <2>1, <2>2 DEF Outcomes
<1>5. CASE ExcdMgrClose
  <2>1. /\ pc' = [pc EXCEPT !["excd_mgr"] = "free"]
        /\ UNCHANGED <<rq, served, denied, backlog, heap>>
    BY <1>5 DEF ExcdMgrClose, CloseFd, Goto, histvars
  <2>2. /\ pc'["excd_mgr"] = "free"
        /\ \A u \in Worker : pc'[u] = pc[u]
    BY <1>0, <2>1
  <2> QED BY <1>0, <2>1, <2>2 DEF Outcomes
<1>6. ASSUME NEW w \in Worker, WorkerFree(w) PROVE Outcomes'
  <2>1. /\ pc' = [pc EXCEPT ![w] = "sem_wait"] /\ rq' = [rq EXCEPT ![w] = NULL]
        /\ heap' = heap \ {rq[w]} /\ UNCHANGED <<served, denied, backlog>>
    BY <1>6 DEF WorkerFree, FreeRequest, Goto, histvars
  <2>2. \A u \in Thread : u # w => pc'[u] = pc[u] /\ rq'[u] = rq[u]
    BY <1>0, <2>1
  <2>3. ASSUME NEW c \in served, c \in heap'
        PROVE  \E v \in Worker : rq'[v] = c /\ pc'[v] \in {"app", "close", "free"}
    BY <1>0, <2>1, <2>2, <2>3 DEF Outcomes
  <2>4. ASSUME NEW c \in denied, c \in heap'
        PROVE  rq'["excd_mgr"] = c /\ pc'["excd_mgr"] \in {"close", "free"}
    BY <1>0, <2>1, <2>2, <2>4 DEF Outcomes
  <2> QED BY <2>1, <2>3, <2>4 DEF Outcomes
<1>7. CASE ExcdMgrFree
  <2>1. /\ pc' = [pc EXCEPT !["excd_mgr"] = "sem_wait"]
        /\ rq' = [rq EXCEPT !["excd_mgr"] = NULL]
        /\ heap' = heap \ {rq["excd_mgr"]} /\ UNCHANGED <<served, denied, backlog>>
    BY <1>7 DEF ExcdMgrFree, FreeRequest, Goto, histvars
  <2>2. \A u \in Worker : pc'[u] = pc[u] /\ rq'[u] = rq[u]
    BY <1>0, <2>1
  <2>3. \A c \in denied : c \notin heap'
    BY <2>1 DEF Outcomes
  <2> QED BY <2>1, <2>2, <2>3 DEF Outcomes
<1>8. CASE MainLock \/ MainEnqueue \/ MainUnlock \/ MainPost
  <2>1. \E to : pc' = [pc EXCEPT !["main"] = to]
    BY <1>8 DEF MainLock, MainEnqueue, MainUnlock, MainPost, Goto
  <2>2. UNCHANGED outvars /\ \E r : rq' = [rq EXCEPT !["main"] = r]
    BY <1>0, <1>8 DEF MainLock, MainEnqueue, MainUnlock, MainPost, sysvars, histvars, outvars
  <2> QED BY <1>0, <2>1, <2>2, OutcomesSame
<1>9. ASSUME NEW w \in Worker,
             WorkerSemWait(w) \/ WorkerLock(w) \/ WorkerDequeue(w) \/ WorkerUnlock(w)
      PROVE  Outcomes'
  <2>1. /\ pc[w] \in {"sem_wait", "lock", "dequeue", "unlock"}
        /\ \E to : pc' = [pc EXCEPT ![w] = to]
    BY <1>9 DEF WorkerSemWait, WorkerLock, WorkerDequeue, WorkerUnlock, Goto
  <2>2. UNCHANGED outvars /\ \E r : rq' = [rq EXCEPT ![w] = r]
    BY <1>0, <1>9 DEF WorkerSemWait, WorkerLock, WorkerDequeue, WorkerUnlock,
         sysvars, histvars, outvars
  <2> QED BY <1>0, <2>1, <2>2, OutcomesSame
<1>10. CASE \/ ReqMgrWake \/ ReqMgrLock \/ ReqMgrExpire \/ ReqMgrStop \/ ReqMgrLockExcd
            \/ ReqMgrEnqueue \/ ReqMgrUnlockExcd \/ ReqMgrPost \/ ReqMgrUnlock
  <2>1. \E to : pc' = [pc EXCEPT !["req_mgr"] = to]
    BY <1>10 DEF ReqMgrWake, ReqMgrLock, ReqMgrExpire, ReqMgrStop, ReqMgrLockExcd,
         ReqMgrEnqueue, ReqMgrUnlockExcd, ReqMgrPost, ReqMgrUnlock, Goto
  <2>2. UNCHANGED outvars /\ \E r : rq' = [rq EXCEPT !["req_mgr"] = r]
    BY <1>0, <1>10 DEF ReqMgrWake, ReqMgrLock, ReqMgrExpire, ReqMgrStop, ReqMgrLockExcd,
         ReqMgrEnqueue, ReqMgrUnlockExcd, ReqMgrPost, ReqMgrUnlock, sysvars, histvars, outvars
  <2> QED BY <1>0, <2>1, <2>2, OutcomesSame
<1>11. CASE ExcdMgrSemWait \/ ExcdMgrLock \/ ExcdMgrDequeue \/ ExcdMgrUnlock
  <2>1. /\ pc["excd_mgr"] \in {"sem_wait", "lock", "dequeue", "unlock"}
        /\ \E to : pc' = [pc EXCEPT !["excd_mgr"] = to]
    BY <1>11 DEF ExcdMgrSemWait, ExcdMgrLock, ExcdMgrDequeue, ExcdMgrUnlock, Goto
  <2>2. UNCHANGED outvars /\ \E r : rq' = [rq EXCEPT !["excd_mgr"] = r]
    BY <1>0, <1>11 DEF ExcdMgrSemWait, ExcdMgrLock, ExcdMgrDequeue, ExcdMgrUnlock,
         sysvars, histvars, outvars
  <2> QED BY <1>0, <2>1, <2>2, OutcomesSame
<1>12. CASE Tick \/ UNCHANGED vars
  BY <1>12 DEF Tick, vars, sysvars, histvars, Outcomes
<1> QED
  BY Steps, <1>1, <1>2, <1>3, <1>4, <1>5, <1>6, <1>7, <1>8, <1>9, <1>10, <1>11, <1>12

-----------------------------------------------------------------------------
(* Theorems.                                                               *)

Inv == Shape /\ MutualExclusion /\ Owned /\ FdBinding /\ Outcomes

\* The layers are inductive together.
LEMMA InvInvariant == Spec => []Inv
<1>1. Init => Inv
  BY ShapeInit, ExclusiveInit, OwnedInit, FdInit, OutcomesInit DEF Inv
<1>2. Inv /\ [Next]_vars => Inv'
  BY ShapeNext, ExclusiveNext, OwnedNext, FdNext, OutcomesNext DEF Inv
<1> QED BY <1>1, <1>2, PTL DEF Spec

\* Every variable keeps its type; in particular the descriptors on which
\* app_worker and th_excd_tm_q_mgr act always stand for a connection.
THEOREM TypeCorrect == Spec => []TypeOK
<1>1. Inv => TypeOK
  BY DEF Inv, Shape, Types, Outcomes, TypeOK
<1> QED BY <1>1, InvInvariant, PTL

\* At most one thread is between lock and unlock of req_q_mtx, and of
\* excd_tm_mtx, whatever the number of workers.
THEOREM MutexCorrect == Spec => []MutualExclusion
<1>1. Inv => MutualExclusion
  BY DEF Inv
<1> QED BY <1>1, InvInvariant, PTL

\* The Request structures of server.c have one owner at a time.
THEOREM OwnershipCorrect == Spec => []OneOwner
<1>1. Inv => OneOwner
  BY DEF Inv, Owned
<1> QED BY <1>1, InvInvariant, PTL

\* No Request is used after free, freed twice or leaked.
THEOREM HeapCorrect == Spec => []HeapExact
<1>1. Inv => HeapExact
  BY DEF Inv, Owned
<1> QED BY <1>1, InvInvariant, PTL

\* Reuse of descriptor numbers by the kernel never makes a thread send to or
\* close a connection that is not its Request's, and no descriptor leaks.
THEOREM DescriptorsCorrect == Spec => []FdBinding
<1>1. Inv => FdBinding
  BY DEF Inv
<1> QED BY <1>1, InvInvariant, PTL

\* No connection is both given to the application and sent the timeout message.
THEOREM OutcomeCorrect == Spec => []ServedOrDenied
<1>1. Inv => ServedOrDenied
  BY DEF Inv, Outcomes, ServedOrDenied
<1> QED BY <1>1, InvInvariant, PTL

-----------------------------------------------------------------------------
(* The queues, their semaphores and the time limit.                        *)

\* get_time_diff never sees a time in the future.
Clock == curr_tm =< now /\ \A c \in Conn : rq_ts[c] =< now

Timely == Clock /\ TimeOrder /\ PassComplete /\ DeniedWaited

\* The limit on waiting is a number of seconds.
LEMMA LimitType == limit \in Nat
BY DEF limit, delta

-----------------------------------------------------------------------------
(* Timely.                                                                 *)

\* Nothing is queued or denied at the start.
LEMMA TimelyInit == Init => Timely
<1> SUFFICES ASSUME Init PROVE Timely
  OBVIOUS
<1>1. Clock /\ TimeOrder /\ PassComplete
  BY DEF Init, Clock, TimeOrder, PassComplete, Thread
<1>2. DeniedWaited
  BY DEF Init, DeniedWaited, In, Thread
<1> QED BY <1>1, <1>2 DEF Timely

\* Time stamps and clock readings are taken from a clock that never goes back.
LEMMA ClockNext == Shape /\ Clock /\ [Next]_vars => Clock'
<1> SUFFICES ASSUME Shape, Clock, [Next]_vars PROVE Clock'
  OBVIOUS
<1> USE DEF Clock, sysvars, reqvars, excdvars, histvars
<1>0. now \in Nat /\ curr_tm \in Nat /\ rq_ts \in [Conn -> Nat]
  BY DEF Shape, Types
<1>1. ASSUME NEW c \in Conn, NEW f \in Fd, Accept(c, f) PROVE Clock'
  BY <1>0, <1>1 DEF Accept
<1>2. CASE ReqMgrLock  BY <1>0, <1>2 DEF ReqMgrLock
<1>3. CASE Tick  BY <1>0, <1>3 DEF Tick
<1>4. CASE UNCHANGED <<now, curr_tm, rq_ts>>  BY <1>4
<1>5. ASSUME NEW w \in Worker,
             \/ WorkerSemWait(w) \/ WorkerLock(w) \/ WorkerDequeue(w) \/ WorkerUnlock(w)
             \/ WorkerRun(w) \/ AppReturn(w) \/ WorkerClose(w) \/ WorkerFree(w)
      PROVE  UNCHANGED <<now, curr_tm, rq_ts>>
  BY <1>5 DEF WorkerSemWait, WorkerLock, WorkerDequeue, WorkerUnlock, WorkerRun,
       AppReturn, WorkerClose, WorkerFree, CloseFd, FreeRequest
<1>6. ASSUME \/ MainLock \/ MainEnqueue \/ MainUnlock \/ MainPost
             \/ ReqMgrWake \/ ReqMgrExpire \/ ReqMgrStop \/ ReqMgrLockExcd
             \/ ReqMgrEnqueue \/ ReqMgrUnlockExcd \/ ReqMgrPost \/ ReqMgrUnlock
             \/ ExcdMgrSemWait \/ ExcdMgrLock \/ ExcdMgrDequeue \/ ExcdMgrUnlock
             \/ ExcdMgrSend \/ ExcdMgrClose \/ ExcdMgrFree \/ UNCHANGED vars
      PROVE  UNCHANGED <<now, curr_tm, rq_ts>>
  BY <1>6 DEF MainLock, MainEnqueue, MainUnlock, MainPost, ReqMgrWake, ReqMgrExpire,
       ReqMgrStop, ReqMgrLockExcd, ReqMgrEnqueue, ReqMgrUnlockExcd, ReqMgrPost,
       ReqMgrUnlock, ExcdMgrSemWait, ExcdMgrLock, ExcdMgrDequeue, ExcdMgrUnlock,
       ExcdMgrSend, ExcdMgrClose, ExcdMgrFree, CloseFd, FreeRequest, vars
<1> QED BY Steps, <1>1, <1>2, <1>3, <1>4, <1>5, <1>6

\* What a step can do to the queue of accepted requests and to the time
\* stamps: accept a connection, append the main thread's Request, take the
\* front, or neither.
QueueStep ==
  \/ /\ \E c \in backlog : /\ rq_ts' = [rq_ts EXCEPT ![c] = now]
                           /\ rq' = [rq EXCEPT !["main"] = c]
     /\ UNCHANGED req_q
  \/ /\ req_q_mtx = "main" /\ rq["main"] # NULL
     /\ req_q' = Append(req_q, rq["main"]) /\ rq'["main"] = NULL
     /\ UNCHANGED rq_ts
  \/ /\ \/ req_q_mtx \in Worker
        \/ pc["req_mgr"] = "scan" /\ pc'["req_mgr"] = "lock_excd"
     /\ req_q # <<>> /\ req_q' = dequeued(req_q)
     /\ UNCHANGED <<rq_ts, rq["main"]>>
  \/ UNCHANGED <<req_q, rq_ts, rq["main"]>>

\* Under mutual exclusion these are the only things that happen to req_q.
LEMMA QueueSteps == Shape /\ MutualExclusion /\ [Next]_vars => QueueStep
<1> SUFFICES ASSUME Shape, MutualExclusion, [Next]_vars PROVE QueueStep
  OBVIOUS
<1> USE DEF sysvars, reqvars, excdvars, histvars
<1>0. /\ {"main", "req_mgr", "excd_mgr"} \cup Worker = Thread /\ Hands
      /\ "main" \notin Worker /\ "req_mgr" \notin Worker /\ "excd_mgr" \notin Worker
      /\ pc \in [Thread -> MainPc \cup WorkerPc \cup ReqMgrPc \cup ExcdMgrPc]
      /\ rq \in [Thread -> Conn \cup {NULL}]
  BY DEF Thread, Shape, Types
<1>1. ASSUME NEW c \in Conn, NEW f \in Fd, Accept(c, f) PROVE QueueStep
  BY <1>1 DEF Accept, QueueStep
<1>2. CASE MainEnqueue
  BY <1>0, <1>2 DEF MainEnqueue, Goto, Hands, MutualExclusion, InReqSection, QueueStep
<1>3. ASSUME NEW w \in Worker, WorkerDequeue(w) PROVE QueueStep
  <2>1. /\ req_q' = dequeued(req_q) /\ UNCHANGED rq_ts /\ rq'["main"] = rq["main"]
        /\ pc[w] = "dequeue"
    BY <1>0, <1>3 DEF WorkerDequeue, Goto
  <2>2. req_q_mtx = w
    BY <1>0, <2>1 DEF MutualExclusion, InReqSection
  <2>3. CASE req_q = <<>>
    BY <2>1, <2>3 DEF QueueStep, dequeued
  <2>4. CASE req_q # <<>>
    BY <1>3, <2>1, <2>2, <2>4 DEF QueueStep
  <2> QED BY <2>3, <2>4
<1>4. CASE ReqMgrExpire
  BY <1>0, <1>4 DEF ReqMgrExpire, Goto, QueueStep, FrontExceeded, get_front
<1>5. ASSUME NEW w \in Worker,
             \/ WorkerSemWait(w) \/ WorkerLock(w) \/ WorkerUnlock(w)
             \/ WorkerRun(w) \/ AppReturn(w) \/ WorkerClose(w) \/ WorkerFree(w)
      PROVE  QueueStep
  BY <1>0, <1>5 DEF WorkerSemWait, WorkerLock, WorkerUnlock, WorkerRun, AppReturn,
       WorkerClose, WorkerFree, CloseFd, FreeRequest, LockReq, UnlockReq, QueueStep
<1>6. ASSUME \/ MainLock \/ MainUnlock \/ MainPost \/ Tick \/ UNCHANGED vars
             \/ ReqMgrWake \/ ReqMgrLock \/ ReqMgrStop \/ ReqMgrLockExcd
             \/ ReqMgrEnqueue \/ ReqMgrUnlockExcd \/ ReqMgrPost \/ ReqMgrUnlock
      PROVE  QueueStep
  BY <1>0, <1>6 DEF MainLock, MainUnlock, MainPost, Tick, ReqMgrWake, ReqMgrLock,
       ReqMgrStop, ReqMgrLockExcd, ReqMgrEnqueue, ReqMgrUnlockExcd, ReqMgrPost,
       ReqMgrUnlock, LockReq, UnlockReq, LockExcd, UnlockExcd, vars, QueueStep
<1>7. ASSUME \/ ExcdMgrSemWait \/ ExcdMgrLock \/ ExcdMgrDequeue \/ ExcdMgrUnlock
             \/ ExcdMgrSend \/ ExcdMgrClose \/ ExcdMgrFree
      PROVE  QueueStep
  BY <1>0, <1>7 DEF ExcdMgrSemWait, ExcdMgrLock, ExcdMgrDequeue, ExcdMgrUnlock,
       ExcdMgrSend, ExcdMgrClose, ExcdMgrFree, CloseFd, FreeRequest, LockExcd,
       UnlockExcd, QueueStep
<1> QED BY Steps, <1>1, <1>2, <1>3, <1>4, <1>5, <1>6, <1>7

\* The main thread appends the youngest request; the others only take the front.
LEMMA OrderNext ==
  Shape /\ MutualExclusion /\ Owned /\ Clock /\ TimeOrder /\ [Next]_vars => TimeOrder'
<1> SUFFICES ASSUME Shape, Owned, Clock, TimeOrder, QueueStep PROVE TimeOrder'
  BY QueueSteps
<1>0. /\ now \in Nat /\ rq_ts \in [Conn -> Nat] /\ req_q \in Seq(Conn) /\ backlog \subseteq Conn
      /\ rq \in [Thread -> Conn \cup {NULL}] /\ "main" \in Thread
  BY DEF Shape, Types, Thread
<1>1. CASE /\ \E c \in backlog : /\ rq_ts' = [rq_ts EXCEPT ![c] = now]
                                 /\ rq' = [rq EXCEPT !["main"] = c]
           /\ UNCHANGED req_q
  <2> PICK c \in backlog : /\ rq_ts' = [rq_ts EXCEPT ![c] = now]
                           /\ rq' = [rq EXCEPT !["main"] = c]
    BY <1>1
  <2>1. ~ In(c, req_q) /\ c \in Conn
    BY <1>0 DEF Owned, HeapExact
  <2>2. \A i \in DOMAIN req_q : req_q[i] \in Conn /\ rq_ts'[req_q[i]] = rq_ts[req_q[i]]
    BY <1>0, <2>1 DEF In
  <2>3. rq'["main"] = c /\ rq_ts'[c] = now
    BY <1>0, <2>1
  <2> QED BY <1>0, <1>1, <2>2, <2>3 DEF TimeOrder, Clock
<1>2. CASE /\ req_q_mtx = "main" /\ rq["main"] # NULL
           /\ req_q' = Append(req_q, rq["main"]) /\ rq'["main"] = NULL
           /\ UNCHANGED rq_ts
  <2>1. /\ DOMAIN req_q' = 1 .. Len(req_q) + 1
        /\ \A i \in DOMAIN req_q' :
             req_q'[i] = IF i = Len(req_q) + 1 THEN rq["main"] ELSE req_q[i]
        /\ DOMAIN req_q = 1 .. Len(req_q) /\ Len(req_q) \in Nat
    BY <1>0, <1>2
  <2>2. rq_ts[rq["main"]] \in Nat
    BY <1>0, <1>2
  <2> QED BY <1>0, <1>2, <2>1, <2>2 DEF TimeOrder
<1>3. CASE /\ req_q # <<>> /\ req_q' = dequeued(req_q)
           /\ UNCHANGED <<rq_ts, rq["main"]>>
  <2>1. \A i \in DOMAIN req_q' : i \in Nat /\ req_q'[i] = req_q[i + 1] /\ i + 1 \in DOMAIN req_q
    BY <1>0, <1>3 DEF dequeued
  <2> QED BY <1>3, <2>1 DEF TimeOrder
<1>4. CASE UNCHANGED <<req_q, rq_ts, rq["main"]>>
  BY <1>4 DEF TimeOrder
<1> QED BY <1>1, <1>2, <1>3, <1>4 DEF QueueStep

\* th_req_queue_mgr stops at the first request that may still wait; the ones
\* behind it are younger.
LEMMA PassNext ==
  Shape /\ MutualExclusion /\ Owned /\ TimeOrder /\ PassComplete /\ [Next]_vars
    => PassComplete'
<1> SUFFICES ASSUME Shape, MutualExclusion, Owned, TimeOrder, PassComplete, [Next]_vars,
                    pc'["req_mgr"] = "unlock"
             PROVE  \A i \in DOMAIN req_q' : ~ (curr_tm' > rq_ts'[req_q'[i]] + limit)
  BY DEF PassComplete, was_waiting_time_exceeded
<1>0. /\ curr_tm \in Nat /\ rq_ts \in [Conn -> Nat] /\ req_q \in Seq(Conn)
      /\ backlog \subseteq Conn /\ limit \in Nat
      /\ pc \in [Thread -> MainPc \cup WorkerPc \cup ReqMgrPc \cup ExcdMgrPc]
      /\ {"main", "req_mgr", "excd_mgr"} \cup Worker = Thread
      /\ "main" \notin Worker /\ "req_mgr" \notin Worker /\ "excd_mgr" \notin Worker
  BY LimitType DEF Shape, Types, Thread
<1>1. CASE ReqMgrStop
  <2>1. UNCHANGED <<curr_tm, rq_ts, req_q>> /\ ~ FrontExceeded
    BY <1>1 DEF ReqMgrStop, sysvars, reqvars
  <2>2. CASE req_q = <<>>
    BY <2>1, <2>2
  <2>3. CASE req_q # <<>>
    <3>1. get_front(req_q) = req_q[1] /\ req_q[1] \in Conn /\ 1 \in DOMAIN req_q
      BY <1>0, <2>3 DEF get_front
    <3>2. ~ (curr_tm > rq_ts[req_q[1]] + limit)
      BY <2>1, <3>1 DEF FrontExceeded, was_waiting_time_exceeded
    <3>3. ASSUME NEW i \in DOMAIN req_q PROVE rq_ts[req_q[1]] =< rq_ts[req_q[i]]
      BY <1>0, <3>1, <3>3 DEF TimeOrder
    <3>4. \A i \in DOMAIN req_q : rq_ts[req_q[i]] \in Nat
      BY <1>0
    <3> QED BY <1>0, <2>1, <3>1, <3>2, <3>3, <3>4
  <2> QED BY <2>2, <2>3
<1>2. CASE ~ ReqMgrStop
  <2>1. pc["req_mgr"] = "unlock" /\ UNCHANGED curr_tm
    <3>1. ASSUME NEW w \in Worker,
                 \/ WorkerSemWait(w) \/ WorkerLock(w) \/ WorkerDequeue(w) \/ WorkerUnlock(w)
                 \/ WorkerRun(w) \/ AppReturn(w) \/ WorkerClose(w) \/ WorkerFree(w)
          PROVE  pc'["req_mgr"] = pc["req_mgr"] /\ UNCHANGED curr_tm
      BY <1>0, <3>1 DEF WorkerSemWait, WorkerLock, WorkerDequeue, WorkerUnlock, WorkerRun,
           AppReturn, WorkerClose, WorkerFree, Goto
    <3>2. ASSUME NEW c \in Conn, NEW f \in Fd, Accept(c, f)
          PROVE  pc'["req_mgr"] = pc["req_mgr"] /\ UNCHANGED curr_tm
      BY <1>0, <3>2 DEF Accept, Goto
    <3>3. ASSUME \/ MainLock \/ MainEnqueue \/ MainUnlock \/ MainPost
                 \/ ExcdMgrSemWait \/ ExcdMgrLock \/ ExcdMgrDequeue \/ ExcdMgrUnlock
                 \/ ExcdMgrSend \/ ExcdMgrClose \/ ExcdMgrFree \/ Tick \/ UNCHANGED vars
          PROVE  pc'["req_mgr"] = pc["req_mgr"] /\ UNCHANGED curr_tm
      BY <1>0, <3>3 DEF MainLock, MainEnqueue, MainUnlock, MainPost, ExcdMgrSemWait,
           ExcdMgrLock, ExcdMgrDequeue, ExcdMgrUnlock, ExcdMgrSend, ExcdMgrClose,
           ExcdMgrFree, Tick, vars, Goto
    <3>4. ASSUME \/ ReqMgrWake \/ ReqMgrLock \/ ReqMgrExpire \/ ReqMgrLockExcd
                 \/ ReqMgrEnqueue \/ ReqMgrUnlockExcd \/ ReqMgrPost \/ ReqMgrUnlock
          PROVE  FALSE
      BY <1>0, <3>4 DEF ReqMgrWake, ReqMgrLock, ReqMgrExpire, ReqMgrLockExcd,
           ReqMgrEnqueue, ReqMgrUnlockExcd, ReqMgrPost, ReqMgrUnlock, Goto
    <3> QED BY <1>2, Steps, <3>1, <3>2, <3>3, <3>4
  <2>2. req_q_mtx = "req_mgr"
    BY <1>0, <2>1 DEF MutualExclusion, InReqSection, ReqMgrPc
  <2>3. QueueStep
    BY QueueSteps
  <2>4. req_q' = req_q /\ \A i \in DOMAIN req_q : rq_ts'[req_q[i]] = rq_ts[req_q[i]]
    <3>1. ASSUME NEW c \in backlog, rq_ts' = [rq_ts EXCEPT ![c] = now], UNCHANGED req_q
          PROVE  \A i \in DOMAIN req_q : rq_ts'[req_q[i]] = rq_ts[req_q[i]]
      <4>1. ~ In(c, req_q) /\ c \in Conn
        BY <1>0 DEF Owned, HeapExact
      <4> QED BY <1>0, <3>1, <4>1 DEF In
    <3> QED BY <1>0, <2>1, <2>2, <2>3, <3>1 DEF QueueStep
  <2> QED BY <2>1, <2>4 DEF PassComplete, was_waiting_time_exceeded
<1> QED BY <1>1, <1>2

\* Only th_req_queue_mgr and th_excd_tm_q_mgr handle a Request that was found
\* over age, and time only grows.
Expelled(c) ==
  c \in denied \/ In(c, excd_tm_q) \/ rq["req_mgr"] = c \/ rq["excd_mgr"] = c

\* A step that finds no new over-age request, or only ones that are over age.
LEMMA ExpelledSame ==
  ASSUME Shape, DeniedWaited, UNCHANGED <<now, rq_ts>>,
         \A c \in Conn : Expelled(c)' => Expelled(c) \/ now > rq_ts[c] + limit
  PROVE  DeniedWaited'
BY DEF DeniedWaited, Expelled

\* A Request reaches excd_tm_q only after th_req_queue_mgr found it over age.
LEMMA DeniedNext ==
  Shape /\ Owned /\ FdBinding /\ Outcomes /\ Clock /\ DeniedWaited /\ [Next]_vars
    => DeniedWaited'
<1> SUFFICES ASSUME Shape, Owned, FdBinding, Outcomes, Clock, DeniedWaited, [Next]_vars
             PROVE  DeniedWaited'
  OBVIOUS
<1>0. /\ now \in Nat /\ curr_tm \in Nat /\ rq_ts \in [Conn -> Nat] /\ limit \in Nat
      /\ req_q \in Seq(Conn) /\ excd_tm_q \in Seq(Conn)
      /\ {"main", "req_mgr", "excd_mgr"} \cup Worker = Thread
      /\ "main" \notin Worker /\ "req_mgr" \notin Worker /\ "excd_mgr" \notin Worker
      /\ rq \in [Thread -> Conn \cup {NULL}] /\ Hands
  BY LimitType DEF Shape, Types, Thread
<1> USE DEF sysvars, reqvars, excdvars, histvars
<1>1. ASSUME NEW c \in Conn, NEW f \in Fd, Accept(c, f) PROVE DeniedWaited'
  <2>1. /\ c \in backlog /\ rq_ts' = [rq_ts EXCEPT ![c] = now]
        /\ rq' = [rq EXCEPT !["main"] = c] /\ UNCHANGED <<now, denied, excd_tm_q>>
    BY <1>1 DEF Accept
  <2>2. ~ Expelled(c)
    BY <1>0, <2>1 DEF Expelled, Owned, HeapExact, Outcomes
  <2>3. \A d \in Conn : Expelled(d)' <=> Expelled(d)
    BY <1>0, <2>1 DEF Expelled
  <2>4. ASSUME NEW d \in Conn, Expelled(d)' PROVE now' > rq_ts'[d] + limit
    <3>1. d # c /\ Expelled(d)
      BY <2>2, <2>3, <2>4
    <3> QED BY <1>0, <2>1, <3>1 DEF DeniedWaited, Expelled
  <2> QED BY <2>4 DEF DeniedWaited, Expelled
<1>2. CASE Tick
  <2>1. /\ now' = now + 1 /\ UNCHANGED <<rq_ts, rq, denied, excd_tm_q>>
    BY <1>2 DEF Tick
  <2>2. ASSUME NEW c \in Conn, Expelled(c) PROVE now + 1 > rq_ts[c] + limit
    BY <1>0, <2>2 DEF DeniedWaited, Expelled
  <2> QED BY <2>1, <2>2 DEF DeniedWaited, Expelled
<1>3. CASE ReqMgrExpire
  <2> DEFINE c == get_front(req_q)
  <2>1. /\ rq' = [rq EXCEPT !["req_mgr"] = c] /\ UNCHANGED <<now, rq_ts, denied, excd_tm_q>>
        /\ c # NULL /\ curr_tm > rq_ts[c] + limit
    BY <1>3 DEF ReqMgrExpire, FrontExceeded, was_waiting_time_exceeded
  <2>2. c \in Conn
    BY <1>0, <2>1 DEF get_front
  <2>3. now > rq_ts[c] + limit
    BY <1>0, <2>1, <2>2 DEF Clock
  <2> HIDE DEF c
  <2>4. \A d \in Conn : Expelled(d)' => Expelled(d) \/ d = c
    BY <1>0, <2>1 DEF Expelled
  <2> QED BY <2>1, <2>3, <2>4, ExpelledSame
<1>4. CASE ReqMgrEnqueue
  <2>1. /\ rq["req_mgr"] \in Conn /\ excd_tm_q' = Append(excd_tm_q, rq["req_mgr"])
        /\ rq' = [rq EXCEPT !["req_mgr"] = NULL] /\ UNCHANGED <<now, rq_ts, denied>>
    BY <1>0, <1>4 DEF ReqMgrEnqueue, Goto, Hands
  <2>2. \A d : In(d, excd_tm_q') <=> In(d, excd_tm_q) \/ d = rq["req_mgr"]
    BY <1>0, <2>1, AppendIn
  <2>3. \A d \in Conn : Expelled(d)' => Expelled(d)
    BY <1>0, <2>1, <2>2 DEF Expelled
  <2> QED BY <2>1, <2>3, ExpelledSame
<1>5. CASE ExcdMgrDequeue
  <2>1. /\ rq' = [rq EXCEPT !["excd_mgr"] = get_front(excd_tm_q)]
        /\ excd_tm_q' = dequeued(excd_tm_q) /\ UNCHANGED <<now, rq_ts, denied>>
    BY <1>5 DEF ExcdMgrDequeue
  <2>2. \A d \in Conn : In(d, excd_tm_q') \/ d = get_front(excd_tm_q) => In(d, excd_tm_q)
    <3>1. CASE excd_tm_q = <<>>
      BY <2>1, <3>1 DEF get_front, dequeued
    <3>2. CASE excd_tm_q # <<>>
      BY <1>0, <2>1, <3>2, TakeFront DEF Owned, OneOwner
    <3> QED BY <3>1, <3>2
  <2>3. \A d \in Conn : Expelled(d)' => Expelled(d)
    BY <1>0, <2>1, <2>2 DEF Expelled
  <2> QED BY <2>1, <2>3, ExpelledSame
<1>6. CASE ExcdMgrSend
  <2>1. /\ pc["excd_mgr"] = "send" /\ denied' = denied \cup {fdtab[rq_fd[rq["excd_mgr"]]]}
        /\ UNCHANGED <<now, rq_ts, rq, excd_tm_q>>
    BY <1>6 DEF ExcdMgrSend, Goto
  <2>2. fdtab[rq_fd[rq["excd_mgr"]]] = rq["excd_mgr"]
    BY <1>0, <2>1, HeldFd DEF Hands
  <2>3. \A d \in Conn : Expelled(d)' => Expelled(d)
    BY <1>0, <2>1, <2>2 DEF Expelled
  <2> QED BY <2>1, <2>3, ExpelledSame
<1>7. CASE ExcdMgrFree
  <2>1. rq' = [rq EXCEPT !["excd_mgr"] = NULL] /\ UNCHANGED <<now, rq_ts, denied, excd_tm_q>>
    BY <1>7 DEF ExcdMgrFree, FreeRequest
  <2>2. \A d \in Conn : Expelled(d)' => Expelled(d)
    BY <1>0, <2>1 DEF Expelled
  <2> QED BY <2>1, <2>2, ExpelledSame
<1>8. CASE UNCHANGED <<now, rq_ts, denied, excd_tm_q, rq["req_mgr"], rq["excd_mgr"]>>
  BY <1>8 DEF DeniedWaited
<1>9. ASSUME NEW w \in Worker,
             \/ WorkerSemWait(w) \/ WorkerLock(w) \/ WorkerDequeue(w) \/ WorkerUnlock(w)
             \/ WorkerRun(w) \/ AppReturn(w) \/ WorkerClose(w) \/ WorkerFree(w)
      PROVE  UNCHANGED <<now, rq_ts, denied, excd_tm_q, rq["req_mgr"], rq["excd_mgr"]>>
  BY <1>0, <1>9 DEF WorkerSemWait, WorkerLock, WorkerDequeue, WorkerUnlock, WorkerRun,
       AppReturn, WorkerClose, WorkerFree, CloseFd, FreeRequest, LockReq, UnlockReq
<1>10. ASSUME \/ MainLock \/ MainEnqueue \/ MainUnlock \/ MainPost
              \/ ReqMgrWake \/ ReqMgrLock \/ ReqMgrStop \/ ReqMgrLockExcd
              \/ ReqMgrUnlockExcd \/ ReqMgrPost \/ ReqMgrUnlock
              \/ ExcdMgrSemWait \/ ExcdMgrLock \/ ExcdMgrUnlock \/ ExcdMgrClose
              \/ UNCHANGED vars
       PROVE  UNCHANGED <<now, rq_ts, denied, excd_tm_q, rq["req_mgr"], rq["excd_mgr"]>>
  BY <1>0, <1>10 DEF MainLock, MainEnqueue, MainUnlock, MainPost, ReqMgrWake, ReqMgrLock,
       ReqMgrStop, ReqMgrLockExcd, ReqMgrUnlockExcd, ReqMgrPost, ReqMgrUnlock,
       ExcdMgrSemWait, ExcdMgrLock, ExcdMgrUnlock, ExcdMgrClose, CloseFd,
       LockReq, UnlockReq, LockExcd, UnlockExcd, vars
<1> QED
  BY Steps, <1>1, <1>2, <1>3, <1>4, <1>5, <1>6, <1>7, <1>8, <1>9, <1>10

\* req_q, the pass of th_req_queue_mgr and the denied requests, together.
LEMMA TimelyInvariant == Spec => [](Inv /\ Timely)
<1>1. Init => Timely
  BY TimelyInit
<1>2. Inv /\ Timely /\ [Next]_vars => Timely'
  BY ClockNext, OrderNext, PassNext, DeniedNext DEF Inv, Timely
<1> QED BY <1>1, <1>2, InvInvariant, PTL DEF Spec

\* req_q is ordered by the time stamps init_request gave, although accept and
\* enqueue are separate steps of the main thread.
THEOREM OrderCorrect == Spec => []TimeOrder
<1>1. Timely => TimeOrder
  BY DEF Timely
<1> QED BY <1>1, TimelyInvariant, PTL

\* A pass of th_req_queue_mgr that looks at the front only leaves no request
\* in req_q that is over age by the clock reading of the pass.
THEOREM PassCorrect == Spec => []PassComplete
<1>1. Timely => PassComplete
  BY DEF Timely
<1> QED BY <1>1, TimelyInvariant, PTL

\* th_excd_tm_q_mgr turns away only connections whose wait exceeded the limit
\* of was_waiting_time_exceeded.
THEOREM DenialCorrect == Spec => []DeniedWaited
<1>1. Timely => DeniedWaited
  BY DEF Timely
<1> QED BY <1>1, TimelyInvariant, PTL

-----------------------------------------------------------------------------
(* ExcdTokens.                                                             *)

\* An enqueue is paid for by the post that follows it, a token taken by the
\* dequeue that follows it.
LEMMA TokensNext == Shape /\ ExcdTokens /\ [Next]_vars => ExcdTokens'
<1> SUFFICES ASSUME Shape, ExcdTokens, [Next]_vars PROVE ExcdTokens'
  OBVIOUS
<1> USE DEF sysvars, reqvars, excdvars, histvars
<1>0. /\ excd_tm_sem \in Nat /\ excd_tm_q \in Seq(Conn) /\ Len(excd_tm_q) \in Nat
      /\ {"main", "req_mgr", "excd_mgr"} \cup Worker = Thread
      /\ "main" \notin Worker /\ "req_mgr" \notin Worker /\ "excd_mgr" \notin Worker
      /\ pc \in [Thread -> MainPc \cup WorkerPc \cup ReqMgrPc \cup ExcdMgrPc]
      /\ rq \in [Thread -> Conn \cup {NULL}] /\ Hands
  BY DEF Shape, Types, Thread
<1>1. CASE ReqMgrEnqueue
  <2>1. /\ rq["req_mgr"] \in Conn /\ excd_tm_q' = Append(excd_tm_q, rq["req_mgr"])
        /\ pc["req_mgr"] = "enqueue" /\ pc' = [pc EXCEPT !["req_mgr"] = "unlock_excd"]
        /\ rq' = [rq EXCEPT !["req_mgr"] = NULL] /\ UNCHANGED excd_tm_sem
    BY <1>0, <1>1 DEF ReqMgrEnqueue, Goto, Hands
  <2>2. Len(excd_tm_q') = Len(excd_tm_q) + 1
    BY <1>0, <2>1
  <2> QED BY <1>0, <2>1, <2>2 DEF ExcdTokens, Coming
<1>2. CASE ReqMgrPost
  BY <1>0, <1>2 DEF ReqMgrPost, Goto, ExcdTokens, Coming
<1>3. CASE ExcdMgrSemWait
  BY <1>0, <1>3 DEF ExcdMgrSemWait, Goto, ExcdTokens, Coming
<1>4. CASE ExcdMgrDequeue
  <2>1. /\ pc["excd_mgr"] = "dequeue" /\ pc' = [pc EXCEPT !["excd_mgr"] = "unlock"]
        /\ rq' = [rq EXCEPT !["excd_mgr"] = get_front(excd_tm_q)]
        /\ excd_tm_q' = dequeued(excd_tm_q) /\ UNCHANGED excd_tm_sem
    BY <1>4 DEF ExcdMgrDequeue, Goto
  <2>2. Len(excd_tm_q) >= 1
    BY <1>0, <2>1 DEF ExcdTokens, Coming
  <2>3. /\ excd_tm_q # <<>> /\ get_front(excd_tm_q) \in Conn
        /\ Len(excd_tm_q') = Len(excd_tm_q) - 1
    BY <1>0, <2>1, <2>2 DEF get_front, dequeued
  <2>4. rq'["excd_mgr"] # NULL
    BY <1>0, <2>1, <2>3
  <2> QED BY <1>0, <2>1, <2>3, <2>4 DEF ExcdTokens, Coming
<1>5. CASE ExcdMgrLock \/ ExcdMgrUnlock \/ ExcdMgrSend \/ ExcdMgrClose \/ ExcdMgrFree
  BY <1>0, <1>5 DEF ExcdMgrLock, ExcdMgrUnlock, ExcdMgrSend, ExcdMgrClose, ExcdMgrFree,
       CloseFd, FreeRequest, LockExcd, UnlockExcd, Goto, ExcdTokens, Coming
<1>6. CASE \/ ReqMgrWake \/ ReqMgrLock \/ ReqMgrExpire \/ ReqMgrStop \/ ReqMgrLockExcd
           \/ ReqMgrUnlockExcd \/ ReqMgrUnlock
  BY <1>0, <1>6 DEF ReqMgrWake, ReqMgrLock, ReqMgrExpire, ReqMgrStop, ReqMgrLockExcd,
       ReqMgrUnlockExcd, ReqMgrUnlock, LockReq, UnlockReq, LockExcd, UnlockExcd, Goto,
       ExcdTokens, Coming
<1> DEFINE Same == UNCHANGED <<excd_tm_q, excd_tm_sem, pc["excd_mgr"], pc["req_mgr"],
                               rq["excd_mgr"]>>
<1>7. CASE Same
  BY <1>7 DEF ExcdTokens, Coming
<1>8. ASSUME NEW w \in Worker,
             \/ WorkerSemWait(w) \/ WorkerLock(w) \/ WorkerDequeue(w) \/ WorkerUnlock(w)
             \/ WorkerRun(w) \/ AppReturn(w) \/ WorkerClose(w) \/ WorkerFree(w)
      PROVE  Same
  BY <1>0, <1>8 DEF WorkerSemWait, WorkerLock, WorkerDequeue, WorkerUnlock, WorkerRun,
       AppReturn, WorkerClose, WorkerFree, CloseFd, FreeRequest, LockReq, UnlockReq, Goto
<1>9. ASSUME \/ \E c \in Conn, f \in Fd : Accept(c, f)
             \/ MainLock \/ MainEnqueue \/ MainUnlock \/ MainPost \/ Tick \/ UNCHANGED vars
      PROVE  Same
  BY <1>0, <1>9 DEF Accept, MainLock, MainEnqueue, MainUnlock, MainPost, Tick, vars,
       LockReq, UnlockReq, Goto
<1> HIDE DEF Same
<1> QED
  BY Steps, <1>1, <1>2, <1>3, <1>4, <1>5, <1>6, <1>7, <1>8, <1>9

\* excd_tm_sem counts the over-age requests exactly, whatever the number of
\* connections: th_excd_tm_q_mgr never wakes in vain and misses none.
THEOREM TokensCorrect == Spec => []ExcdTokens
<1>1. Init => ExcdTokens
  BY DEF Init, ExcdTokens, Coming, Thread
<1>2. Inv /\ ExcdTokens /\ [Next]_vars => ExcdTokens'
  BY TokensNext DEF Inv
<1> QED BY <1>1, <1>2, InvInvariant, PTL DEF Spec

-----------------------------------------------------------------------------
(* NoLostWakeup.                                                           *)

\* The workers that took a token and did not dequeue yet are finitely many.
LEMMA WokenFinite == IsFiniteSet(Woken) /\ Cardinality(Woken) \in Nat
<1>1. Woken \subseteq Worker
  BY DEF Woken
<1>2. IsFiniteSet(Woken)
  BY <1>1, FS_Subset
<1> QED BY <1>2, FS_CardinalityType

\* Each step that lengthens req_q owes a token, each token taken is paid back
\* by a dequeue.
LEMMA WakeupNext == Shape /\ NoLostWakeup /\ [Next]_vars => NoLostWakeup'
<1> SUFFICES ASSUME Shape, NoLostWakeup, [Next]_vars PROVE NoLostWakeup'
  OBVIOUS
<1> USE DEF sysvars, reqvars, excdvars, histvars
<1>0. /\ req_q_sem \in Nat /\ req_q \in Seq(Conn) /\ Len(req_q) \in Nat
      /\ {"main", "req_mgr", "excd_mgr"} \cup Worker = Thread
      /\ "main" \notin Worker /\ "req_mgr" \notin Worker /\ "excd_mgr" \notin Worker
      /\ pc \in [Thread -> MainPc \cup WorkerPc \cup ReqMgrPc \cup ExcdMgrPc]
      /\ rq \in [Thread -> Conn \cup {NULL}] /\ Hands
      /\ IsFiniteSet(Woken) /\ Cardinality(Woken) \in Nat
  BY WokenFinite DEF Shape, Types, Thread
<1> DEFINE Main == Coming(pc["main"] \in {"unlock", "post"})
<1>1. CASE MainEnqueue
  <2>1. /\ rq["main"] \in Conn /\ req_q' = Append(req_q, rq["main"])
        /\ pc["main"] = "enqueue" /\ pc' = [pc EXCEPT !["main"] = "unlock"]
        /\ UNCHANGED req_q_sem
    BY <1>0, <1>1 DEF MainEnqueue, Goto, Hands
  <2>2. Woken' = Woken /\ Len(req_q') = Len(req_q) + 1
    BY <1>0, <2>1 DEF Woken
  <2>3. Main = 0 /\ Main' = 1
    BY <1>0, <2>1 DEF Coming
  <2> QED BY <1>0, <2>1, <2>2, <2>3 DEF NoLostWakeup
<1>2. CASE MainPost
  <2>1. /\ pc["main"] = "post" /\ pc' = [pc EXCEPT !["main"] = "accept"]
        /\ req_q_sem' = req_q_sem + 1 /\ UNCHANGED req_q
    BY <1>2 DEF MainPost, Goto
  <2>2. Woken' = Woken
    BY <1>0, <2>1 DEF Woken
  <2>3. Main = 1 /\ Main' = 0
    BY <1>0, <2>1 DEF Coming
  <2> QED BY <1>0, <2>1, <2>2, <2>3 DEF NoLostWakeup
<1>3. ASSUME NEW w \in Worker, WorkerSemWait(w) PROVE NoLostWakeup'
  <2>1. /\ pc[w] = "sem_wait" /\ pc' = [pc EXCEPT ![w] = "lock"]
        /\ req_q_sem > 0 /\ req_q_sem' = req_q_sem - 1 /\ UNCHANGED req_q
    BY <1>3 DEF WorkerSemWait, Goto
  <2>2. w \notin Woken /\ Woken' = Woken \cup {w}
    BY <1>0, <1>3, <2>1 DEF Woken
  <2>3. Cardinality(Woken') = Cardinality(Woken) + 1
    BY <1>0, <2>2, FS_AddElement
  <2>4. Main' = Main /\ Main \in Nat
    BY <1>0, <1>3, <2>1 DEF Coming
  <2> QED BY <1>0, <2>1, <2>3, <2>4 DEF NoLostWakeup
<1>4. ASSUME NEW w \in Worker, WorkerDequeue(w) PROVE NoLostWakeup'
  <2>1. /\ pc[w] = "dequeue" /\ pc' = [pc EXCEPT ![w] = "unlock"]
        /\ req_q' = dequeued(req_q) /\ UNCHANGED req_q_sem
    BY <1>4 DEF WorkerDequeue, Goto
  <2>2. w \in Woken /\ Woken' = Woken \ {w}
    BY <1>0, <1>4, <2>1 DEF Woken
  <2>3. Cardinality(Woken') = Cardinality(Woken) - 1
    BY <1>0, <2>2, FS_RemoveElement
  <2>4. Main' = Main /\ Main \in Nat
    BY <1>0, <1>4, <2>1 DEF Coming
  <2>5. CASE req_q = <<>>
    <3>1. Len(req_q') = 0 /\ Cardinality(Woken) >= 1
      <4>1. Cardinality(Woken') \in Nat
        BY <1>0, <2>2, FS_RemoveElement, FS_CardinalityType
      <4> QED BY <1>0, <2>1, <2>3, <2>5, <4>1 DEF dequeued
    <3> QED BY <1>0, <2>1, <2>3, <2>4, <3>1 DEF NoLostWakeup
  <2>6. CASE req_q # <<>>
    <3>1. Len(req_q') = Len(req_q) - 1
      BY <1>0, <2>1, <2>6 DEF dequeued
    <3> QED BY <1>0, <2>1, <2>3, <2>4, <3>1 DEF NoLostWakeup
  <2> QED BY <2>5, <2>6
<1>5. CASE ReqMgrExpire
  <2>1. /\ req_q # <<>> /\ req_q' = dequeued(req_q) /\ UNCHANGED req_q_sem
        /\ pc' = [pc EXCEPT !["req_mgr"] = "lock_excd"]
    BY <1>5 DEF ReqMgrExpire, Goto, FrontExceeded, get_front
  <2>2. Woken' = Woken /\ Main' = Main /\ Main \in Nat
    BY <1>0, <2>1 DEF Woken, Coming
  <2>3. Len(req_q') = Len(req_q) - 1
    BY <1>0, <2>1 DEF dequeued
  <2> QED BY <1>0, <2>1, <2>2, <2>3 DEF NoLostWakeup
<1> DEFINE Same == UNCHANGED <<req_q, req_q_sem>> /\ Woken' = Woken /\ Main' = Main
<1>6. CASE Same
  BY <1>6 DEF NoLostWakeup
<1>7. ASSUME NEW w \in Worker,
             \/ WorkerLock(w) \/ WorkerUnlock(w)
             \/ WorkerRun(w) \/ AppReturn(w) \/ WorkerClose(w) \/ WorkerFree(w)
      PROVE  Same
  BY <1>0, <1>7 DEF WorkerLock, WorkerUnlock, WorkerRun,
       AppReturn, WorkerClose, WorkerFree, CloseFd, FreeRequest, LockReq, UnlockReq, Goto,
       Woken, Coming
<1>8. ASSUME \/ \E c \in Conn, f \in Fd : Accept(c, f)
             \/ MainLock \/ MainUnlock \/ Tick \/ UNCHANGED vars
      PROVE  Same
  BY <1>0, <1>8 DEF Accept, MainLock, MainUnlock, Tick, vars,
       LockReq, UnlockReq, Goto, Woken, Coming
<1>9. ASSUME \/ ReqMgrWake \/ ReqMgrLock \/ ReqMgrStop \/ ReqMgrLockExcd
             \/ ReqMgrEnqueue \/ ReqMgrUnlockExcd \/ ReqMgrPost \/ ReqMgrUnlock
             \/ ExcdMgrSemWait \/ ExcdMgrLock \/ ExcdMgrDequeue \/ ExcdMgrUnlock
             \/ ExcdMgrSend \/ ExcdMgrClose \/ ExcdMgrFree
      PROVE  Same
  BY <1>0, <1>9 DEF ReqMgrWake, ReqMgrLock, ReqMgrStop, ReqMgrLockExcd, ReqMgrEnqueue,
       ReqMgrUnlockExcd, ReqMgrPost, ReqMgrUnlock, ExcdMgrSemWait, ExcdMgrLock,
       ExcdMgrDequeue, ExcdMgrUnlock, ExcdMgrSend, ExcdMgrClose, ExcdMgrFree, CloseFd,
       FreeRequest, LockReq, UnlockReq, LockExcd, UnlockExcd, Goto, Woken, Coming
<1> HIDE DEF Same
<1> QED BY Steps, <1>1, <1>2, <1>3, <1>4, <1>5, <1>6, <1>7, <1>8, <1>9

\* No request waits in req_q without a token, a woken worker or a post to
\* come that covers it, although th_req_queue_mgr takes requests out of req_q
\* and leaves their tokens behind.
THEOREM WakeupCorrect == Spec => []NoLostWakeup
<1>1. Init => NoLostWakeup
  <2> SUFFICES ASSUME Init PROVE NoLostWakeup
    OBVIOUS
  <2>1. Len(req_q) = 0 /\ req_q_sem = 0 /\ Coming(pc["main"] \in {"unlock", "post"}) \in Nat
    BY DEF Init, Coming
  <2> QED BY <2>1, WokenFinite DEF NoLostWakeup
<1>2. Inv /\ NoLostWakeup /\ [Next]_vars => NoLostWakeup'
  BY WakeupNext DEF Inv
<1> QED BY <1>1, <1>2, InvInvariant, PTL DEF Spec

-----------------------------------------------------------------------------
(* The refinement.  Every step of a thread is a step of the one waiting    *)
(* line of Admission.tla, or does not show there.  The phase of a          *)
(* connection depends on where its Request is and on the descriptor table, *)
(* so the proof needs both: that a Request is in one place (Owned) and     *)
(* that descriptors belong to Requests (FdBinding).                        *)

Serving(c) == \E w \in Worker : rq[w] = c

-----------------------------------------------------------------------------
(* phase, from where a connection is.                                      *)

\* What Inv says of a connection: it is in one place.
Placed(c) ==
  /\ c \in backlog => ~ Open(c) /\ rq["main"] # c /\ ~ In(c, req_q) /\ ~ Serving(c)
  /\ rq["main"] = c => ~ In(c, req_q) /\ ~ Serving(c)
  /\ In(c, req_q) => ~ Serving(c)

Places == \A c \in Conn : Placed(c)

\* A Request is in one place, and a descriptor belongs to a Request.
LEMMA InvPlaces == Inv => Places
<1> SUFFICES ASSUME Inv, NEW c \in Conn PROVE Placed(c)
  BY DEF Places
<1>0. \A w \in Worker : w \in Thread /\ w # "main"
  BY DEF Thread
<1>1. "main" \in Thread /\ c # NULL
  BY DEF Thread
<1>2. c \in backlog => c \notin heap
  BY DEF Inv, Owned
<1>3. Open(c) => c \in heap
  BY <1>1 DEF Inv, FdBinding, Open
<1>4. rq["main"] = c \/ In(c, req_q) \/ Serving(c) => c \in heap
  BY <1>0, <1>1 DEF Inv, Owned, HeapExact, Serving
<1>5. rq["main"] = c => ~ In(c, req_q) /\ ~ Serving(c)
  BY <1>0, <1>1 DEF Inv, Owned, OneOwner, Serving
<1>6. In(c, req_q) => ~ Serving(c)
  BY <1>0, <1>1 DEF Inv, Owned, OneOwner, Serving
<1> QED BY <1>2, <1>3, <1>4, <1>5, <1>6 DEF Placed

\* The value of phase, from its arguments.
PhaseOf(new, open, accepted, waiting, serving) ==
  IF new THEN "new"
  ELSE IF ~ open THEN "closed"
  ELSE IF accepted THEN "accepted"
  ELSE IF waiting THEN "waiting"
  ELSE IF serving THEN "serving" ELSE "denied"

\* A connection that is nowhere else is in the hands of the denial path.
LEMMA PhaseIs ==
  ASSUME NEW c \in Conn, Placed(c)
  PROVE  phase[c] = PhaseOf(c \in backlog, Open(c), rq["main"] = c, In(c, req_q), Serving(c))
BY DEF phase, PhaseOf, Serving, Placed

\* The same in the next state.
LEMMA PhaseWillBe ==
  ASSUME NEW c \in Conn, Placed(c)'
  PROVE  phase'[c] = PhaseOf(c \in backlog', Open(c)', rq'["main"] = c, In(c, req_q'), Serving(c)')
BY DEF phase, PhaseOf, Serving, Placed, In

\* A connection none of whose whereabouts change keeps its phase.
LEMMA PhaseSame ==
  ASSUME NEW c \in Conn, Placed(c), Placed(c)',
         c \in backlog' <=> c \in backlog, Open(c)' <=> Open(c),
         Open(c) => /\ rq'["main"] = c <=> rq["main"] = c
                    /\ In(c, req_q') <=> In(c, req_q)
                    /\ Serving(c)' <=> Serving(c)
  PROVE  phase'[c] = phase[c]
BY PhaseIs, PhaseWillBe DEF PhaseOf

\* A connection of which only the phase changes, and that makes the move.
LEMMA PhaseMoves ==
  ASSUME NEW c \in Conn, NEW from, NEW to, phase[c] = from, phase'[c] = to,
         \A d \in Conn \ {c} : phase'[d] = phase[d]
  PROVE  Adm!Move(c, from, to)
<1>1. phase' = [d \in Conn |-> phase'[d]] /\ phase = [d \in Conn |-> phase[d]]
  BY DEF phase
<1>2. phase' = [phase EXCEPT ![c] = to]
  BY <1>1
<1> QED BY <1>2 DEF Adm!Move

\* If no connection changes its phase, phase does not change.
LEMMA PhaseStays ==
  ASSUME \A c \in Conn : phase'[c] = phase[c]
  PROVE  UNCHANGED phase
<1>1. phase' = [d \in Conn |-> phase'[d]] /\ phase = [d \in Conn |-> phase[d]]
  BY DEF phase
<1> QED BY <1>1

-----------------------------------------------------------------------------
(* The steps that show.                                                    *)

\* accept_client and init_request.
LEMMA AcceptShows ==
  ASSUME Inv, Places, Places', NEW c \in Conn, NEW f \in Fd, Accept(c, f)
  PROVE  Adm!Accept(c)
<1>1. /\ pc["main"] = "accept" /\ c \in backlog /\ fdtab[f] = NULL
      /\ backlog' = backlog \ {c} /\ fdtab' = [fdtab EXCEPT ![f] = c]
      /\ rq_ts' = [rq_ts EXCEPT ![c] = now] /\ rq' = [rq EXCEPT !["main"] = c]
      /\ UNCHANGED <<now, req_q>>
  BY DEF Accept, Goto, reqvars
<1>2. /\ fdtab \in [Fd -> Conn \cup {NULL}] /\ rq \in [Thread -> Conn \cup {NULL}]
      /\ rq["main"] = NULL
  BY <1>1 DEF Inv, Shape, Types, Hands
<1>3. rq'["main"] = c /\ \A w \in Worker : rq'[w] = rq[w]
  BY <1>1, <1>2 DEF Thread
<1>4. \A d \in Conn : Placed(d) /\ Placed(d)'
  BY DEF Places
<1>5. \A d \in Conn \ {c} : Open(d)' <=> Open(d)
  BY <1>1, <1>2 DEF Open
<1>6. ASSUME NEW d \in Conn \ {c} PROVE phase'[d] = phase[d]
  <2>1. d \in backlog' <=> d \in backlog
    BY <1>1
  <2>2. /\ rq'["main"] = d <=> rq["main"] = d
        /\ In(d, req_q') <=> In(d, req_q)
        /\ Serving(d)' <=> Serving(d)
    BY <1>1, <1>2, <1>3 DEF Serving
  <2> QED BY <1>4, <1>5, <2>1, <2>2, PhaseSame
<1>7. phase[c] = "new"
  BY <1>1, <1>4, PhaseIs DEF PhaseOf
<1>8. phase'[c] = "accepted"
  <2>1. Open(c)' /\ c \notin backlog'
    BY <1>1, <1>2 DEF Open
  <2> QED BY <1>3, <1>4, <2>1, PhaseWillBe DEF PhaseOf
<1>9. Adm!Move(c, "new", "accepted")
  BY <1>6, <1>7, <1>8, PhaseMoves
<1> QED BY <1>1, <1>9 DEF Adm!Accept

\* The main thread's enqueue.
LEMMA EnqueueShows ==
  ASSUME Inv, Places, Places', MainEnqueue
  PROVE  rq["main"] \in Conn /\ Adm!Join(rq["main"])
<1> DEFINE c == rq["main"]
<1>1. /\ pc["main"] = "enqueue" /\ req_q' = Append(req_q, c)
      /\ rq' = [rq EXCEPT !["main"] = NULL]
      /\ UNCHANGED <<now, backlog, fdtab, rq_ts>>
  BY DEF MainEnqueue, Goto, sysvars
<1>2. /\ rq \in [Thread -> Conn \cup {NULL}] /\ c \in Conn /\ req_q \in Seq(Conn)
      /\ "main" \in Thread
  BY <1>1 DEF Inv, Shape, Types, Hands, Thread
<1>3. Open(c) /\ c \notin backlog
  <2>1. c \in heap /\ ~ Closed(c)
    BY <1>1, <1>2 DEF Inv, Owned, OneOwner, HeapExact, Closed
  <2> QED BY <2>1, <1>2 DEF Inv, Owned, FdBinding, Open
<1>4. \A d \in Conn : Placed(d) /\ Placed(d)'
  BY DEF Places
<1>5. rq'["main"] = NULL /\ \A w \in Worker : rq'[w] = rq[w]
  BY <1>1, <1>2 DEF Thread
<1>6. \A d : In(d, req_q') <=> In(d, req_q) \/ d = c
  BY <1>1, <1>2, AppendIn
<1>7. \A d \in Conn : (Open(d)' <=> Open(d)) /\ (Serving(d)' <=> Serving(d))
  BY <1>1, <1>5 DEF Open, Serving
<1>8. ASSUME NEW d \in Conn \ {c} PROVE phase'[d] = phase[d]
  <2>1. rq'["main"] = d <=> rq["main"] = d
    BY <1>5
  <2> QED BY <1>1, <1>4, <1>6, <1>7, <2>1, PhaseSame
<1>9. phase[c] = "accepted"
  BY <1>2, <1>3, <1>4, PhaseIs DEF PhaseOf
<1>10. phase'[c] = "waiting"
  BY <1>1, <1>2, <1>3, <1>4, <1>5, <1>6, <1>7, PhaseWillBe DEF PhaseOf
<1>11. Adm!Move(c, "accepted", "waiting")
  <2> HIDE DEF c
  <2> QED BY <1>2, <1>8, <1>9, <1>10, PhaseMoves
<1> QED BY <1>1, <1>2, <1>11 DEF Adm!Join

\* The front of the waiting line leaves it, into the hands of thread t.
LEMMA TakenFromLine ==
  ASSUME Inv, Places, Places', NEW t \in Thread, t # "main", rq[t] = NULL, req_q # <<>>,
         rq' = [rq EXCEPT ![t] = get_front(req_q)], req_q' = dequeued(req_q),
         UNCHANGED <<backlog, fdtab>>
  PROVE  /\ Head(req_q) \in Conn /\ req_q' = Tail(req_q)
         /\ Adm!Move(Head(req_q), "waiting", IF t \in Worker THEN "serving" ELSE "denied")
<1>0. PICK c : c = Head(req_q)
  OBVIOUS
<1>1. rq \in [Thread -> Conn \cup {NULL}] /\ req_q \in Seq(Conn)
  BY DEF Inv, Shape, Types
<1>2. /\ c = get_front(req_q) /\ c \in Conn /\ In(c, req_q) /\ req_q' = Tail(req_q)
      /\ \A d : In(d, req_q') <=> In(d, req_q) /\ d # c
  <2>1. Distinct(req_q)
    BY DEF Inv, Owned, OneOwner
  <2> QED BY <1>0, <1>1, <2>1, TakeFront DEF get_front, dequeued
<1>3. Open(c) /\ c \notin backlog /\ ~ Serving(c) /\ rq["main"] # c
  <2>1. c \in heap /\ ~ Closed(c)
    BY <1>1, <1>2 DEF Inv, Owned, OneOwner, HeapExact, Closed
  <2>2. Placed(c)
    BY <1>2 DEF Places
  <2> QED BY <2>1, <2>2, <1>2 DEF Inv, Owned, FdBinding, Open, Placed
<1>4. \A d \in Conn : Placed(d) /\ Placed(d)'
  BY DEF Places
<1>5. rq'[t] = c /\ \A u \in Thread \ {t} : rq'[u] = rq[u]
  BY <1>1, <1>2
<1>6. "main" \in Thread /\ \A w \in Worker : w \in Thread /\ w # "main"
  BY DEF Thread
<1>7. \A d \in Conn : Open(d)' <=> Open(d)
  BY DEF Open
<1>8. ASSUME NEW d \in Conn \ {c} PROVE phase'[d] = phase[d]
  <2>1. Serving(d)' <=> Serving(d)
    BY <1>5, <1>6 DEF Serving
  <2>2. rq'["main"] = d <=> rq["main"] = d
    BY <1>5, <1>6
  <2> QED BY <1>2, <1>4, <1>7, <2>1, <2>2, PhaseSame
<1>9. phase[c] = "waiting"
  BY <1>2, <1>3, <1>4, PhaseIs DEF PhaseOf
<1>10. phase'[c] = IF t \in Worker THEN "serving" ELSE "denied"
  <2>1. Serving(c)' <=> t \in Worker
    BY <1>3, <1>5, <1>6 DEF Serving
  <2> QED BY <1>2, <1>3, <1>4, <1>5, <1>6, <1>7, <2>1, PhaseWillBe DEF PhaseOf
<1>11. Adm!Move(c, "waiting", IF t \in Worker THEN "serving" ELSE "denied")
  BY <1>2, <1>8, <1>9, <1>10, PhaseMoves
<1> QED BY <1>0, <1>2, <1>11

\* close(rq->fd), by a worker or by th_excd_tm_q_mgr.
LEMMA CloseShows ==
  ASSUME Inv, Places, Places', NEW t \in Thread \ {"main", "req_mgr"}, pc[t] = "close",
         CloseFd(t), UNCHANGED <<req_q, rq>>
  PROVE  rq[t] \in Conn /\ Adm!Close(rq[t])
<1>0. PICK c : c = rq[t]
  OBVIOUS
<1>1. rq[t] # NULL
  BY DEF Inv, Shape, Hands, Thread
<1>2. c \in heap /\ c \in Conn /\ fdtab[rq_fd[c]] = c
  BY <1>0, <1>1, HeldFd DEF Inv
<1>3. /\ fdtab \in [Fd -> Conn \cup {NULL}] /\ rq \in [Thread -> Conn \cup {NULL}]
      /\ "main" \in Thread
  BY DEF Inv, Shape, Types, Thread
<1>4. rq_fd[c] \in Fd /\ \A f \in Fd : fdtab[f] = c => f = rq_fd[c]
  <2>1. ~ Closed(c)
    BY <1>0, <1>1, <1>2 DEF Inv, Owned, OneOwner, Closed
  <2> QED BY <2>1, <1>2 DEF Inv, FdBinding
<1>5. fdtab' = [fdtab EXCEPT ![rq_fd[c]] = NULL] /\ UNCHANGED <<now, backlog, rq_ts>>
  BY <1>0 DEF CloseFd
<1>6. \A d \in Conn : Placed(d) /\ Placed(d)'
  BY DEF Places
<1>7. Open(c) /\ ~ Open(c)' /\ \A d \in Conn \ {c} : Open(d)' <=> Open(d)
  BY <1>2, <1>3, <1>4, <1>5 DEF Open
<1>8. c \notin backlog /\ rq["main"] # c /\ ~ In(c, req_q)
  BY <1>0, <1>1, <1>2, <1>3 DEF Inv, Owned, OneOwner
<1>9. ASSUME NEW d \in Conn \ {c} PROVE phase'[d] = phase[d]
  <2>1. Serving(d)' <=> Serving(d)
    BY DEF Serving
  <2> QED BY <1>5, <1>6, <1>7, <2>1, PhaseSame
<1>10. phase[c] = "serving" \/ phase[c] = "denied"
  BY <1>2, <1>6, <1>7, <1>8, PhaseIs DEF PhaseOf
<1>11. phase'[c] = "closed"
  BY <1>2, <1>5, <1>6, <1>7, <1>8, PhaseWillBe DEF PhaseOf
<1>12. Adm!Move(c, "serving", "closed") \/ Adm!Move(c, "denied", "closed")
  BY <1>2, <1>9, <1>10, <1>11, PhaseMoves
<1> QED BY <1>0, <1>2, <1>5, <1>12 DEF Adm!Close

-----------------------------------------------------------------------------
(* The steps that do not show.                                             *)

\* What a thread holds behind the waiting line is of no matter: a Request on
\* its way through the denial path, and one that is about to be freed.
LEMMA HandsHidden ==
  ASSUME Inv, Places, Places', NEW t \in Thread \ {"main"},
         NEW r, rq' = [rq EXCEPT ![t] = r], UNCHANGED <<now, backlog, fdtab, rq_ts, req_q>>,
         t \in Worker => pc[t] = "free" /\ r = NULL
  PROVE  UNCHANGED Adm!vars
<1>1. rq \in [Thread -> Conn \cup {NULL}] /\ "main" \in Thread /\ Worker \subseteq Thread
  BY DEF Inv, Shape, Types, Thread
<1>2. rq'[t] = r /\ \A u \in Thread \ {t} : rq'[u] = rq[u]
  BY <1>1
<1>3. \A d \in Conn : Placed(d) /\ Placed(d)' /\ (Open(d)' <=> Open(d))
  BY DEF Places, Open
<1>4. ASSUME NEW d \in Conn, Open(d) PROVE Serving(d)' <=> Serving(d)
  <2>1. CASE t \notin Worker
    BY <1>1, <1>2, <2>1 DEF Serving
  <2>2. CASE t \in Worker
    <3>1. rq[t] # d
      <4>1. rq[t] = d => Closed(d)
        BY <2>2 DEF Closed
      <4>2. ~ Closed(d)
        BY <1>4 DEF Inv, FdBinding, Open
      <4> QED BY <4>1, <4>2
    <3>2. rq'[t] # d
      BY <1>2, <2>2
    <3> QED BY <1>1, <1>2, <3>1, <3>2 DEF Serving
  <2> QED BY <2>1, <2>2
<1>5. ASSUME NEW d \in Conn PROVE phase'[d] = phase[d]
  <2>1. rq'["main"] = d <=> rq["main"] = d
    BY <1>1, <1>2
  <2> QED BY <1>3, <1>4, <2>1, PhaseSame
<1>6. UNCHANGED phase
  BY <1>5, PhaseStays
<1> QED BY <1>6 DEF Adm!vars

\* Locks, semaphores, sends and the application do not show at all.
LEMMA NothingShows ==
  ASSUME Places, Places', UNCHANGED <<now, backlog, fdtab, rq_ts, req_q, rq>>
  PROVE  UNCHANGED Adm!vars
<1>1. \A d \in Conn : /\ Placed(d) /\ Placed(d)' /\ (Open(d)' <=> Open(d))
                      /\ Serving(d)' <=> Serving(d)
  BY DEF Places, Open, Serving
<1>2. \A d \in Conn : phase'[d] = phase[d]
  BY <1>1, PhaseSame
<1> QED BY <1>2, PhaseStays DEF Adm!vars

-----------------------------------------------------------------------------
\* Every step of a thread is a step of Admission or leaves it as it is.
LEMMA StepShows ==
  ASSUME Inv, Timely, Places, Places', [Next]_vars
  PROVE  [Adm!Next]_(Adm!vars)
<1> USE DEF sysvars, reqvars, excdvars, histvars, Goto
<1>0. /\ "req_mgr" \in Thread /\ "excd_mgr" \in Thread /\ Worker \subseteq Thread
      /\ {"main", "req_mgr", "excd_mgr"} \cap Worker = {}
  BY DEF Thread
<1>1. ASSUME NEW c \in Conn, NEW f \in Fd, Accept(c, f) PROVE Adm!Next
  BY <1>1, AcceptShows DEF Adm!Next
<1>2. CASE MainEnqueue
  BY <1>2, EnqueueShows DEF Adm!Next
<1>3. ASSUME NEW w \in Worker, WorkerDequeue(w) PROVE Adm!Next \/ UNCHANGED Adm!vars
  <2>1. rq \in [Thread -> Conn \cup {NULL}] /\ rq[w] = NULL /\ w # "main"
    BY <1>0, <1>3 DEF WorkerDequeue, Inv, Shape, Types, Hands
  <2>2. /\ rq' = [rq EXCEPT ![w] = get_front(req_q)] /\ req_q' = dequeued(req_q)
        /\ UNCHANGED <<now, backlog, fdtab, rq_ts>>
    BY <1>3 DEF WorkerDequeue
  <2>3. CASE req_q # <<>>
    <3>1. Adm!Move(Head(req_q), "waiting", "serving") /\ req_q' = Tail(req_q)
      BY <1>0, <2>1, <2>2, <2>3, TakenFromLine
    <3> QED BY <2>2, <2>3, <3>1 DEF Adm!Next, Adm!Serve
  <2>4. CASE req_q = <<>>
    <3>1. UNCHANGED <<rq, req_q>>
      BY <1>0, <2>1, <2>2, <2>4 DEF get_front, dequeued
    <3> QED BY <2>2, <3>1, NothingShows
  <2> QED BY <2>3, <2>4
<1>4. CASE ReqMgrExpire
  <2>1. /\ rq["req_mgr"] = NULL /\ rq_ts \in [Conn -> Nat] /\ now \in Nat /\ curr_tm \in Nat
        /\ curr_tm =< now /\ req_q # <<>>
    BY <1>4 DEF ReqMgrExpire, FrontExceeded, get_front, Inv, Shape, Types, Hands, Timely, Clock
  <2>2. /\ rq' = [rq EXCEPT !["req_mgr"] = get_front(req_q)] /\ req_q' = dequeued(req_q)
        /\ UNCHANGED <<now, backlog, fdtab, rq_ts>>
    BY <1>4 DEF ReqMgrExpire
  <2>3. /\ Head(req_q) \in Conn /\ req_q' = Tail(req_q)
        /\ Adm!Move(Head(req_q), "waiting", "denied")
    BY <1>0, <2>1, <2>2, TakenFromLine
  <2>4. now > rq_ts[Head(req_q)] + limit
    BY <1>4, <2>1, <2>3, LimitType
      DEF ReqMgrExpire, FrontExceeded, get_front, was_waiting_time_exceeded
  <2> QED BY <2>1, <2>2, <2>3, <2>4 DEF Adm!Next, Adm!Deny
<1>5. ASSUME NEW w \in Worker, WorkerClose(w) PROVE Adm!Next
  <2>1. rq[w] \in Conn /\ Adm!Close(rq[w])
    BY <1>0, <1>5, CloseShows DEF WorkerClose
  <2> QED BY <2>1 DEF Adm!Next
<1>6. CASE ExcdMgrClose
  <2>1. rq["excd_mgr"] \in Conn /\ Adm!Close(rq["excd_mgr"])
    BY <1>0, <1>6, CloseShows DEF ExcdMgrClose
  <2> QED BY <2>1 DEF Adm!Next
<1>7. CASE Tick
  <2>1. UNCHANGED phase
    <3>1. \A d \in Conn : /\ Placed(d) /\ Placed(d)' /\ (Open(d)' <=> Open(d))
                          /\ Serving(d)' <=> Serving(d)
      BY <1>7 DEF Tick, Places, Open, Serving
    <3>2. \A d \in Conn : phase'[d] = phase[d]
      BY <1>7, <3>1, PhaseSame DEF Tick
    <3> QED BY <3>2, PhaseStays
  <2> QED BY <1>7, <2>1 DEF Tick, Adm!Next, Adm!Tick
<1>8. ASSUME NEW w \in Worker, WorkerFree(w) PROVE UNCHANGED Adm!vars
  BY <1>0, <1>8, HandsHidden DEF WorkerFree, FreeRequest
<1>9. CASE ReqMgrEnqueue
  BY <1>0, <1>9, HandsHidden DEF ReqMgrEnqueue
<1>10. CASE ExcdMgrDequeue
  BY <1>0, <1>10, HandsHidden DEF ExcdMgrDequeue
<1>11. CASE ExcdMgrFree
  BY <1>0, <1>11, HandsHidden DEF ExcdMgrFree, FreeRequest
<1>12. ASSUME NEW w \in Worker,
             \/ WorkerSemWait(w) \/ WorkerLock(w) \/ WorkerUnlock(w)
             \/ WorkerRun(w) \/ AppReturn(w)
       PROVE  UNCHANGED Adm!vars
  BY <1>12, NothingShows DEF WorkerSemWait, WorkerLock, WorkerUnlock, WorkerRun, AppReturn,
       LockReq, UnlockReq
<1>13. ASSUME \/ MainLock \/ MainUnlock \/ MainPost
              \/ ReqMgrWake \/ ReqMgrLock \/ ReqMgrStop \/ ReqMgrLockExcd
              \/ ReqMgrUnlockExcd \/ ReqMgrPost \/ ReqMgrUnlock
              \/ ExcdMgrSemWait \/ ExcdMgrLock \/ ExcdMgrUnlock \/ ExcdMgrSend
              \/ UNCHANGED vars
       PROVE  UNCHANGED Adm!vars
  BY <1>13, NothingShows DEF MainLock, MainUnlock, MainPost, ReqMgrWake, ReqMgrLock,
       ReqMgrStop, ReqMgrLockExcd, ReqMgrUnlockExcd, ReqMgrPost, ReqMgrUnlock,
       ExcdMgrSemWait, ExcdMgrLock, ExcdMgrUnlock, ExcdMgrSend, LockReq, UnlockReq,
       LockExcd, UnlockExcd, vars
<1> QED
  BY Steps, <1>1, <1>2, <1>3, <1>4, <1>5, <1>6, <1>7, <1>8, <1>9, <1>10, <1>11, <1>12, <1>13

\* The threads, mutexes, semaphores and descriptors of server.c amount to one
\* waiting line that a connection leaves from the head, to be served or, after
\* the limit, denied, and is then closed once.
THEOREM AdmissionCorrect == Spec => ImplementsAdmission
<1>1. Init => Adm!Init
  <2> SUFFICES ASSUME Init PROVE Adm!Init
    OBVIOUS
  <2>1. \A c \in Conn : phase[c] = "new"
    <3>1. \A c \in Conn : Placed(c)
      BY DEF Init, Placed, Open, In, Serving, Thread
    <3> QED BY <3>1, PhaseIs DEF PhaseOf, Init
  <2>2. phase = [c \in Conn |-> phase[c]]
    BY DEF phase
  <2>3. phase = [c \in Conn |-> "new"]
    BY <2>1, <2>2
  <2> QED BY <2>3 DEF Init, Adm!Init
<1>2. Spec => [](Inv /\ Timely /\ Places)
  BY TimelyInvariant, InvPlaces, PTL
<1>3. Inv /\ Timely /\ Places /\ Places' /\ [Next]_vars => [Adm!Next]_(Adm!vars)
  BY StepShows
<1> QED BY <1>1, <1>2, <1>3, PTL DEF Spec, ImplementsAdmission, Adm!Spec
=============================================================================
