--------------------------- MODULE DispatchRootQueue ---------------------------
(***************************************************************************)
(* A global queue of libdispatch with its pool of pthreads (queue.c), the  *)
(* list its items are pushed on (inline_internal.h) and the monitor that   *)
(* looks after its workers (event/workqueue.c).  Clients push chains of    *)
(* items; whoever finds that there may be work pokes the queue, which      *)
(* wakes a worker that sleeps on the mediator (a dispatch semaphore) or    *)
(* asks for a new one; workers take items until the queue looks empty,     *)
(* sleep on the mediator and leave after its timeout.                      *)
(***************************************************************************)
EXTENDS Integers, Sequences, FiniteSets

CONSTANTS Client,     \* threads that push
          Worker,     \* identities of worker threads
          Monitor,    \* the manager's thread, on which the monitor's timer fires
          Item,       \* continuations
          Chains,     \* what the clients may push: a chain of items each, or nothing
          ActiveCpus, \* processors: the pool of a queue that is not overcommit
          MaxThreads, \* DISPATCH_WORKQ_MAX_PTHREAD_COUNT: the pool of one that is
          MaxCredit,  \* bound: the mediator's value at which the monitor leaves workers alone
          None        \* NULL

Thread == Client \cup Worker \cup {Monitor}

\* how far the monitor lets the pool be overdrawn
Floor == ActiveCpus - MaxThreads

ASSUME RootQueueAssumption ==
  /\ IsFiniteSet(Client) /\ IsFiniteSet(Worker) /\ IsFiniteSet(Item)
  /\ Client \cap Worker = {} /\ Monitor \notin Client \cup Worker
  /\ Item # {} /\ None \notin Item /\ "mediator" \notin Item \cup {None}
  /\ Chains \subseteq [Client -> Seq(Item)]
  \* a continuation is pushed once
  /\ \A ch \in Chains : \A c, d \in Client : \A i \in 1..Len(ch[c]), j \in 1..Len(ch[d]) :
       ch[c][i] = ch[d][j] => c = d /\ i = j
  /\ ActiveCpus \in Nat \ {0} /\ MaxThreads \in Nat /\ ActiveCpus <= MaxThreads
  /\ MaxCredit \in Nat

VARIABLES
  chain,                 \* the chain of each client
  overcommit,            \* the queue's DISPATCH_PRIORITY_FLAG_OVERCOMMIT
  dq_items_head,         \* None, Mediator or the first item
  dq_items_tail,         \* None or the last item
  do_next,               \* the items' links
  dgq_pending,           \* workers that were asked for and do not run yet
  dgq_thread_pool_size,  \* workers that may still be asked for
  pc,                    \* where each thread is
  reg,                   \* the locals of each thread
  registered_tids,       \* the workers the monitor looks at
  monitoring,            \* the monitor's timer was created
  ran,                   \* history: items that were invoked
  dsema_value, dsema_sema, at, credit  \* dpq_thread_mediator

queueVars == <<dq_items_head, dq_items_tail, do_next>>
monitorVars == <<registered_tids, monitoring>>
poolVars == <<dgq_pending, dgq_thread_pool_size>>
mediatorVars == <<dsema_value, dsema_sema, at, credit>>
callVars == <<chain, overcommit>>
vars == <<callVars, queueVars, poolVars, pc, reg, monitorVars, ran, mediatorVars>>

\* dpq_thread_mediator
ThreadMediator == INSTANCE DispatchSemaphore WITH Orig <- 0, MaxCredit <- MaxCredit + Cardinality(Thread) + Cardinality(Item)

\* DISPATCH_ROOT_QUEUE_MEDIATOR: a worker has taken the head
Mediator == "mediator"

ClientPC == {"push", "link", "done"}
PokePC == {"probe", "signal", "post", "pending", "pool", "reduce", "take", "create"}
WorkerPC == {"none", "born", "register", "drain", "unhead", "probe tail", "lost", "lost backoff",
             "load head", "load tail", "load head backoff", "load tail backoff", "next", "unlink",
             "untail", "await next", "rehead", "invoke", "park", "parked", "unregister", "leave"}
MonitorPC == {"tick"}

\* the locals: item and the next one (a pusher: the previous tail and the chain's
\* head), the request, the pool size it read, and where poke returns to
Locals == [item : Item \cup {None, Mediator}, next : Item \cup {None},
           remaining : 0..Cardinality(Item), floor : Floor..0,
           t_count : Floor..MaxThreads, back : {"done", "invoke", "park", "none", "tick"}]
NoLocals == [item |-> None, next |-> None, remaining |-> 0, floor |-> 0, t_count |-> 0,
             back |-> "done"]

TypeOK ==
  /\ chain \in Chains /\ overcommit \in BOOLEAN
  /\ dq_items_head \in Item \cup {None, Mediator} /\ dq_items_tail \in Item \cup {None}
  /\ do_next \in [Item -> Item \cup {None}]
  /\ dgq_pending \in Nat /\ dgq_thread_pool_size \in Floor..MaxThreads
  /\ pc \in [Thread -> ClientPC \cup PokePC \cup WorkerPC \cup MonitorPC]
  /\ reg \in [Thread -> Locals]
  /\ registered_tids \subseteq Worker /\ monitoring \in BOOLEAN
  /\ ran \subseteq Item
  /\ ThreadMediator!TypeOK

\* the link of an item within its chain
ChainNext(i) ==
  LET here == {p \in Client \X (1..Cardinality(Item)) :
                 p[2] < Len(chain[p[1]]) /\ chain[p[1]][p[2]] = i}
  IN IF here = {} THEN None ELSE LET p == CHOOSE p \in here : TRUE IN chain[p[1]][p[2] + 1]

\* _dispatch_root_queue_init_pthread_pool
PoolSize == IF overcommit THEN MaxThreads ELSE ActiveCpus
Init ==
  /\ chain \in Chains /\ overcommit \in BOOLEAN
  /\ dq_items_head = None /\ dq_items_tail = None
  /\ do_next = [i \in Item |-> ChainNext(i)]
  /\ dgq_pending = 0 /\ dgq_thread_pool_size = PoolSize
  /\ pc = [t \in Thread |-> CASE t \in Client -> IF chain[t] = <<>> THEN "done" ELSE "push"
                             [] t \in Worker -> "none"
                             [] t = Monitor -> "tick"]
  /\ reg = [t \in Thread |-> NoLocals]
  /\ registered_tids = {} /\ monitoring = FALSE
  /\ ran = {}
  /\ ThreadMediator!Init

Goto(t, p) == pc' = [pc EXCEPT ![t] = p]
Keep(t, l) == reg' = [reg EXCEPT ![t] = l]
Forget(t) == Keep(t, NoLocals)

\* calls _dispatch_root_queue_poke, which returns to back with the item kept
Poke(t, n, floor, back) ==
  /\ Goto(t, "probe")
  /\ Keep(t, [NoLocals EXCEPT !.item = IF back = "invoke" THEN reg[t].item ELSE None,
                              !.remaining = n, !.floor = floor, !.back = back])
PokeReturns(t) ==
  /\ Goto(t, reg[t].back)
  /\ Keep(t, [NoLocals EXCEPT !.item = reg[t].item])

-----------------------------------------------------------------------------
\* Pushing: _dispatch_root_queue_push_inline

\* os_mpsc_push_update_tail
PushTail(c) ==
  /\ pc[c] = "push"
  /\ LET last == chain[c][Len(chain[c])] IN
     /\ dq_items_tail' = last
     /\ do_next' = [do_next EXCEPT ![last] = None]
  /\ Keep(c, [NoLocals EXCEPT !.item = dq_items_tail, !.next = Head(chain[c])])
  /\ Goto(c, "link")
  /\ UNCHANGED <<callVars, monitorVars, dq_items_head, poolVars, ran, mediatorVars>>

\* os_mpsc_push_update_prev; the one who found the queue empty pokes it
PushLink(c) ==
  /\ pc[c] = "link"
  /\ IF reg[c].item = None
       THEN /\ dq_items_head' = reg[c].next
            /\ Poke(c, Len(chain[c]), 0, "done")
            /\ UNCHANGED do_next
       ELSE /\ do_next' = [do_next EXCEPT ![reg[c].item] = reg[c].next]
            /\ Goto(c, "done") /\ Forget(c)
            /\ UNCHANGED dq_items_head
  /\ UNCHANGED <<callVars, monitorVars, dq_items_tail, poolVars, ran, mediatorVars>>

-----------------------------------------------------------------------------
\* _dispatch_root_queue_poke and _dispatch_root_queue_poke_slow

PokeProbe(t) ==
  /\ pc[t] = "probe"
  /\ IF dq_items_tail = None THEN PokeReturns(t) ELSE Goto(t, "signal") /\ UNCHANGED reg
  /\ UNCHANGED <<callVars, monitorVars, queueVars, poolVars, ran, mediatorVars>>

\* a worker sleeps on the mediator and is counted: it will be posted
PokeSignal(t) ==
  /\ pc[t] = "signal"
  /\ ThreadMediator!Signal(t)
  /\ Goto(t, IF at'[t] = "post" THEN "post" ELSE "pending")
  /\ UNCHANGED <<callVars, monitorVars, queueVars, poolVars, reg, ran>>

PokePost(t) ==
  /\ pc[t] = "post"
  /\ ThreadMediator!Post(t)
  /\ IF reg[t].remaining = 1
       THEN PokeReturns(t)
       ELSE /\ Goto(t, "signal")
            /\ Keep(t, [reg[t] EXCEPT !.remaining = @ - 1])
  /\ UNCHANGED <<callVars, monitorVars, queueVars, poolVars, ran>>

\* the request is published; a queue that is not overcommit has one at a time
PokePending(t) ==
  /\ pc[t] = "pending"
  /\ IF overcommit \/ dgq_pending = 0
       THEN /\ dgq_pending' = dgq_pending + reg[t].remaining
            /\ Goto(t, "pool") /\ UNCHANGED reg
       ELSE PokeReturns(t) /\ UNCHANGED dgq_pending
  /\ UNCHANGED <<callVars, monitorVars, queueVars, dgq_thread_pool_size, ran, mediatorVars>>

\* mutant: an overdrawn pool is not taken for an empty one
CanRequestOverdrawn(t, t_count) == t_count - reg[t].floor
\* how many threads the pool allows
CanRequest(t, t_count) == IF t_count < reg[t].floor THEN 0 ELSE t_count - reg[t].floor

\* what the next step of the loop is, for a pool of size t_count
PokeSizes(t, t_count) ==
  /\ Keep(t, [reg[t] EXCEPT !.t_count = t_count])
  /\ Goto(t, IF reg[t].remaining > CanRequest(t, t_count) THEN "reduce" ELSE "take")

PokePool(t) ==
  /\ pc[t] = "pool"
  /\ PokeSizes(t, dgq_thread_pool_size)
  /\ UNCHANGED <<callVars, monitorVars, queueVars, poolVars, ran, mediatorVars>>

\* mutant: the part of the request that is dropped stays pending
PokeReduceForgets(t) ==
  /\ pc[t] = "reduce"
  /\ LET can_request == CanRequest(t, reg[t].t_count) IN
     IF can_request = 0
       THEN PokeReturns(t)
       ELSE Goto(t, "take") /\ Keep(t, [reg[t] EXCEPT !.remaining = can_request])
  /\ UNCHANGED <<callVars, monitorVars, queueVars, poolVars, ran, mediatorVars>>
\* the request is more than the pool allows
PokeReduce(t) ==
  /\ pc[t] = "reduce"
  /\ LET can_request == CanRequest(t, reg[t].t_count) IN
     /\ dgq_pending' = dgq_pending - (reg[t].remaining - can_request)
     /\ IF can_request = 0
          THEN PokeReturns(t)
          ELSE Goto(t, "take") /\ Keep(t, [reg[t] EXCEPT !.remaining = can_request])
  /\ UNCHANGED <<callVars, monitorVars, queueVars, dgq_thread_pool_size, ran, mediatorVars>>

\* mutant: the new pool size is stored without comparing
PokeTakeStores(t) ==
  /\ pc[t] = "take"
  /\ dgq_thread_pool_size' = reg[t].t_count - reg[t].remaining
  /\ Goto(t, "create")
  /\ UNCHANGED <<callVars, monitorVars, queueVars, dgq_pending, reg, ran, mediatorVars>>
\* the compare-and-swap on the pool size, which starts over if it has changed
PokeTake(t) ==
  /\ pc[t] = "take"
  /\ IF dgq_thread_pool_size = reg[t].t_count
       THEN /\ dgq_thread_pool_size' = reg[t].t_count - reg[t].remaining
            /\ Goto(t, "create") /\ UNCHANGED reg
       ELSE PokeSizes(t, dgq_thread_pool_size) /\ UNCHANGED dgq_thread_pool_size
  /\ UNCHANGED <<callVars, monitorVars, queueVars, dgq_pending, ran, mediatorVars>>

\* pthread_create, tried again until the system has a thread to spare
PokeCreate(t) ==
  /\ pc[t] = "create" /\ \E w \in Worker : pc[w] = "none"
  /\ LET w == CHOOSE w \in Worker : pc[w] = "none"
         last == reg[t].remaining = 1
     IN /\ pc' = [pc EXCEPT ![w] = "born", ![t] = IF last THEN reg[t].back ELSE "create"]
        /\ Keep(t, IF last THEN [NoLocals EXCEPT !.item = reg[t].item]
                   ELSE [reg[t] EXCEPT !.remaining = @ - 1])
  /\ UNCHANGED <<callVars, monitorVars, queueVars, poolVars, ran, mediatorVars>>

PokeStep(t) ==
  \/ PokeProbe(t) \/ PokeSignal(t) \/ PokePost(t) \/ PokePending(t)
  \/ PokePool(t) \/ PokeReduce(t) \/ PokeTake(t) \/ PokeCreate(t)

-----------------------------------------------------------------------------
\* _dispatch_root_queue_drain_one

\* mutant: the mediator is stored after the head was read, and not if it was there
DrainStartReads(w) ==
  /\ pc[w] = "drain"
  /\ dq_items_head' = IF dq_items_head = None THEN Mediator ELSE dq_items_head
  /\ Goto(w, CASE dq_items_head = None -> "unhead"
               [] dq_items_head = Mediator -> "lost"
               [] OTHER -> "next")
  /\ Keep(w, [NoLocals EXCEPT !.item = IF dq_items_head = Mediator THEN None ELSE dq_items_head])
  /\ UNCHANGED <<callVars, monitorVars, dq_items_tail, do_next, poolVars, ran, mediatorVars>>
\* the head is exchanged for the mediator, which is lock and signal at once
DrainStart(w) ==
  /\ pc[w] = "drain"
  /\ dq_items_head' = Mediator
  /\ Goto(w, CASE dq_items_head = None -> "unhead"
               [] dq_items_head = Mediator -> "lost"
               [] OTHER -> "next")
  /\ Keep(w, [NoLocals EXCEPT !.item = IF dq_items_head = Mediator THEN None ELSE dq_items_head])
  /\ UNCHANGED <<callVars, monitorVars, dq_items_tail, do_next, poolVars, ran, mediatorVars>>

\* the queue looked empty: the head is given back unless a pusher has set it
DrainUnhead(w) ==
  /\ pc[w] = "unhead"
  /\ IF dq_items_head = Mediator
       THEN dq_items_head' = None /\ Goto(w, "probe tail")
       ELSE Goto(w, "drain") /\ UNCHANGED dq_items_head
  /\ UNCHANGED <<callVars, monitorVars, dq_items_tail, do_next, poolVars, reg, ran, mediatorVars>>

DrainProbeTail(w) ==
  /\ pc[w] = "probe tail"
  /\ Goto(w, IF dq_items_tail = None THEN "park" ELSE "load head")
  /\ UNCHANGED <<callVars, monitorVars, queueVars, poolVars, reg, ran, mediatorVars>>

DrainNext(w) ==
  /\ pc[w] = "next"
  /\ LET next == do_next[reg[w].item] IN
     /\ Keep(w, [reg[w] EXCEPT !.next = next])
     /\ Goto(w, IF next = None THEN "unlink" ELSE "rehead")
  /\ UNCHANGED <<callVars, monitorVars, queueVars, poolVars, ran, mediatorVars>>

\* the item may be the last one: head and tail are cleared, in this order
DrainUnlink(w) ==
  /\ pc[w] = "unlink"
  /\ dq_items_head' = None
  /\ Goto(w, "untail")
  /\ UNCHANGED <<callVars, monitorVars, dq_items_tail, do_next, poolVars, reg, ran, mediatorVars>>

DrainUntail(w) ==
  /\ pc[w] = "untail"
  /\ IF dq_items_tail = reg[w].item
       THEN dq_items_tail' = None /\ Goto(w, "invoke")
       ELSE Goto(w, "await next") /\ UNCHANGED dq_items_tail
  /\ UNCHANGED <<callVars, monitorVars, dq_items_head, do_next, poolVars, reg, ran, mediatorVars>>

\* os_mpsc_get_next waits for the pusher to link its chain
DrainAwaitNext(w) ==
  /\ pc[w] = "await next"
  /\ do_next[reg[w].item] # None
  /\ Keep(w, [reg[w] EXCEPT !.next = do_next[reg[w].item]])
  /\ Goto(w, "rehead")
  /\ UNCHANGED <<callVars, monitorVars, queueVars, poolVars, ran, mediatorVars>>

\* there are more items: another worker may help
DrainRehead(w) ==
  /\ pc[w] = "rehead"
  /\ dq_items_head' = reg[w].next
  /\ Poke(w, 1, 0, "invoke")
  /\ UNCHANGED <<callVars, monitorVars, dq_items_tail, do_next, poolVars, ran, mediatorVars>>

\* __DISPATCH_ROOT_QUEUE_CONTENDED_WAIT__: a predicate is polled, then polled again
\* with the queue marked as pending, which keeps others from asking for threads;
\* in the end it holds, or the worker gives up and asks for another in its place
ContentionEnds(w, status) ==
  CASE status = "ready" -> Goto(w, "drain") /\ Forget(w)
    [] status = "abort" -> Goto(w, "park") /\ Forget(w)
    [] status = "wait" -> Poke(w, 1, 0, "park")

Contend(w, spin, backoff, again, status) ==
  /\ \/ /\ pc[w] = spin /\ status # "wait"
        /\ ContentionEnds(w, status)
        /\ UNCHANGED dgq_pending
     \/ /\ pc[w] = spin /\ status = "wait"
        /\ dgq_pending' = dgq_pending + 1
        /\ Goto(w, again) /\ Forget(w)
     \/ /\ pc[w] = backoff
        /\ dgq_pending' = dgq_pending - 1
        /\ ContentionEnds(w, status)
  /\ UNCHANGED <<callVars, monitorVars, queueVars, dgq_thread_pool_size, ran, mediatorVars>>

\* _dispatch_root_queue_mediator_is_gone
DrainLost(w) ==
  Contend(w, "lost", "lost backoff", "lost backoff",
          IF dq_items_head = Mediator THEN "wait" ELSE "ready")

\* _dispatch_root_queue_head_tail_quiesced reads the head and then the tail
DrainLoadHead(w) ==
  /\ pc[w] \in {"load head", "load head backoff"}
  /\ Keep(w, [NoLocals EXCEPT !.item = dq_items_head])
  /\ Goto(w, IF pc[w] = "load head" THEN "load tail" ELSE "load tail backoff")
  /\ UNCHANGED <<callVars, monitorVars, queueVars, poolVars, ran, mediatorVars>>
DrainLoadTail(w) ==
  Contend(w, "load tail", "load tail backoff", "load head backoff",
          CASE (reg[w].item = None) # (dq_items_tail = None) -> "wait"
            [] reg[w].item = None /\ dq_items_tail = None -> "abort"
            [] OTHER -> "ready")

DrainStep(w) ==
  \/ DrainStart(w) \/ DrainUnhead(w) \/ DrainProbeTail(w) \/ DrainNext(w) \/ DrainUnlink(w)
  \/ DrainUntail(w) \/ DrainAwaitNext(w) \/ DrainRehead(w) \/ DrainLost(w)
  \/ DrainLoadHead(w) \/ DrainLoadTail(w)

-----------------------------------------------------------------------------
\* _dispatch_worker_thread and _dispatch_root_queue_drain

WorkerBorn(w) ==
  /\ pc[w] = "born"
  /\ dgq_pending' = dgq_pending - 1
  /\ Goto(w, IF overcommit THEN "drain" ELSE "register")
  /\ UNCHANGED <<callVars, monitorVars, queueVars, dgq_thread_pool_size, reg, ran, mediatorVars>>

\* _dispatch_workq_worker_register, the first of which creates the monitor's timer
WorkerRegister(w) ==
  /\ pc[w] = "register"
  /\ registered_tids' = registered_tids \cup {w} /\ monitoring' = TRUE
  /\ Goto(w, "drain")
  /\ UNCHANGED <<callVars, queueVars, poolVars, reg, ran, mediatorVars>>

\* _dispatch_continuation_pop_inline
WorkerInvoke(w) ==
  /\ pc[w] = "invoke"
  /\ ran' = ran \cup {reg[w].item}
  /\ Goto(w, "drain") /\ Forget(w)
  /\ UNCHANGED <<callVars, monitorVars, queueVars, poolVars, mediatorVars>>

WorkerPark(w) ==
  /\ pc[w] = "park"
  /\ ThreadMediator!Wait(w, "timed")
  /\ Goto(w, IF at'[w] = "out" THEN "drain" ELSE "parked")
  /\ UNCHANGED <<callVars, monitorVars, queueVars, poolVars, reg, ran>>

\* the wait goes on, ends with a signal, or ends with its deadline
WorkerParked(w) ==
  /\ pc[w] = "parked"
  /\ \/ /\ ThreadMediator!TimedWaitGets(w) \/ ThreadMediator!WaitGets(w)
        /\ Goto(w, "drain")
     \/ ThreadMediator!TimedWaitExpires(w) /\ UNCHANGED pc
     \/ /\ ThreadMediator!Undo(w)
        /\ IF at'[w] = "out" THEN Goto(w, IF overcommit THEN "leave" ELSE "unregister")
           ELSE UNCHANGED pc
  /\ UNCHANGED <<callVars, monitorVars, queueVars, poolVars, reg, ran>>

\* _dispatch_workq_worker_unregister
WorkerUnregister(w) ==
  /\ pc[w] = "unregister"
  /\ registered_tids' = registered_tids \ {w}
  /\ Goto(w, "leave")
  /\ UNCHANGED <<callVars, monitoring, queueVars, poolVars, reg, ran, mediatorVars>>

WorkerLeave(w) ==
  /\ pc[w] = "leave"
  /\ dgq_thread_pool_size' = dgq_thread_pool_size + 1
  /\ Poke(w, 1, 0, "none")
  /\ UNCHANGED <<callVars, monitorVars, queueVars, dgq_pending, ran, mediatorVars>>

WorkerStep(w) ==
  \/ WorkerBorn(w) \/ WorkerRegister(w) \/ DrainStep(w) \/ WorkerInvoke(w) \/ WorkerPark(w)
  \/ WorkerParked(w) \/ WorkerUnregister(w) \/ WorkerLeave(w)

-----------------------------------------------------------------------------
\* _dispatch_workq_monitor_pools: which of the registered workers that do not
\* sleep on the mediator /proc calls runnable is the kernel's choice

Leaving(w) == reg[w].back = "none" /\ pc[w] \in PokePC
Alive == {w \in Worker : pc[w] # "none" /\ ~Leaving(w)}
Awake == {w \in registered_tids : at[w] \notin {"timedwait", "wait"}}
UnderTargetFloor == IF Floor > -ActiveCpus THEN Floor ELSE -ActiveCpus

\* mutant: only workers below the target are topped up, a stall is not looked at
MonitorTickTopsUp ==
  /\ pc[Monitor] = "tick" /\ monitoring /\ ~overcommit
  /\ dq_items_tail # None
  /\ credit < MaxCredit \/ (Alive = {} /\ dgq_pending = 0)
  /\ \E num_runnable \in 1..Cardinality(Awake) :
       num_runnable < ActiveCpus /\ Poke(Monitor, 1, UnderTargetFloor, "tick")
  /\ UNCHANGED <<callVars, monitorVars, queueVars, poolVars, ran, mediatorVars>>
\* the timer's handler: nothing runnable is a stall, less than the target a shortage
MonitorTick ==
  /\ pc[Monitor] = "tick" /\ monitoring /\ ~overcommit
  /\ dq_items_tail # None
  /\ credit < MaxCredit \/ (Alive = {} /\ dgq_pending = 0)
  /\ \E num_runnable \in 0..Cardinality(Awake) :
       /\ num_runnable < ActiveCpus
       /\ Poke(Monitor, 1, IF num_runnable = 0 THEN Floor ELSE UnderTargetFloor, "tick")
  /\ UNCHANGED <<callVars, monitorVars, queueVars, poolVars, ran, mediatorVars>>

Step(t) ==
  \/ t \in Client /\ (PushTail(t) \/ PushLink(t))
  \/ t \in Worker /\ WorkerStep(t)
  \/ t = Monitor /\ MonitorTick
  \/ PokeStep(t)

Next == \E t \in Thread : Step(t)

Spec == Init /\ [][Next]_vars

\* The kernel schedules every thread that can run, clients push what they have,
\* and the monitor's timer goes on firing.
FairSpec == Spec /\ \A t \in Thread : WF_vars(Step(t))

-----------------------------------------------------------------------------
\* The sum of f over the threads, as the size of a set: a pair for every unit
Units(f) == {p \in Thread \X (1..Cardinality(Item)) : p[2] <= f[p[1]]}
Total(f) == Cardinality(Units(f))
Requested == [t \in Thread |-> IF pc[t] \in {"pool", "reduce", "take", "create"}
                                 THEN reg[t].remaining ELSE 0]
Unborn == [t \in Thread |-> IF pc[t] = "create" THEN reg[t].remaining ELSE 0]
BackingOff == {"lost backoff", "load head backoff", "load tail backoff"}

\* dgq_pending is exactly the workers asked for and not yet running, and the
\* workers that back off: it cannot underflow, which a new worker would answer
\* with the crash "Pending thread request underflow".
PendingAccounted ==
  dgq_pending = Total(Requested)
                + Cardinality({w \in Worker : pc[w] \in {"born"} \cup BackingOff})

\* The pool is never overdrawn below the monitor's floor, and the threads that
\* exist or are being created are the ones taken from it.
PoolAccounted == dgq_thread_pool_size + Cardinality(Alive) + Total(Unborn) = PoolSize

\* No item is invoked twice, or by two workers: who got the head by the exchange
\* owns the item, also after it gave the head back.
Owned == {"next", "unlink", "untail", "await next", "rehead", "invoke"}
Owns(w) == pc[w] \in Owned \/ (pc[w] \in PokePC /\ reg[w].back = "invoke")
InvokedOnce ==
  \A v \in Worker : Owns(v) =>
    /\ reg[v].item \notin ran
    /\ \A w \in Worker \ {v} : Owns(w) => reg[w].item # reg[v].item

\* Every pushed item is invoked, though pushers poke only when the queue was
\* empty, requests are suppressed while another is pending, and workers leave.
AllInvoked == <>(ran = Item)
================================================================================
