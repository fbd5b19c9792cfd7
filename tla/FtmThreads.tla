----------------------------- MODULE FtmThreads -----------------------------
(***************************************************************************)
(* Threads, the lock and fork: the public functions of malloc.c step by    *)
(* step, with ftm_lock_pthread.c.  What happens under the lock is the      *)
(* subject of the other modules; here it reads which blocks are in use in  *)
(* one step and writes it in another, with the heap half-updated between,  *)
(* so that nothing but the lock keeps calls apart.                         *)
(*                                                                         *)
(* The variables are the memory of one process.  fork makes two processes  *)
(* that share nothing any more: a behaviour follows either of them.  A     *)
(* second thread exists only after the first call, as pthread_create       *)
(* itself allocates: the fork handlers are registered by then.             *)
(***************************************************************************)
EXTENDS Integers, FiniteSets

CONSTANTS
  Thread,
  Main,      \* the thread the process starts with
  Block,
  MaxHeld,   \* bound: the blocks a thread holds at once
  MaxForks,  \* bound: the forks in a line of descent
  NULL

ASSUME ThreadsAssumption ==
  /\ Main \in Thread
  /\ MaxHeld \in Nat /\ MaxForks \in Nat
  /\ NULL \notin Thread \cup Block

VARIABLES
  live,      \* the threads of the process
  pc, call,  \* what each thread is at: the operation and its block
  holds,     \* the blocks each thread was given and has not freed
  clean,     \* of these, the blocks that calloc gave
  once,      \* g_atfork_once: whether its function has run
  handlers,  \* how often the fork handlers are registered
  mutex,     \* g_mutex: the thread that locked it
  used,      \* the heap: the blocks that are not free
  partial,   \* whether the heap is half-updated
  zero,      \* the blocks whose bytes are all zero
  forks

clientvars == <<holds, clean, zero>>
lockvars == <<once, handlers, mutex>>
heapvars == <<used, partial>>
vars == <<live, pc, call, clientvars, lockvars, heapvars, forks>>

NoCall == [op |-> "none", block |-> NULL]

Init ==
  /\ live = {Main}
  /\ pc = [t \in Thread |-> "idle"] /\ call = [t \in Thread |-> NoCall]
  /\ holds = [t \in Thread |-> {}] /\ clean = {} /\ zero = {}
  /\ once = FALSE /\ handlers = 0 /\ mutex = NULL
  /\ used = {} /\ partial = FALSE
  /\ forks = 0

At(t, place) == t \in live /\ pc[t] = place
Goto(t, place) == pc' = [pc EXCEPT ![t] = place]
Allocates(t) == call[t].op \in {"malloc", "calloc"}

-----------------------------------------------------------------------------
(* The clients.                                                            *)

\* malloc stands for every call that only allocates, free for every call that
\* only frees; a client does not touch a block it has passed to free.
Begin(t) ==
  /\ At(t, "idle")
  /\ Goto(t, "once")
  /\ \/ /\ Cardinality(holds[t]) < MaxHeld
        /\ \E op \in {"malloc", "calloc"} :
             call' = [call EXCEPT ![t] = [op |-> op, block |-> NULL]]
        /\ UNCHANGED <<holds, clean>>
     \/ \E block \in holds[t] :
          /\ call' = [call EXCEPT ![t] = [op |-> "free", block |-> block]]
          /\ holds' = [holds EXCEPT ![t] = @ \ {block}]
          /\ clean' = clean \ {block}
  /\ UNCHANGED <<live, zero, lockvars, heapvars, forks>>

\* pthread_create, after the allocation it makes.
Spawn(t) ==
  /\ At(t, "idle") /\ once
  /\ \E new \in Thread \ live : live' = live \cup {new}
  /\ UNCHANGED <<pc, call, clientvars, lockvars, heapvars, forks>>

\* A thread ends, and with the last of them the process; what it held is lost.
Exit(t) ==
  /\ At(t, "idle")
  /\ live' = live \ {t}
  /\ holds' = [holds EXCEPT ![t] = {}]
  /\ clean' = clean \ holds[t]
  /\ UNCHANGED <<pc, call, zero, lockvars, heapvars, forks>>

-----------------------------------------------------------------------------
(* ftm_lock, the call into core/, ftm_unlock, and what follows it.         *)

\* Mutant: nothing is registered.
RegisterNothing(t) ==
  /\ At(t, "once") /\ ~once
  /\ once' = TRUE
  /\ Goto(t, "lock")
  /\ UNCHANGED <<live, call, clientvars, handlers, mutex, heapvars, forks>>

\* pthread_once: one thread runs the function, the others go on after it.
register_atfork(t) ==
  /\ At(t, "once") /\ ~once
  /\ once' = TRUE /\ handlers' = handlers + 1
  /\ Goto(t, "lock")
  /\ UNCHANGED <<live, call, clientvars, mutex, heapvars, forks>>

PassOnce(t) ==
  /\ At(t, "once") /\ once
  /\ Goto(t, "lock")
  /\ UNCHANGED <<live, call, clientvars, lockvars, heapvars, forks>>

\* Mutant: the lock does not wait.
LockAtOnce(t) ==
  /\ At(t, "lock")
  /\ mutex' = t
  /\ Goto(t, "inside")
  /\ UNCHANGED <<live, call, clientvars, once, handlers, heapvars, forks>>

Lock(t) ==
  /\ At(t, "lock") /\ mutex = NULL
  /\ mutex' = t
  /\ Goto(t, "inside")
  /\ UNCHANGED <<live, call, clientvars, once, handlers, heapvars, forks>>

\* The first half of the call: what is in use is read, the change begins.
Choose(t) ==
  /\ At(t, "inside")
  /\ IF Allocates(t) /\ used # Block
     THEN \E block \in Block \ used :
            call' = [call EXCEPT ![t].block = block]
     ELSE UNCHANGED call
  /\ partial' = TRUE
  /\ Goto(t, "update")
  /\ UNCHANGED <<live, clientvars, lockvars, used, forks>>

\* The second half: it is written.  A free writes the links of the free list
\* into the block.
Update(t) ==
  LET block == {call[t].block} \ {NULL} IN
  /\ At(t, "update")
  /\ IF Allocates(t)
     THEN used' = used \cup block /\ UNCHANGED zero
     ELSE used' = used \ block /\ zero' = zero \ block
  /\ partial' = FALSE
  /\ Goto(t, "unlock")
  /\ UNCHANGED <<live, call, holds, clean, lockvars, forks>>

Unlock(t) ==
  /\ At(t, "unlock")
  /\ mutex' = NULL
  /\ Goto(t, "return")
  /\ UNCHANGED <<live, call, clientvars, once, handlers, heapvars, forks>>

\* What a call gives its caller.
Given(t) == IF Allocates(t) THEN {call[t].block} \ {NULL} ELSE {}

Finish(t) ==
  /\ At(t, "return")
  /\ Goto(t, "idle")
  /\ call' = [call EXCEPT ![t] = NoCall]
  /\ holds' = [holds EXCEPT ![t] = @ \cup Given(t)]
  /\ clean' = IF call[t].op = "calloc" THEN clean \cup Given(t) ELSE clean
  /\ UNCHANGED <<live, lockvars, heapvars, forks>>

\* Mutant: calloc trusts the block it is given.
ReturnUncleared(t) ==
  /\ Finish(t)
  /\ zero' = IF call[t].op = "calloc" THEN zero ELSE zero \ Given(t)

\* calloc clears the block here, without the lock; a client of malloc fills
\* what it is given.
Return(t) ==
  /\ Finish(t)
  /\ zero' = IF call[t].op = "calloc" THEN zero \cup Given(t) ELSE zero \ Given(t)

-----------------------------------------------------------------------------
(* fork: the handlers that are registered when it starts are run.          *)

StartFork(t) ==
  /\ At(t, "idle") /\ forks < MaxForks
  /\ forks' = forks + 1
  /\ Goto(t, IF handlers > 0 THEN "prepare" ELSE "clone")
  /\ UNCHANGED <<live, call, clientvars, lockvars, heapvars>>

lock_before_fork(t) ==
  /\ At(t, "prepare") /\ mutex = NULL
  /\ mutex' = t
  /\ Goto(t, "clone")
  /\ UNCHANGED <<live, call, clientvars, once, handlers, heapvars, forks>>

\* The parent keeps its threads; of the child's memory only the calling thread
\* is left, and what the other threads held is lost.
Clone(t) ==
  /\ At(t, "clone")
  /\ \/ /\ Goto(t, IF handlers > 0 THEN "parent" ELSE "idle")
        /\ UNCHANGED <<live, call, holds, clean>>
     \/ /\ live' = {t}
        /\ pc' = [u \in Thread |->
                    IF u = t /\ handlers > 0 THEN "child" ELSE "idle"]
        /\ call' = [u \in Thread |-> NoCall]
        /\ holds' = [u \in Thread |-> IF u = t THEN holds[t] ELSE {}]
        /\ clean' = clean \cap holds[t]
  /\ UNCHANGED <<zero, lockvars, heapvars, forks>>

\* Mutant: only the parent unlocks.
UnlockInParent(t) ==
  /\ At(t, "parent") \/ At(t, "child")
  /\ mutex' = IF pc[t] = "parent" THEN NULL ELSE mutex
  /\ Goto(t, "idle")
  /\ UNCHANGED <<live, call, clientvars, once, handlers, heapvars, forks>>

unlock_after_fork(t) ==
  /\ At(t, "parent") \/ At(t, "child")
  /\ mutex' = NULL
  /\ Goto(t, "idle")
  /\ UNCHANGED <<live, call, clientvars, once, handlers, heapvars, forks>>

-----------------------------------------------------------------------------
\* The steps of a thread that is in a call or in fork.
Continue(t) ==
  \/ register_atfork(t) \/ PassOnce(t) \/ Lock(t) \/ Choose(t) \/ Update(t)
  \/ Unlock(t) \/ Return(t)
  \/ lock_before_fork(t) \/ Clone(t) \/ unlock_after_fork(t)

Next ==
  \E t \in Thread :
    Begin(t) \/ Spawn(t) \/ Exit(t) \/ StartFork(t) \/ Continue(t)

Spec == Init /\ [][Next]_vars

\* A thread that can go on is scheduled.  Nothing says which of the threads
\* that wait for a mutex is given it.
FairSpec == Spec /\ \A t \in Thread : WF_vars(Continue(t))

-----------------------------------------------------------------------------
Inside == {"inside", "update", "unlock"}
InFork == {"clone", "parent", "child"}

\* The mutex belongs to the one thread that is inside the allocator or between
\* the handlers of a fork, and the heap is half-updated only while a thread of
\* the process is at it: a child inherits neither a mutex that none of its
\* threads will unlock nor a heap that another thread was changing.
MutexAccounted ==
  /\ mutex # NULL => mutex \in live
  /\ \A t \in live :
       mutex = t <=> pc[t] \in Inside \cup (IF handlers > 0 THEN InFork ELSE {})
  /\ partial <=> \E t \in live : pc[t] = "update"

Owned(t) == holds[t] \cup (IF pc[t] \in {"unlock", "return"} THEN Given(t) ELSE {})

\* No block is given to two threads, and none that a thread holds is free in
\* the heap, however their calls interleave.
OneOwner ==
  \A t \in live :
    /\ Owned(t) \subseteq used
    /\ \A u \in live \ {t} : Owned(t) \cap Owned(u) = {}

\* What a thread holds is as it left it: zero if calloc gave it, although it
\* was cleared after the lock was given back, and not cleared by the calloc of
\* another thread otherwise.
ContentsKept ==
  \A t \in live : \A block \in holds[t] : block \in zero <=> block \in clean

\* The mutex is always given back, in the child of a fork as well, and a
\* thread that does not wait for it gets through its call: the allocator is
\* free of deadlock.
LockGivenBack ==
  /\ mutex # NULL ~> mutex = NULL
  /\ \A t \in Thread :
       t \in live /\ pc[t] \notin {"idle", "lock", "prepare"}
         ~> t \notin live \/ pc[t] \in {"idle", "lock", "prepare"}

=============================================================================
