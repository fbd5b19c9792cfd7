------------------------- MODULE FtmThreadsProofs ---------------------------
(***************************************************************************)
(* The lock, for any number of threads and blocks and for every line of    *)
(* forks: nothing is inherited half-done (MutexSafe), no block has two     *)
(* owners (OwnersSafe), and calloc may clear without the lock              *)
(* (ContentsSafe).  The lock comes first; that the calls keep their blocks *)
(* apart rests on it.                                                      *)
(***************************************************************************)
EXTENDS FtmThreads, TLAPS

USE ThreadsAssumption

InCall == {"once", "lock"} \cup Inside
Places == {"idle", "return", "prepare"} \cup InCall \cup InFork
Calls == [op : {"none", "malloc", "calloc", "free"}, block : Block \cup {NULL}]

TypeOK ==
  /\ live \subseteq Thread
  /\ pc \in [Thread -> Places]
  /\ call \in [Thread -> Calls]
  /\ holds \in [Thread -> SUBSET Block]
  /\ clean \subseteq Block /\ zero \subseteq Block /\ used \subseteq Block
  /\ once \in BOOLEAN /\ handlers \in Nat /\ partial \in BOOLEAN
  /\ mutex \in Thread \cup {NULL}

\* Until the handlers are registered there is one thread, and it has not come
\* to the lock; a fork that found no handlers is therefore alone.
Registered ==
  /\ once <=> handlers > 0
  /\ ~once => /\ \A t, u \in live : t = u
              /\ \A t \in live : pc[t] \in {"idle", "once", "clone"}

\* A thread that is not there is as a new one will be.
Ended == \A t \in Thread \ live : pc[t] = "idle" /\ holds[t] = {}

LockInv == TypeOK /\ Registered /\ Ended /\ MutexAccounted

\* The block a call has taken over from its caller, or has for it.
Moving(t) ==
  IF pc[t] \in {"unlock", "return"} THEN Given(t)
  ELSE IF pc[t] \in InCall /\ call[t].op = "free" THEN {call[t].block}
  ELSE {}

\* Every block in a client's hands or on its way is used, and in one place.
Custody ==
  \A t \in live :
    /\ holds[t] \cup Moving(t) \subseteq used
    /\ holds[t] \cap Moving(t) = {}
    /\ \A u \in live \ {t} :
         (holds[t] \cup Moving(t)) \cap (holds[u] \cup Moving(u)) = {}

\* What a thread has read of the heap is true until it writes.
ChoiceHolds ==
  \A t \in live :
    /\ pc[t] \in InCall => call[t].op # "none"
    /\ Allocates(t) =>
         /\ pc[t] \in {"once", "lock", "inside"} => call[t].block = NULL
         /\ pc[t] = "update" => call[t].block \notin used

CleanHeld == \A block \in clean : \E t \in live : block \in holds[t]

BlockInv == Custody /\ ChoiceHolds /\ CleanHeld /\ ContentsKept

-----------------------------------------------------------------------------
(* The lock.                                                               *)

\* A process starts with one thread that is in no call.
LEMMA LockInit == Init => LockInv
<1> SUFFICES ASSUME Init PROVE LockInv
  OBVIOUS
<1>1. TypeOK
  BY DEF Init, TypeOK, Places, Calls, NoCall
<1>2. Registered /\ Ended
  BY DEF Init, Registered, Ended
<1>3. MutexAccounted
  BY DEF Init, MutexAccounted, Inside, InFork
<1> QED
  BY <1>1, <1>2, <1>3 DEF LockInv

\* Every step of a call, of a fork and of the clients keeps it.
LEMMA LockStep ==
  ASSUME LockInv, [Next]_vars
  PROVE  LockInv'
<1>0. TypeOK /\ Registered /\ Ended /\ MutexAccounted
  BY DEF LockInv
<1> USE <1>0 DEF LockInv
<1>1. ASSUME NEW t \in Thread, Begin(t) PROVE LockInv'
  <2>1. TypeOK'
    <3>1. /\ pc' = [pc EXCEPT ![t] = "once"]
          /\ UNCHANGED <<live, zero, once, handlers, mutex, used, partial>>
      BY <1>1 DEF Begin, Goto, lockvars, heapvars
    <3>2. pc' \in [Thread -> Places]
      BY <3>1 DEF TypeOK, Places, InCall
    <3>3. ASSUME NEW op \in {"malloc", "calloc", "free"},
                 NEW block \in Block \cup {NULL},
                 call' = [call EXCEPT ![t] = [op |-> op, block |-> block]]
          PROVE  call' \in [Thread -> Calls]
      <4>1. [op |-> op, block |-> block] \in Calls
        BY DEF Calls
      <4> QED
        BY <3>3, <4>1 DEF TypeOK
    <3>4. call' \in [Thread -> Calls]
      <4>1. holds[t] \subseteq Block
        BY DEF TypeOK
      <4> QED
        BY <1>1, <3>3, <4>1 DEF Begin
    <3>5. holds' \in [Thread -> SUBSET Block] /\ clean' \subseteq Block
      BY <1>1 DEF Begin, TypeOK
    <3> QED
      BY <3>1, <3>2, <3>4, <3>5 DEF TypeOK
  <2>2. (Registered /\ Ended)'
    BY <1>1 DEF Begin, At, Goto, TypeOK, Registered, Ended, lockvars, heapvars
  <2>3. MutexAccounted'
    BY <1>1 DEF Begin, At, Goto, TypeOK, MutexAccounted, Inside, InFork, lockvars,
                heapvars
  <2> QED
    BY <2>1, <2>2, <2>3
<1>2. ASSUME NEW t \in Thread, Spawn(t) PROVE LockInv'
  <2>1. TypeOK'
    BY <1>2 DEF Spawn, TypeOK, clientvars, lockvars, heapvars
  <2>2. (Registered /\ Ended)'
    BY <1>2 DEF Spawn, Registered, Ended, clientvars, lockvars, heapvars
  <2>3. MutexAccounted'
    BY <1>2 DEF Spawn, TypeOK, Ended, MutexAccounted, Inside, InFork, clientvars,
                lockvars, heapvars
  <2> QED
    BY <2>1, <2>2, <2>3
<1>3. ASSUME NEW t \in Thread, Exit(t) PROVE LockInv'
  <2>1. TypeOK'
    BY <1>3 DEF Exit, At, TypeOK, lockvars, heapvars
  <2>2. (Registered /\ Ended)'
    BY <1>3 DEF Exit, At, TypeOK, Registered, Ended, lockvars, heapvars
  <2>3. MutexAccounted'
    BY <1>3 DEF Exit, At, TypeOK, MutexAccounted, Inside, InFork, lockvars, heapvars
  <2> QED
    BY <2>1, <2>2, <2>3
<1>4. ASSUME NEW t \in Thread, register_atfork(t) PROVE LockInv'
  <2>1. TypeOK'
    BY <1>4 DEF register_atfork, At, Goto, TypeOK, Places, InCall, clientvars,
                heapvars
  <2>2. (Registered /\ Ended)'
    BY <1>4 DEF register_atfork, At, Goto, TypeOK, Registered, Ended, clientvars
  <2>3. MutexAccounted'
    BY <1>4 DEF register_atfork, At, Goto, TypeOK, Registered, MutexAccounted,
                Inside, InFork, heapvars
  <2> QED
    BY <2>1, <2>2, <2>3
<1>5. ASSUME NEW t \in Thread, PassOnce(t) PROVE LockInv'
  <2>1. TypeOK'
    BY <1>5 DEF PassOnce, At, Goto, TypeOK, Places, InCall, clientvars, lockvars,
                heapvars
  <2>2. (Registered /\ Ended)'
    BY <1>5 DEF PassOnce, At, Goto, TypeOK, Registered, Ended, clientvars, lockvars
  <2>3. MutexAccounted'
    BY <1>5 DEF PassOnce, At, Goto, TypeOK, MutexAccounted, Inside, InFork,
                lockvars, heapvars
  <2> QED
    BY <2>1, <2>2, <2>3
<1>6. ASSUME NEW t \in Thread, Lock(t) PROVE LockInv'
  <2>1. TypeOK'
    BY <1>6 DEF Lock, At, Goto, TypeOK, Places, InCall, Inside, clientvars, heapvars
  <2>2. (Registered /\ Ended)'
    BY <1>6 DEF Lock, At, Goto, TypeOK, Registered, Ended, clientvars
  <2>3. MutexAccounted'
    BY <1>6 DEF Lock, At, Goto, TypeOK, MutexAccounted, Inside, InFork, heapvars
  <2> QED
    BY <2>1, <2>2, <2>3
<1>7. ASSUME NEW t \in Thread, Choose(t) PROVE LockInv'
  <2>1. TypeOK'
    <3>1. call' \in [Thread -> Calls]
      <4>1. CASE UNCHANGED call
        BY <4>1 DEF TypeOK
      <4>2. ASSUME NEW block \in Block, call' = [call EXCEPT ![t].block = block]
            PROVE  call' \in [Thread -> Calls]
        <5>1. call[t] \in Calls
          BY DEF TypeOK
        <5>2. [call[t] EXCEPT !.block = block] \in Calls
          BY <5>1 DEF Calls
        <5> QED
          BY <4>2, <5>2 DEF TypeOK
      <4> QED
        BY <1>7, <4>1, <4>2 DEF Choose
    <3>2. /\ pc' = [pc EXCEPT ![t] = "update"] /\ partial' = TRUE
          /\ UNCHANGED <<live, holds, clean, zero, once, handlers, mutex, used>>
      BY <1>7 DEF Choose, Goto, clientvars, lockvars
    <3>3. pc' \in [Thread -> Places]
      BY <3>2 DEF TypeOK, Places, InCall, Inside
    <3> QED
      BY <3>1, <3>2, <3>3 DEF TypeOK
  <2>2. (Registered /\ Ended)'
    BY <1>7 DEF Choose, At, Goto, TypeOK, Registered, Ended, clientvars, lockvars
  <2>3. MutexAccounted'
    BY <1>7 DEF Choose, At, Goto, TypeOK, MutexAccounted, Inside, InFork, lockvars
  <2> QED
    BY <2>1, <2>2, <2>3
<1>8. ASSUME NEW t \in Thread, Update(t) PROVE LockInv'
  <2>1. TypeOK'
    <3>1. {call[t].block} \ {NULL} \subseteq Block
      BY DEF TypeOK, Calls
    <3>2. /\ pc' = [pc EXCEPT ![t] = "unlock"] /\ partial' = FALSE
          /\ used' \subseteq used \cup ({call[t].block} \ {NULL})
          /\ zero' \subseteq zero
          /\ UNCHANGED <<live, call, holds, clean, once, handlers, mutex>>
      BY <1>8 DEF Update, Goto, lockvars
    <3>3. pc' \in [Thread -> Places]
      BY <3>2 DEF TypeOK, Places, InCall, Inside
    <3> QED
      BY <3>1, <3>2, <3>3 DEF TypeOK
  <2>2. (Registered /\ Ended)'
    BY <1>8 DEF Update, At, Goto, TypeOK, Registered, Ended, lockvars
  <2>3. MutexAccounted'
    BY <1>8 DEF Update, At, Goto, TypeOK, MutexAccounted, Inside, InFork, lockvars
  <2> QED
    BY <2>1, <2>2, <2>3
<1>9. ASSUME NEW t \in Thread, Unlock(t) PROVE LockInv'
  <2>1. TypeOK'
    BY <1>9 DEF Unlock, At, Goto, TypeOK, Places, clientvars, heapvars
  <2>2. (Registered /\ Ended)'
    BY <1>9 DEF Unlock, At, Goto, TypeOK, Registered, Ended, clientvars
  <2>3. MutexAccounted'
    BY <1>9 DEF Unlock, At, Goto, TypeOK, MutexAccounted, Inside, InFork, heapvars
  <2> QED
    BY <2>1, <2>2, <2>3
<1>10. ASSUME NEW t \in Thread, Return(t) PROVE LockInv'
  <2>1. TypeOK'
    <3>1. Given(t) \subseteq Block
      BY DEF Given, TypeOK, Calls
    <3> QED
      BY <1>10, <3>1 DEF Return, Finish, At, Goto, TypeOK, Places, Calls, NoCall,
                         lockvars, heapvars
  <2>2. (Registered /\ Ended)'
    BY <1>10 DEF Return, Finish, At, Goto, TypeOK, Registered, Ended, lockvars
  <2>3. MutexAccounted'
    BY <1>10 DEF Return, Finish, At, Goto, TypeOK, MutexAccounted, Inside, InFork,
                 lockvars, heapvars
  <2> QED
    BY <2>1, <2>2, <2>3
<1>11. ASSUME NEW t \in Thread, StartFork(t) PROVE LockInv'
  <2>1. TypeOK'
    BY <1>11 DEF StartFork, At, Goto, TypeOK, Places, InFork, clientvars, lockvars,
                 heapvars
  <2>2. (Registered /\ Ended)'
    BY <1>11 DEF StartFork, At, Goto, TypeOK, Registered, Ended, clientvars, lockvars
  <2>3. MutexAccounted'
    BY <1>11 DEF StartFork, At, Goto, TypeOK, MutexAccounted, Inside, InFork,
                 lockvars, heapvars
  <2> QED
    BY <2>1, <2>2, <2>3
<1>12. ASSUME NEW t \in Thread, lock_before_fork(t) PROVE LockInv'
  <2>1. TypeOK'
    BY <1>12 DEF lock_before_fork, At, Goto, TypeOK, Places, InFork, clientvars,
                 heapvars
  <2>2. (Registered /\ Ended)'
    BY <1>12 DEF lock_before_fork, At, Goto, TypeOK, Registered, Ended, clientvars
  <2>3. MutexAccounted'
    BY <1>12 DEF lock_before_fork, At, Goto, TypeOK, Registered, MutexAccounted,
                 Inside, InFork, heapvars
  <2> QED
    BY <2>1, <2>2, <2>3
<1>13. ASSUME NEW t \in Thread, Clone(t) PROVE LockInv'
  <2>1. TypeOK'
    BY <1>13 DEF Clone, At, Goto, TypeOK, Places, Calls, NoCall, InFork, lockvars,
                 heapvars
  <2>2. (Registered /\ Ended)'
    BY <1>13 DEF Clone, At, Goto, TypeOK, Registered, Ended, lockvars
  <2>3. MutexAccounted'
    BY <1>13 DEF Clone, At, Goto, TypeOK, Registered, MutexAccounted, Inside,
                 InFork, lockvars, heapvars
  <2> QED
    BY <2>1, <2>2, <2>3
<1>14. ASSUME NEW t \in Thread, unlock_after_fork(t) PROVE LockInv'
  <2>1. TypeOK'
    BY <1>14 DEF unlock_after_fork, At, Goto, TypeOK, Places, clientvars, heapvars
  <2>2. (Registered /\ Ended)'
    BY <1>14 DEF unlock_after_fork, At, Goto, TypeOK, Registered, Ended, clientvars
  <2>3. MutexAccounted'
    BY <1>14 DEF unlock_after_fork, At, Goto, TypeOK, Registered, MutexAccounted,
                 Inside, InFork, heapvars
  <2> QED
    BY <2>1, <2>2, <2>3
<1>15. CASE UNCHANGED vars
  BY <1>15 DEF vars, clientvars, lockvars, heapvars, TypeOK, Registered, Ended,
               MutexAccounted, Inside, InFork
<1> QED
  BY <1>1, <1>2, <1>3, <1>4, <1>5, <1>6, <1>7, <1>8, <1>9, <1>10, <1>11, <1>12,
     <1>13, <1>14, <1>15 DEF Next, Continue

\* A child inherits neither a locked mutex nor a half-updated heap, and no two
\* threads are inside the allocator.
THEOREM MutexSafe == Spec => []MutexAccounted
<1>1. LockInv => MutexAccounted
  BY DEF LockInv
<1> QED
  BY <1>1, LockInit, LockStep, PTL DEF Spec

-----------------------------------------------------------------------------
(* The blocks.                                                             *)

LEMMA BlockInit == Init => BlockInv
<1> SUFFICES ASSUME Init PROVE BlockInv
  OBVIOUS
<1>1. Custody /\ ChoiceHolds
  BY DEF Init, Custody, Moving, InCall, Inside, ChoiceHolds
<1>2. CleanHeld /\ ContentsKept
  BY DEF Init, CleanHeld, ContentsKept
<1> QED
  BY <1>1, <1>2 DEF BlockInv

\* A step of one thread that takes no block from elsewhere and leaves the heap
\* as it is leaves every block where it is.
LEMMA CustodyKept ==
  ASSUME Custody, NEW t \in Thread, live' = live, used' = used,
         holds'[t] \cup Moving(t)' \subseteq holds[t] \cup Moving(t),
         holds'[t] \cap Moving(t)' = {},
         \A u \in live \ {t} : holds'[u] = holds[u] /\ Moving(u)' = Moving(u)
  PROVE  Custody'
<1>1. ASSUME NEW u \in live
      PROVE  holds'[u] \cup Moving(u)' \subseteq holds[u] \cup Moving(u)
  OBVIOUS
<1>2. ASSUME NEW u \in live
      PROVE  /\ holds[u] \cup Moving(u) \subseteq used
             /\ holds'[u] \cap Moving(u)' = {}
  BY DEF Custody
<1>3. ASSUME NEW u \in live, NEW v \in live \ {u}
      PROVE  (holds[u] \cup Moving(u)) \cap (holds[v] \cup Moving(v)) = {}
  BY DEF Custody
<1> QED
  BY <1>1, <1>2, <1>3 DEF Custody

LEMMA BlockStep ==
  ASSUME LockInv, LockInv', BlockInv, [Next]_vars
  PROVE  BlockInv'
<1>0. /\ TypeOK /\ Ended /\ MutexAccounted
      /\ TypeOK'
      /\ Custody /\ ChoiceHolds /\ CleanHeld /\ ContentsKept
  BY DEF LockInv, BlockInv
<1> USE <1>0
<1>1. ASSUME NEW t \in Thread, Begin(t) PROVE BlockInv'
  <2>0. /\ pc[t] = "idle" /\ pc' = [pc EXCEPT ![t] = "once"]
        /\ UNCHANGED <<live, zero, used>> /\ t \in live
    BY <1>1 DEF Begin, At, Goto, heapvars
  <2>1. \A u \in live \ {t} :
          pc'[u] = pc[u] /\ call'[u] = call[u] /\ holds'[u] = holds[u]
    BY <1>1 DEF Begin, Goto, TypeOK
  <2>2. \/ /\ call'[t].op \in {"malloc", "calloc"} /\ call'[t].block = NULL
           /\ UNCHANGED <<holds, clean>>
        \/ \E block \in holds[t] :
             /\ call'[t].op = "free" /\ call'[t].block = block
             /\ holds' = [holds EXCEPT ![t] = @ \ {block}]
             /\ clean' = clean \ {block}
    BY <1>1 DEF Begin, TypeOK
  <2>3. Custody'
    <3>1. \A u \in live \ {t} : Moving(u)' = Moving(u)
      BY <2>1 DEF Moving, Given, Allocates
    <3>2. /\ holds'[t] \cup Moving(t)' \subseteq holds[t] \cup Moving(t)
          /\ holds'[t] \cap Moving(t)' = {}
      BY <2>0, <2>2 DEF Moving, InCall, TypeOK
    <3> QED
      BY <2>0, <2>1, <3>1, <3>2, CustodyKept
  <2>4. ChoiceHolds'
    BY <2>0, <2>1, <2>2 DEF ChoiceHolds, Allocates, InCall, Inside, TypeOK
  <2>5. CleanHeld'
    BY <2>0, <2>1, <2>2 DEF CleanHeld, TypeOK
  <2>6. ContentsKept'
    <3>1. CASE UNCHANGED <<holds, clean>>
      BY <2>0, <3>1 DEF ContentsKept
    <3>2. ASSUME NEW block \in holds[t],
                 holds' = [holds EXCEPT ![t] = @ \ {block}],
                 clean' = clean \ {block}
          PROVE  ContentsKept'
      <4>1. \A u \in live : block \notin holds'[u]
        BY <2>0, <3>2 DEF Custody, TypeOK
      <4>2. \A u \in live : holds'[u] \subseteq holds[u]
        BY <3>2 DEF TypeOK
      <4> QED
        BY <2>0, <3>2, <4>1, <4>2 DEF ContentsKept
    <3> QED
      BY <2>2, <3>1, <3>2
  <2> QED
    BY <2>3, <2>4, <2>5, <2>6 DEF BlockInv
<1>2. ASSUME NEW t \in Thread, Spawn(t) PROVE BlockInv'
  <2>1. /\ UNCHANGED <<pc, call, holds, clean, zero, used>>
        /\ live \subseteq live'
        /\ \A u \in live' \ live : pc[u] = "idle" /\ holds[u] = {}
    BY <1>2 DEF Spawn, clientvars, heapvars, Ended
  <2>2. \A u \in Thread : Moving(u)' = Moving(u)
    BY <2>1 DEF Moving, Given, Allocates
  <2>3. \A u \in live' \ live : holds[u] \cup Moving(u) = {}
    BY <2>1 DEF Moving, InCall, Inside
  <2>4. Custody'
    BY <2>1, <2>2, <2>3 DEF Custody, TypeOK
  <2>5. (ChoiceHolds /\ CleanHeld /\ ContentsKept)'
    BY <2>1 DEF ChoiceHolds, Allocates, InCall, Inside, CleanHeld, ContentsKept
  <2> QED
    BY <2>4, <2>5 DEF BlockInv
<1>3. ASSUME NEW t \in Thread, Exit(t) PROVE BlockInv'
  <2>1. /\ UNCHANGED <<pc, call, zero, used>>
        /\ live' = live \ {t} /\ t \in live /\ clean' = clean \ holds[t]
        /\ \A u \in live' : holds'[u] = holds[u]
    BY <1>3 DEF Exit, At, heapvars, TypeOK
  <2>2. \A u \in Thread : Moving(u)' = Moving(u)
    BY <2>1 DEF Moving, Given, Allocates
  <2>3. Custody'
    BY <2>1, <2>2 DEF Custody, TypeOK
  <2>4. (ChoiceHolds /\ CleanHeld)'
    BY <2>1 DEF ChoiceHolds, Allocates, InCall, Inside, CleanHeld
  <2>5. \A u \in live' : holds[u] \cap holds[t] = {}
    BY <2>1 DEF Custody
  <2>6. ContentsKept'
    BY <2>1, <2>5 DEF ContentsKept
  <2> QED
    BY <2>3, <2>4, <2>6 DEF BlockInv
<1>4. ASSUME NEW t \in live, NEW place,
             pc' = [pc EXCEPT ![t] = place],
             <<pc[t], place>> \in
               {<<"once", "lock">>, <<"lock", "inside">>, <<"unlock", "return">>,
                <<"idle", "prepare">>, <<"idle", "clone">>, <<"prepare", "clone">>,
                <<"clone", "parent">>, <<"clone", "idle">>,
                <<"parent", "idle">>, <<"child", "idle">>},
             UNCHANGED <<live, call, holds, clean, zero, used>>
      PROVE  BlockInv'
  <2>1. /\ t \in Thread /\ pc'[t] = place
        /\ \A u \in live \ {t} : pc'[u] = pc[u]
    BY <1>4 DEF TypeOK
  <2>2. \A u \in live : Moving(u)' = Moving(u)
    BY <1>4, <2>1 DEF Moving, Given, Allocates, InCall, Inside
  <2>3. Custody'
    BY <1>4, <2>2 DEF Custody
  <2>4. ChoiceHolds'
    BY <1>4, <2>1 DEF ChoiceHolds, Allocates, InCall, Inside
  <2>5. (CleanHeld /\ ContentsKept)'
    BY <1>4 DEF CleanHeld, ContentsKept
  <2> QED
    BY <2>3, <2>4, <2>5 DEF BlockInv
<1>5. ASSUME NEW t \in Thread,
             \/ register_atfork(t) \/ PassOnce(t) \/ Lock(t) \/ Unlock(t)
             \/ StartFork(t) \/ lock_before_fork(t) \/ unlock_after_fork(t)
      PROVE  BlockInv'
  <2>1. \/ register_atfork(t) \/ PassOnce(t)
        => /\ t \in live /\ pc[t] = "once" /\ pc' = [pc EXCEPT ![t] = "lock"]
           /\ UNCHANGED <<live, call, holds, clean, zero, used>>
    BY DEF register_atfork, PassOnce, At, Goto, clientvars, lockvars, heapvars
  <2>2. Lock(t)
        => /\ t \in live /\ pc[t] = "lock" /\ pc' = [pc EXCEPT ![t] = "inside"]
           /\ UNCHANGED <<live, call, holds, clean, zero, used>>
    BY DEF Lock, At, Goto, clientvars, heapvars
  <2>3. Unlock(t)
        => /\ t \in live /\ pc[t] = "unlock" /\ pc' = [pc EXCEPT ![t] = "return"]
           /\ UNCHANGED <<live, call, holds, clean, zero, used>>
    BY DEF Unlock, At, Goto, clientvars, heapvars
  <2>4. StartFork(t)
        => /\ t \in live /\ pc[t] = "idle"
           /\ \/ pc' = [pc EXCEPT ![t] = "prepare"]
              \/ pc' = [pc EXCEPT ![t] = "clone"]
           /\ UNCHANGED <<live, call, holds, clean, zero, used>>
    BY DEF StartFork, At, Goto, clientvars, heapvars
  <2>5. lock_before_fork(t)
        => /\ t \in live /\ pc[t] = "prepare" /\ pc' = [pc EXCEPT ![t] = "clone"]
           /\ UNCHANGED <<live, call, holds, clean, zero, used>>
    BY DEF lock_before_fork, At, Goto, clientvars, heapvars
  <2>6. unlock_after_fork(t)
        => /\ t \in live /\ pc[t] \in {"parent", "child"}
           /\ pc' = [pc EXCEPT ![t] = "idle"]
           /\ UNCHANGED <<live, call, holds, clean, zero, used>>
    BY DEF unlock_after_fork, At, Goto, clientvars, heapvars
  <2> QED
    BY <1>4, <1>5, <2>1, <2>2, <2>3, <2>4, <2>5, <2>6
<1>6. ASSUME NEW t \in Thread, Choose(t) PROVE BlockInv'
  <2>0. /\ t \in live /\ pc[t] = "inside" /\ pc' = [pc EXCEPT ![t] = "update"]
        /\ UNCHANGED <<live, holds, clean, zero, used>>
    BY <1>6 DEF Choose, At, Goto, clientvars
  <2>1. \A u \in live \ {t} : pc'[u] = pc[u] /\ call'[u] = call[u]
    BY <1>6 DEF Choose, Goto, TypeOK
  <2>2. /\ call'[t].op = call[t].op
        /\ IF Allocates(t) THEN call'[t].block \notin used
           ELSE call'[t] = call[t]
    <3>1. CASE Allocates(t) /\ used # Block
      <4>1. PICK block \in Block \ used : call' = [call EXCEPT ![t].block = block]
        BY <1>6, <3>1 DEF Choose
      <4>2. call[t] \in Calls
        BY DEF TypeOK
      <4> QED
        BY <3>1, <4>1, <4>2 DEF TypeOK, Calls
    <3>2. CASE ~(Allocates(t) /\ used # Block)
      <4>1. call' = call
        BY <1>6, <3>2 DEF Choose
      <4>2. Allocates(t) => call[t].block = NULL
        BY <2>0 DEF ChoiceHolds
      <4> QED
        BY <4>1, <4>2 DEF TypeOK
    <3> QED
      BY <3>1, <3>2
  <2>3. \A u \in live : Moving(u)' = Moving(u)
    <3>1. Moving(t)' = Moving(t)
      BY <2>0, <2>2 DEF Moving, Allocates, InCall, Inside, TypeOK
    <3>2. \A u \in live \ {t} : Moving(u)' = Moving(u)
      BY <2>1 DEF Moving, Given, Allocates
    <3> QED
      BY <3>1, <3>2
  <2>4. Custody'
    BY <2>0, <2>3 DEF Custody
  <2>5. ChoiceHolds'
    BY <2>0, <2>1, <2>2 DEF ChoiceHolds, Allocates, InCall, Inside, TypeOK
  <2>6. (CleanHeld /\ ContentsKept)'
    BY <2>0 DEF CleanHeld, ContentsKept
  <2> QED
    BY <2>4, <2>5, <2>6 DEF BlockInv
<1>7. ASSUME NEW t \in Thread, Update(t) PROVE BlockInv'
  <2> DEFINE block == {call[t].block} \ {NULL}
  <2>0. /\ t \in live /\ pc[t] = "update" /\ pc' = [pc EXCEPT ![t] = "unlock"]
        /\ UNCHANGED <<live, call, holds, clean>>
        /\ IF Allocates(t)
           THEN used' = used \cup block /\ zero' = zero
           ELSE used' = used \ block /\ zero' = zero \ block
    BY <1>7 DEF Update, At, Goto
  <2>1. /\ pc'[t] = "unlock"
        /\ \A u \in live \ {t} : pc'[u] = pc[u] /\ pc[u] # "update"
    BY <2>0 DEF TypeOK, MutexAccounted, Inside
  <2>2. \A u \in live \ {t} : Moving(u)' = Moving(u)
    BY <2>0, <2>1 DEF Moving, Given, Allocates
  <2>3. Moving(t)' = IF Allocates(t) THEN block ELSE {}
    BY <2>0, <2>1 DEF Moving, Given, Allocates
  <2>4. IF Allocates(t) THEN Moving(t) = {} /\ block \cap used = {}
        ELSE Moving(t) = {call[t].block} /\ Moving(t) = block
    <3>1. CASE Allocates(t)
      BY <2>0, <3>1 DEF Moving, Allocates, ChoiceHolds
    <3>2. CASE ~Allocates(t)
      <4>1. call[t].op = "free"
        BY <2>0, <3>2 DEF ChoiceHolds, Allocates, InCall, Inside, TypeOK, Calls
      <4>2. Moving(t) = {call[t].block}
        BY <2>0, <4>1 DEF Moving, InCall, Inside
      <4>3. call[t].block \in Block
        BY <2>0, <4>2 DEF Custody, TypeOK
      <4> QED
        BY <3>2, <4>2, <4>3
    <3> QED
      BY <3>1, <3>2
  <2> HIDE DEF block
  <2>5. Custody'
    BY <2>0, <2>2, <2>3, <2>4 DEF Custody
  <2>6. ChoiceHolds'
    BY <2>0, <2>1 DEF ChoiceHolds, Allocates, InCall, Inside
  <2>7. CleanHeld'
    BY <2>0 DEF CleanHeld
  <2>8. ContentsKept'
    <3>1. ~Allocates(t) => \A u \in live : holds[u] \cap block = {}
      BY <2>0, <2>4 DEF Custody
    <3> QED
      BY <2>0, <3>1 DEF ContentsKept
  <2> QED
    BY <2>5, <2>6, <2>7, <2>8 DEF BlockInv
<1>8. ASSUME NEW t \in Thread, Return(t) PROVE BlockInv'
  <2>0. /\ t \in live /\ pc[t] = "return" /\ pc' = [pc EXCEPT ![t] = "idle"]
        /\ call' = [call EXCEPT ![t] = NoCall]
        /\ holds' = [holds EXCEPT ![t] = @ \cup Given(t)]
        /\ UNCHANGED <<live, used>>
        /\ IF call[t].op = "calloc"
           THEN clean' = clean \cup Given(t) /\ zero' = zero \cup Given(t)
           ELSE clean' = clean /\ zero' = zero \ Given(t)
    BY <1>8 DEF Return, Finish, At, Goto, heapvars
  <2>1. /\ pc'[t] = "idle" /\ holds'[t] = holds[t] \cup Given(t)
        /\ \A u \in live \ {t} :
             pc'[u] = pc[u] /\ call'[u] = call[u] /\ holds'[u] = holds[u]
    BY <2>0 DEF TypeOK
  <2>2. Moving(t) = Given(t) /\ Moving(t)' = {}
    BY <2>0, <2>1 DEF Moving, InCall, Inside
  <2>3. \A u \in live \ {t} : Moving(u)' = Moving(u)
    BY <2>1 DEF Moving, Given, Allocates
  <2>4. Custody'
    BY <2>0, <2>1, <2>2, <2>3, CustodyKept
  <2>5. ChoiceHolds'
    BY <2>0, <2>1 DEF ChoiceHolds, Allocates, InCall, Inside
  <2>6. \A u \in live : holds[u] \cap Given(t) = {}
    BY <2>0, <2>2 DEF Custody
  <2>7. CleanHeld'
    BY <2>0, <2>1 DEF CleanHeld
  <2>8. ContentsKept'
    <3>1. clean \cap Given(t) = {}
      BY <2>6 DEF CleanHeld
    <3> QED
      BY <2>0, <2>1, <2>6, <3>1 DEF ContentsKept
  <2> QED
    BY <2>4, <2>5, <2>7, <2>8 DEF BlockInv
<1>9. ASSUME NEW t \in Thread, Clone(t) PROVE BlockInv'
  <2>0. t \in live /\ pc[t] = "clone" /\ UNCHANGED <<zero, used>>
    BY <1>9 DEF Clone, At, heapvars
  <2>1. CASE UNCHANGED <<live, call, holds, clean>>
               /\ Goto(t, IF handlers > 0 THEN "parent" ELSE "idle")
    BY <1>4, <2>0, <2>1 DEF Goto
  <2>2. CASE /\ live' = {t} /\ clean' = clean \cap holds[t]
             /\ holds' = [u \in Thread |-> IF u = t THEN holds[t] ELSE {}]
             /\ pc' = [u \in Thread |->
                         IF u = t /\ handlers > 0 THEN "child" ELSE "idle"]
    <3>1. holds'[t] = holds[t] /\ pc'[t] \in {"child", "idle"}
      BY <2>2
    <3>2. Moving(t)' = {}
      BY <3>1 DEF Moving, InCall, Inside
    <3>3. (Custody /\ ChoiceHolds)'
      BY <2>0, <2>2, <3>1, <3>2 DEF Custody, ChoiceHolds, InCall, Inside
    <3>4. (CleanHeld /\ ContentsKept)'
      BY <2>0, <2>2, <3>1 DEF CleanHeld, ContentsKept
    <3> QED
      BY <3>3, <3>4 DEF BlockInv
  <2> QED
    BY <1>9, <2>1, <2>2 DEF Clone
<1>10. CASE UNCHANGED vars
  BY <1>10 DEF vars, clientvars, heapvars, BlockInv, Custody, Moving, Given,
               Allocates, ChoiceHolds, CleanHeld, ContentsKept
<1> QED
  BY <1>1, <1>2, <1>3, <1>5, <1>6, <1>7, <1>8, <1>9, <1>10 DEF Next, Continue

LEMMA BlocksInductive == Spec => []BlockInv
<1>1. Init => LockInv /\ BlockInv
  BY LockInit, BlockInit
<1>2. LockInv /\ BlockInv /\ [Next]_vars => (LockInv /\ BlockInv)'
  <2> SUFFICES ASSUME LockInv, BlockInv, [Next]_vars
               PROVE  LockInv' /\ BlockInv'
    OBVIOUS
  <2>1. LockInv'
    BY LockStep
  <2> QED
    BY <2>1, BlockStep
<1> QED
  BY <1>1, <1>2, PTL DEF Spec

\* No block is given to two threads, nor free while a thread holds it, for any
\* number of threads and any interleaving of their calls and forks.
THEOREM OwnersSafe == Spec => []OneOwner
<1>1. BlockInv => OneOwner
  <2> SUFFICES ASSUME BlockInv PROVE OneOwner
    OBVIOUS
  <2>1. \A t \in live : Owned(t) \subseteq holds[t] \cup Moving(t)
    BY DEF Owned, Moving
  <2> QED
    BY <2>1 DEF BlockInv, Custody, OneOwner
<1> QED
  BY <1>1, BlocksInductive, PTL

\* What calloc cleared without the lock is zero until its owner writes.
THEOREM ContentsSafe == Spec => []ContentsKept
<1>1. BlockInv => ContentsKept
  BY DEF BlockInv
<1> QED
  BY <1>1, BlocksInductive, PTL

=============================================================================
