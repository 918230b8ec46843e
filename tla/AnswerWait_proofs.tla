--------------------------- MODULE AnswerWait_proofs ---------------------------
(***************************************************************************)
(* For every number of threads, all scripts and every bound: g_mutex stays *)
(* locked only after a cond_wait that timed out, and only up to the next   *)
(* wait of its thread; an attempt that went through all its queries has    *)
(* every mandatory result; and only what a script asks for is ever in the  *)
(* queues or stored.                                                       *)
(***************************************************************************)
EXTENDS AnswerWait, TLAPS

\* Who owns g_mutex depends on where the threads are.  A thread may lose the mutex to
\* the first line of another one's cond_wait, so only one direction is invariant.
LockInv ==
    /\ pc \in [Threads -> Labels]
    /\ script \in Scripts
    /\ pos \in [Threads -> Nat]
    /\ \A t \in Threads : pc[t] = "idle" \/ pos[t] \in DOMAIN script[t]
    /\ mutex \in Threads \cup {NoThread}
    /\ missed \in SUBSET Threads
    /\ LockLeftByTimeout

\* No thread has the mutex when the process starts.
LEMMA InitLockInv == Init => LockInv
BY ConstantsAssumption DEF Init, LockInv, LockLeftByTimeout, Labels

\* A script is a sequence, so it has a first query and a next one up to its length.
LEMMA ScriptDomain ==
    ASSUME LockInv, NEW t \in Threads
    PROVE  /\ script[t] # <<>> => 1 \in DOMAIN script[t]
           /\ pos[t] \in DOMAIN script[t] /\ pos[t] < Len(script[t])
                => pos[t] + 1 \in DOMAIN script[t]
<1>1. script[t] \in Seq(Queries)
  BY ConstantsAssumption DEF LockInv
<1>2. QED
  BY <1>1

\* Every step of a thread, of the peers and of the message thread keeps LockInv.
LEMMA LockInvStep == LockInv /\ [Next]_vars => LockInv'
<1> SUFFICES ASSUME LockInv, [Next]_vars PROVE LockInv'
  OBVIOUS
<1> USE DEF LockInv, LockLeftByTimeout, Goto, Labels
<1>1. ASSUME NEW t \in Threads, StartAttempt(t) PROVE LockInv'
  <2>1. script[t] # <<>> => 1 \in DOMAIN script[t]
    BY ScriptDomain
  <2>2. QED
    BY <1>1, <2>1 DEF StartAttempt
<1>2. ASSUME NEW t \in Threads, EnterQuery(t) PROVE LockInv'
  BY <1>2 DEF EnterQuery
<1>3. ASSUME NEW t \in Threads, SendRequest(t) PROVE LockInv'
  BY <1>3 DEF SendRequest
<1>4. ASSUME NEW t \in Threads, HelperUnlock(t) PROVE LockInv'
  BY <1>4, ConstantsAssumption DEF HelperUnlock
<1>5. ASSUME NEW t \in Threads, Lock(t) PROVE LockInv'
  BY <1>5, ConstantsAssumption DEF Lock
<1>6. ASSUME NEW t \in Threads, StartWait(t) PROVE LockInv'
  BY <1>6, ConstantsAssumption DEF StartWait
<1>7. ASSUME NEW t \in Threads, TimeOut(t) PROVE LockInv'
  BY <1>7 DEF TimeOut
<1>8. ASSUME NEW t \in Threads, ReturnSignalled(t) PROVE LockInv'
  BY <1>8, ConstantsAssumption DEF ReturnSignalled
<1>9. ASSUME NEW t \in Threads, ReturnTimedOut(t) PROVE LockInv'
  <2>1. /\ pc[t] = "timedout" /\ mutex = NoThread
        /\ pc' = [pc EXCEPT ![t] = "loop"]
        /\ UNCHANGED <<script, pos>>
    BY <1>9 DEF ReturnTimedOut
  <2>2. CASE Query(t).helper
    <3>1. mutex' = t /\ missed' = missed \cup {t}
      BY <1>9, <2>2 DEF ReturnTimedOut, Missed
    <3>2. QED
      BY <2>1, <3>1
  <2>3. CASE ~Query(t).helper
    <3>1. mutex' = NoThread /\ missed' = missed \ {t}
      BY <1>9, <2>3 DEF ReturnTimedOut, Missed
    <3>2. QED
      BY <2>1, <3>1, ConstantsAssumption
  <2>4. QED
    BY <2>2, <2>3
<1>10. ASSUME NEW t \in Threads, LeaveQuery(t) PROVE LockInv'
  <2>1. pos[t] \in DOMAIN script[t] /\ pos[t] < Len(script[t])
            => pos[t] + 1 \in DOMAIN script[t]
    BY ScriptDomain
  <2>2. \/ UNCHANGED pos
        \/ /\ pos[t] < Len(script[t])
           /\ pos' = [pos EXCEPT ![t] = @ + 1]
    BY <1>10 DEF LeaveQuery
  <2>3. /\ pc[t] = "leave"
        /\ \E l \in {"failed", "loop", "enter", "done"} : pc' = [pc EXCEPT ![t] = l]
        /\ UNCHANGED <<script, mutex, missed>>
    BY <1>10 DEF LeaveQuery
  <2>4. QED
    BY <2>1, <2>2, <2>3
<1>11. ASSUME NEW good \in BOOLEAN, Answer(good) PROVE LockInv'
  BY <1>11 DEF Answer
<1>12. CASE MessageThread
  BY <1>12 DEF MessageThread
<1>13. CASE UNCHANGED vars
  BY <1>13 DEF vars
<1>14. QED
  BY <1>1, <1>2, <1>3, <1>4, <1>5, <1>6, <1>7, <1>8, <1>9, <1>10, <1>11, <1>12, <1>13
  DEF Next, ThreadStep

\* g_mutex is left locked only by a timeout of cond_wait, in get_esim_enable_state,
\* get_oem_pri_version and the JP FCC configuration, and only up to the next wait of
\* that thread, whatever scripts and however many threads there are.
THEOREM LockIsLeftByTimeout == Spec => []LockLeftByTimeout
<1>1. LockInv => LockLeftByTimeout
  BY DEF LockInv
<1>2. QED
  BY InitLockInv, LockInvStep, <1>1, PTL DEF Spec

-------------------------------------------------------------------------------
(* The shape of the state.                                                  *)

\* LockInv with the queues and the counters: TypeOK, with pos a number also in a
\* thread that never starts.
ShapeInv ==
    /\ LockInv
    /\ retry \in [Threads -> Nat]
    /\ attempts \in 0..MaxAttempts
    /\ known \in SUBSET Cids
    /\ requests \in Seq(Cids)
    /\ answers \in Seq([cid : Cids, good : BOOLEAN])

\* The queues are empty when the process starts.
LEMMA InitShapeInv == Init => ShapeInv
<1> SUFFICES ASSUME Init PROVE ShapeInv
  OBVIOUS
<1>1. LockInv
  BY InitLockInv
<1>2. /\ retry \in [Threads -> Nat] /\ attempts \in 0..MaxAttempts /\ known \in SUBSET Cids
      /\ requests \in Seq(Cids) /\ answers \in Seq([cid : Cids, good : BOOLEAN])
  BY ConstantsAssumption DEF Init
<1>3. QED
  BY <1>1, <1>2 DEF ShapeInv

\* What a running thread asks for is one of the things asked for.
LEMMA QueryCid ==
    ASSUME LockInv, NEW t \in Threads, pc[t] # "idle"
    PROVE  Query(t).cid \in Cids
BY DEF LockInv, Query, Cids

\* The parts of a queue that is not empty.
LEMMA QueueParts ==
    ASSUME NEW S, NEW q \in Seq(S), q # <<>>
    PROVE  Head(q) \in S /\ Tail(q) \in Seq(S)
OBVIOUS

\* A process keeps its scripts.
LEMMA ScriptFixed == [Next]_vars => script' = script
BY DEF Next, vars, StartAttempt, ThreadStep, EnterQuery, SendRequest, HelperUnlock, Lock,
   StartWait, TimeOut, ReturnSignalled, ReturnTimedOut, LeaveQuery, Answer, MessageThread

\* No step sends, answers or stores anything that no script asks for.
LEMMA ShapeInvStep == ShapeInv /\ [Next]_vars => ShapeInv'
<1> SUFFICES ASSUME ShapeInv, [Next]_vars PROVE ShapeInv'
  OBVIOUS
<1> DEFINE Shape(C) ==
      /\ retry' \in [Threads -> Nat]
      /\ attempts' \in 0..MaxAttempts
      /\ known' \in SUBSET C
      /\ requests' \in Seq(C)
      /\ answers' \in Seq([cid : C, good : BOOLEAN])
<1>1. script' = script
  BY ScriptFixed
<1>2. Cids' = Cids
  BY <1>1 DEF Cids
<1>3. LockInv'
  BY LockInvStep DEF ShapeInv
<1>4. ASSUME NEW t \in Threads, StartAttempt(t) PROVE Shape(Cids)
  BY <1>4, ConstantsAssumption DEF StartAttempt, ShapeInv
<1>5. ASSUME NEW t \in Threads, EnterQuery(t) PROVE Shape(Cids)
  BY <1>5 DEF EnterQuery, ShapeInv
<1>6. ASSUME NEW t \in Threads, SendRequest(t) PROVE Shape(Cids)
  <2>1. Query(t).cid \in Cids
    BY <1>6, QueryCid DEF SendRequest, ShapeInv
  <2>2. requests' = requests \/ requests' = Append(requests, Query(t).cid)
    BY <1>6 DEF SendRequest
  <2>3. requests' \in Seq(Cids)
    BY <2>1, <2>2, SMTT(30) DEF ShapeInv
  <2>4. QED
    BY <1>6, <2>3 DEF SendRequest, ShapeInv
<1>7. ASSUME NEW t \in Threads,
             HelperUnlock(t) \/ Lock(t) \/ StartWait(t) \/ TimeOut(t) \/ ReturnSignalled(t)
      PROVE  Shape(Cids)
  BY <1>7 DEF HelperUnlock, Lock, StartWait, TimeOut, ReturnSignalled, ShapeInv
<1>8. ASSUME NEW t \in Threads, ReturnTimedOut(t) \/ LeaveQuery(t) PROVE Shape(Cids)
  BY <1>8 DEF ReturnTimedOut, LeaveQuery, ShapeInv
<1>9. ASSUME NEW good \in BOOLEAN, Answer(good) PROVE Shape(Cids)
  <2>1. Head(requests) \in Cids /\ Tail(requests) \in Seq(Cids)
    BY <1>9, QueueParts DEF Answer, ShapeInv
  <2>2. [cid |-> Head(requests), good |-> good] \in [cid : Cids, good : BOOLEAN]
    BY <2>1
  <2>3. answers' \in Seq([cid : Cids, good : BOOLEAN])
    BY <1>9, <2>2 DEF Answer, ShapeInv
  <2>4. QED
    BY <1>9, <2>1, <2>3 DEF Answer, ShapeInv
<1>10. ASSUME MessageThread PROVE Shape(Cids)
  <2> DEFINE A == [cid : Cids, good : BOOLEAN]
  <2>1. Head(answers) \in A /\ Tail(answers) \in Seq(A)
    <3>1. answers \in Seq(A) /\ answers # <<>>
      BY <1>10 DEF MessageThread, ShapeInv
    <3> HIDE DEF A
    <3>2. QED
      BY <3>1, QueueParts
  <2>2. Head(answers).cid \in Cids
    BY <2>1
  <2>3. QED
    BY <1>10, <2>1, <2>2 DEF MessageThread, ShapeInv
<1>11. ASSUME UNCHANGED vars PROVE Shape(Cids)
  BY <1>11 DEF vars, ShapeInv
<1>12. Shape(Cids)
  BY <1>4, <1>5, <1>6, <1>7, <1>8, <1>9, <1>10, <1>11 DEF Next, ThreadStep
<1>13. QED
  BY <1>2, <1>3, <1>12 DEF ShapeInv

\* Every thread that runs is at a query of its script, and the queues and the
\* stored answers are about queries of the scripts only.
THEOREM TypeCorrect == Spec => []TypeOK
<1>1. ShapeInv => TypeOK
  BY DEF ShapeInv, LockInv, TypeOK
<1>2. QED
  BY InitShapeInv, ShapeInvStep, <1>1, PTL DEF Spec

-------------------------------------------------------------------------------
(* The results of an attempt.                                               *)

\* t is the only thread that ever asked for something.
Alone(t) == \A u \in Threads \ {t} : pc[u] = "idle"

\* The queries of t that are over.
Over(t) == {i \in DOMAIN script[t] : i < pos[t] \/ pc[t] = "done"}

\* While a thread is alone, the mandatory results of its earlier queries are all
\* there, but for the one that it has emptied to ask for it again.
ResultInv ==
    \A t \in Threads : pc[t] # "idle" /\ Alone(t) =>
        \A i \in Over(t) : Must(script[t][i]) =>
            \/ script[t][i].cid \in known
            \/ pc[t] \notin {"enter", "done"} /\ script[t][i].cid = Query(t).cid

\* No step makes a thread idle, so a thread that is alone was alone.
LEMMA AloneBefore ==
    ASSUME LockInv, [Next]_vars, NEW t \in Threads, Alone(t)'
    PROVE  Alone(t)
<1>1. ASSUME NEW u \in Threads, pc'[u] = "idle" PROVE pc[u] = "idle"
  BY <1>1 DEF LockInv, Next, vars, StartAttempt, ThreadStep, EnterQuery, SendRequest,
     HelperUnlock, Lock, StartWait, TimeOut, ReturnSignalled, ReturnTimedOut, LeaveQuery,
     Answer, MessageThread, Goto
<1>2. QED
  BY <1>1 DEF Alone

\* Nothing is over for the thread before its first query.
LEMMA InitResultInv == Init => ResultInv
BY DEF Init, ResultInv

\* A step of the thread that is alone keeps ResultInv; the steps of the peers and
\* of the message thread only add to what is known.
LEMMA ResultInvStep == LockInv /\ ResultInv /\ [Next]_vars => ResultInv'
<1> SUFFICES ASSUME LockInv, ResultInv, [Next]_vars,
                    NEW t \in Threads, pc'[t] # "idle", Alone(t)',
                    NEW i \in Over(t)', Must(script'[t][i])
             PROVE  \/ script'[t][i].cid \in known'
                    \/ /\ pc'[t] \notin {"enter", "done"}
                       /\ script'[t][i].cid = Query(t)'.cid
  BY DEF ResultInv
<1> DEFINE c == script[t][i].cid
           Kept == c \in known \/ (pc[t] \notin {"enter", "done"} /\ c = Query(t).cid)
<1>1. Alone(t) /\ LockInv'
  BY AloneBefore, LockInvStep
<1>2. script' = script /\ Must(script[t][i])
  BY ScriptFixed
<1>3. i \in Over(t) /\ pc[t] # "idle" => Kept
  BY <1>1, <1>2 DEF ResultInv
<1>4. ASSUME NEW u \in Threads, StartAttempt(u) \/ ThreadStep(u) PROVE u = t
  BY <1>1, <1>4 DEF Alone, LockInv, StartAttempt, ThreadStep, EnterQuery, SendRequest,
     HelperUnlock, Lock, StartWait, TimeOut, ReturnSignalled, ReturnTimedOut, LeaveQuery, Goto
<1> USE <1>2 DEF LockInv, Goto, Over, Query
<1>5. CASE StartAttempt(t)
  <2>1. pos'[t] = 1 /\ pc'[t] = "enter" /\ i \in DOMAIN script[t] /\ i < 1
    BY <1>5 DEF StartAttempt
  <2>2. script[t] \in Seq(Queries)
    BY ConstantsAssumption
  <2>3. QED
    BY <2>1, <2>2
<1>6. CASE EnterQuery(t)
  BY <1>3, <1>6 DEF EnterQuery
<1>7. CASE SendRequest(t)
  BY <1>3, <1>7 DEF SendRequest
<1>8. CASE HelperUnlock(t) \/ Lock(t) \/ StartWait(t) \/ TimeOut(t) \/ ReturnSignalled(t)
             \/ ReturnTimedOut(t)
  BY <1>3, <1>8 DEF HelperUnlock, Lock, StartWait, TimeOut, ReturnSignalled, ReturnTimedOut
<1>9. CASE LeaveQuery(t)
  <2>1. /\ script[t] \in Seq(Queries) /\ pos[t] \in DOMAIN script[t]
        /\ pc[t] = "leave" /\ known' = known
    BY <1>9, ConstantsAssumption DEF LeaveQuery
  <2>2. CASE pc'[t] = "failed"
    BY <1>3, <1>9, <2>1, <2>2 DEF LeaveQuery
  <2>5. CASE pc'[t] = "loop"
    BY <1>3, <1>9, <2>1, <2>5 DEF LeaveQuery
  <2>3. CASE pc'[t] \notin {"failed", "loop"}
    <3>0. ~Fails(t) /\ ~Repeats(t)
      BY <1>9, <2>3 DEF LeaveQuery
    <3>1. Must(Query(t)) => Query(t).cid \in known
      BY <3>0 DEF Must, Fails, Repeats, Empty, Exhausted
    <3>2. i = pos[t] \/ i < pos[t]
      <4>1. /\ i \in DOMAIN script[t]
            /\ i < pos[t] + 1 \/ pos[t] = Len(script[t])
        BY <1>9, <2>1, <2>3 DEF LeaveQuery
      <4>2. QED
        BY <2>1, <4>1
    <3>3. CASE i < pos[t]
      <4>1. Kept
        BY <1>3, <2>1, <3>3
      <4>2. c = Query(t).cid => Must(Query(t))
        BY <2>1, <3>3, MustAssumption
      <4>3. QED
        BY <2>1, <3>1, <4>1, <4>2
    <3>4. QED
      BY <2>1, <3>1, <3>2, <3>3
  <2>4. QED
    BY <2>2, <2>3, <2>5
<1>10. ASSUME NEW good \in BOOLEAN, Answer(good) PROVE Kept /\ UNCHANGED <<pc, pos, known>>
  BY <1>3, <1>10 DEF Answer
<1>11. CASE MessageThread
  <2>1. /\ known \subseteq known' /\ pos' = pos
        /\ pc'[t] = pc[t] \/ (pc[t] = "wait" /\ pc'[t] = "signalled")
    BY <1>11 DEF MessageThread
  <2>2. QED
    BY <1>3, <2>1
<1>12. CASE UNCHANGED vars
  BY <1>3, <1>12 DEF vars
<1>13. QED
  BY <1>4, <1>5, <1>6, <1>7, <1>8, <1>9, <1>10, <1>11, <1>12 DEF Next, ThreadStep

\* get_current_fw_version and the carrier query: an attempt that comes to its end
\* has every mandatory result, though every answer may end the wait for another
\* one, come late or be lost, for every script and any number of retries.
THEOREM ResultsComplete == Spec => []DoneMeansKnown
<1>1. ResultInv => DoneMeansKnown
  <2> SUFFICES ASSUME ResultInv, NEW t \in Threads, pc[t] = "done", Alone(t),
                      NEW i \in DOMAIN script[t], Must(script[t][i])
               PROVE  script[t][i].cid \in known
    BY DEF DoneMeansKnown, Alone
  <2>1. i \in Over(t)
    BY DEF Over
  <2>2. QED
    BY <2>1 DEF ResultInv
<1>2. QED
  BY InitLockInv, LockInvStep, InitResultInv, ResultInvStep, <1>1, PTL DEF Spec
================================================================================
