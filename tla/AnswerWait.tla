------------------------------ MODULE AnswerWait ------------------------------
(***************************************************************************)
(* How pwl_fwupdate asks pwl_pref and pwl_madpt for something and waits    *)
(* for the answer.  A thread sends a request to a message queue and waits  *)
(* on the one condition variable g_cond with the one mutex g_mutex that    *)
(* all requests share; the message thread stores each answer in a global   *)
(* variable and signals g_cond, without the mutex and without a predicate. *)
(*                                                                         *)
(* The wait has two forms in the code.  The direct form locks, waits with  *)
(* a timeout and unlocks (get_carrier_id, get_current_fw_version).  The    *)
(* helper cond_wait of common.c first unlocks the mutex, whoever holds it, *)
(* then locks and waits, and unlocks only if the wait was not timed out    *)
(* (get_esim_enable_state, the JP FCC configuration, get_oem_pri_version). *)
(* Every update process of pwl_fwupdate uses both.                         *)
(*                                                                         *)
(* A thread works through its script of queries; a thread without queries  *)
(* never starts.                                                           *)
(***************************************************************************)
EXTENDS Naturals, Sequences

CONSTANTS
    Threads,      \* the threads of pwl_fwupdate that send queries
    Scripts,      \* the processes looked at, each a function that gives every
                  \* thread the queries of one attempt, in order: records with fields
                  \*   cid     what is asked for
                  \*   helper  the wait is cond_wait, not the direct form
                  \*   limit   how often the query is sent at most
                  \*   fresh   the retry counter starts at 0 (else it goes on)
                  \*   again   a signal without a result counts as a failed try
                  \*   ends    what ends the attempt: an empty result, retries that are
                  \*           used up, both together, or nothing
    MaxAttempts,  \* bound: attempts of all threads
    NoThread      \* the owner of a free mutex

Ends == {"empty", "exhausted", "both", "never"}

Queries == [cid : STRING, helper : BOOLEAN, limit : Nat, fresh : BOOLEAN, again : BOOLEAN,
            ends : Ends]

\* The attempt goes on only with a result of the query.
Must(q) == q.ends = "empty" \/ (q.ends = "exhausted" /\ q.again)

ASSUME ConstantsAssumption ==
    /\ Scripts \subseteq [Threads -> Seq(Queries)]
    /\ MaxAttempts \in Nat
    /\ NoThread \notin Threads

\* A result that the attempt needs it needs whenever it asks for it again (each
\* variable has one query function, with one check).
ASSUME MustAssumption ==
    \A s \in Scripts : \A t \in Threads : \A i, j \in DOMAIN s[t] :
        i < j /\ s[t][i].cid = s[t][j].cid /\ Must(s[t][i]) => Must(s[t][j])

VARIABLES
    script,    \* the queries of each thread
    pc,        \* where each thread is
    pos,       \* its query in the script
    retry,     \* its retry counter
    attempts,  \* attempts begun
    mutex,     \* the owner of g_mutex
    missed,    \* history: the threads whose last wait was a cond_wait that timed out
    known,     \* the answers that are stored (the global variables not empty)
    requests,  \* the queues of pwl_pref and pwl_madpt
    answers    \* the queue of pwl_fwupdate

vars == <<script, pc, pos, retry, attempts, mutex, missed, known, requests, answers>>

Labels == {"idle", "enter", "loop", "unlock", "lock", "held", "wait", "signalled",
           "timedout", "leave", "done", "failed"}

Init ==
    /\ script \in Scripts
    /\ pc = [t \in Threads |-> "idle"]
    /\ pos = [t \in Threads |-> 1]
    /\ retry = [t \in Threads |-> 0]
    /\ attempts = 0
    /\ mutex = NoThread
    /\ missed = {}
    /\ known = {}
    /\ requests = <<>>
    /\ answers = <<>>

Query(t) == script[t][pos[t]]
Goto(t, label) == pc' = [pc EXCEPT ![t] = label]

-------------------------------------------------------------------------------
(* A thread.                                                                *)

\* An event or a notice starts an attempt, also after one that ended.
StartAttempt(t) ==
    /\ pc[t] \in {"idle", "done", "failed"}
    /\ script[t] # <<>>
    /\ attempts < MaxAttempts
    /\ attempts' = attempts + 1
    /\ pos' = [pos EXCEPT ![t] = 1]
    /\ Goto(t, "enter")
    /\ UNCHANGED <<script, retry, mutex, missed, known, requests, answers>>

\* A query begins: its variable is emptied.
EnterQuery(t) ==
    /\ pc[t] = "enter"
    /\ known' = known \ {Query(t).cid}
    /\ retry' = [retry EXCEPT ![t] = IF Query(t).fresh THEN 0 ELSE @]
    /\ Goto(t, "loop")
    /\ UNCHANGED <<script, pos, attempts, mutex, missed, requests, answers>>

\* while (retry < limit): the request is sent.
SendRequest(t) ==
    /\ pc[t] = "loop"
    /\ \/ /\ retry[t] < Query(t).limit
          /\ requests' = Append(requests, Query(t).cid)
          /\ Goto(t, IF Query(t).helper THEN "unlock" ELSE "lock")
       \/ /\ retry[t] >= Query(t).limit
          /\ Goto(t, "leave")
          /\ UNCHANGED requests
    /\ UNCHANGED <<script, pos, retry, attempts, mutex, missed, known, answers>>

\* cond_wait unlocks the mutex before it locks it: the lock that an earlier
\* timeout left behind, or another thread's.
HelperUnlock(t) ==
    /\ pc[t] = "unlock"
    /\ mutex' = NoThread
    /\ Goto(t, "lock")
    /\ UNCHANGED <<script, pos, retry, attempts, missed, known, requests, answers>>

\* pthread_mutex_lock blocks while anybody, the thread itself included, owns it.
Lock(t) ==
    /\ pc[t] = "lock"
    /\ mutex = NoThread
    /\ mutex' = t
    /\ Goto(t, "held")
    /\ UNCHANGED <<script, pos, retry, attempts, missed, known, requests, answers>>

\* pthread_cond_timedwait releases the mutex.  An answer that came before this
\* step has signalled nobody.
StartWait(t) ==
    /\ pc[t] = "held"
    /\ mutex' = NoThread
    /\ Goto(t, "wait")
    /\ UNCHANGED <<script, pos, retry, attempts, missed, known, requests, answers>>

\* PWL_CMD_TIMEOUT_SEC seconds have passed.
TimeOut(t) ==
    /\ pc[t] = "wait"
    /\ Goto(t, "timedout")
    /\ UNCHANGED <<script, pos, retry, attempts, mutex, missed, known, requests, answers>>

\* pthread_cond_timedwait locks the mutex again and returns.  After a signal both
\* forms unlock it.
ReturnSignalled(t) ==
    /\ pc[t] = "signalled"
    /\ mutex = NoThread
    /\ missed' = missed \ {t}
    /\ Goto(t, "leave")
    /\ UNCHANGED <<script, pos, retry, attempts, mutex, known, requests, answers>>

\* After a timeout the helper returns with the mutex locked.
Missed(t) == IF Query(t).helper THEN missed \cup {t} ELSE missed \ {t}

LockedReturn(t) ==             \* mutated form: neither form unlocks
    /\ pc[t] = "timedout"
    /\ mutex = NoThread
    /\ mutex' = t
    /\ missed' = Missed(t)
    /\ retry' = [retry EXCEPT ![t] = @ + 1]
    /\ Goto(t, "loop")
    /\ UNCHANGED <<script, pos, attempts, known, requests, answers>>

ReturnTimedOut(t) ==
    /\ pc[t] = "timedout"
    /\ mutex = NoThread
    /\ mutex' = IF Query(t).helper THEN t ELSE NoThread
    /\ missed' = Missed(t)
    /\ retry' = [retry EXCEPT ![t] = @ + 1]
    /\ Goto(t, "loop")
    /\ UNCHANGED <<script, pos, attempts, known, requests, answers>>

\* A query that ends the attempt, and one that is repeated after a signal without a
\* result.
Exhausted(t) == retry[t] >= Query(t).limit
Empty(t)     == Query(t).cid \notin known
Fails(t)     == \/ Query(t).ends = "empty" /\ Empty(t)
                \/ Query(t).ends = "exhausted" /\ Exhausted(t)
                \/ Query(t).ends = "both" /\ Empty(t) /\ Exhausted(t)
Repeats(t)   == Query(t).again /\ Empty(t) /\ ~Exhausted(t)

\* The query is over, answered or not.
UncheckedLeave(t) ==           \* mutated form: a failed query goes unnoticed
    /\ pc[t] = "leave"
    /\ IF pos[t] < Len(script[t])
       THEN Goto(t, "enter") /\ pos' = [pos EXCEPT ![t] = @ + 1]
       ELSE Goto(t, "done") /\ UNCHANGED pos
    /\ UNCHANGED <<script, retry, attempts, mutex, missed, known, requests, answers>>

OverrunLeave(t) ==             \* mutated form: an off-by-one at the last query
    /\ pc[t] = "leave"
    /\ IF Fails(t)
       THEN Goto(t, "failed") /\ UNCHANGED pos
       ELSE Goto(t, "enter") /\ pos' = [pos EXCEPT ![t] = @ + 1]
    /\ UNCHANGED <<script, retry, attempts, mutex, missed, known, requests, answers>>

LeaveQuery(t) ==
    /\ pc[t] = "leave"
    /\ \/ /\ Fails(t)
          /\ Goto(t, "failed")
          /\ UNCHANGED <<pos, retry>>
       \/ /\ ~Fails(t) /\ Repeats(t)
          /\ retry' = [retry EXCEPT ![t] = @ + 1]
          /\ Goto(t, "loop")
          /\ UNCHANGED pos
       \/ /\ ~Fails(t) /\ ~Repeats(t)
          /\ pos[t] < Len(script[t])
          /\ pos' = [pos EXCEPT ![t] = @ + 1]
          /\ Goto(t, "enter")
          /\ UNCHANGED retry
       \/ /\ ~Fails(t) /\ ~Repeats(t)
          /\ pos[t] = Len(script[t])
          /\ Goto(t, "done")
          /\ UNCHANGED <<pos, retry>>
    /\ UNCHANGED <<script, attempts, mutex, missed, known, requests, answers>>

-------------------------------------------------------------------------------
(* The other side.                                                          *)

\* pwl_pref or pwl_madpt answers the oldest request, with a result or without
\* one (nothing cached, an AT command that failed or timed out).
Answer(good) ==
    /\ requests # <<>>
    /\ requests' = Tail(requests)
    /\ answers' = Append(answers, [cid |-> Head(requests), good |-> good])
    /\ UNCHANGED <<script, pc, pos, retry, attempts, mutex, missed, known>>

\* The message thread stores the oldest answer and signals g_cond: one of the
\* threads that wait goes on, whatever it waits for.
MessageThread ==
    /\ answers # <<>>
    /\ answers' = Tail(answers)
    /\ known' = IF Head(answers).good THEN known \cup {Head(answers).cid} ELSE known
    /\ \/ \E t \in Threads : pc[t] = "wait" /\ Goto(t, "signalled")
       \/ (\A t \in Threads : pc[t] # "wait") /\ UNCHANGED pc
    /\ UNCHANGED <<script, pos, retry, attempts, mutex, missed, requests>>

-------------------------------------------------------------------------------
ThreadStep(t) ==
    \/ EnterQuery(t)
    \/ SendRequest(t)
    \/ HelperUnlock(t)
    \/ Lock(t)
    \/ StartWait(t)
    \/ TimeOut(t)
    \/ ReturnSignalled(t)
    \/ ReturnTimedOut(t)
    \/ LeaveQuery(t)

Next ==
    \/ \E t \in Threads : StartAttempt(t) \/ ThreadStep(t)
    \/ \E good \in BOOLEAN : Answer(good)
    \/ MessageThread

Spec == Init /\ [][Next]_vars

\* Every thread that can go on does; a thread that waits for a mutex gets it if
\* it is free again and again.
FairSpec ==
    /\ Spec
    /\ \A t \in Threads : WF_vars(ThreadStep(t))
    /\ \A t \in Threads : SF_vars(Lock(t) \/ ReturnSignalled(t) \/ ReturnTimedOut(t))

-------------------------------------------------------------------------------
(* Properties.                                                              *)

Cids == UNION {{script[t][i].cid : i \in DOMAIN script[t]} : t \in Threads}

\* The shape of the state: every thread that runs is at a query of its script, and
\* the queues hold requests and answers for such queries only.
TypeOK ==
    /\ script \in Scripts
    /\ pc \in [Threads -> Labels]
    /\ \A t \in Threads : pc[t] = "idle" \/ pos[t] \in DOMAIN script[t]
    /\ retry \in [Threads -> Nat]
    /\ attempts \in 0..MaxAttempts
    /\ mutex \in Threads \cup {NoThread}
    /\ missed \in SUBSET Threads
    /\ known \in SUBSET Cids
    /\ requests \in Seq(Cids)
    /\ answers \in Seq([cid : Cids, good : BOOLEAN])

\* An attempt that went through all its queries has every mandatory result, in
\* spite of lost signals and of late answers that end the wait for another one.
\* (One thread: another one may empty the variables for an attempt of its own.)
DoneMeansKnown ==
    \A t \in Threads : pc[t] = "done" /\ (\A u \in Threads \ {t} : pc[u] = "idle") =>
        \A i \in DOMAIN script[t] : Must(script[t][i]) => script[t][i].cid \in known

\* A thread owns g_mutex only between its pthread_mutex_lock and its wait, or because
\* its last wait was a cond_wait that timed out, whatever the other threads unlock:
\* no other way through a query leaves the mutex locked, and none gets past the next
\* wait with it.
LockLeftByTimeout == \A t \in Threads : mutex = t => pc[t] = "held" \/ t \in missed

\* pthread_mutex_lock, or the end of pthread_cond_timedwait, of a mutex left locked.
Blocked(t) == pc[t] \in {"lock", "signalled", "timedout"} /\ \E u \in missed : mutex = u

\* Every attempt ends, with or without answers, unless it hangs at a mutex that a
\* timeout of cond_wait has left locked.
AttemptEnds ==
    \A t \in Threads : pc[t] \notin {"idle", "done", "failed"}
                            ~> (pc[t] \in {"done", "failed"} \/ Blocked(t))

===============================================================================
