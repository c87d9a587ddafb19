----------------------------- MODULE CheckQueue -----------------------------
(***************************************************************************)
(* CCheckQueue: the threads that verify the scripts of a block.  The       *)
(* master pushes batches of checks, then joins the workers until all are   *)
(* done and returns the error of one that failed, if any did.  The same    *)
(* threads and variables then serve the next block.                        *)
(*                                                                         *)
(* A step is what a thread does while it holds m_mutex, or the work it     *)
(* does without it.  The order of the checks in the queue does not matter, *)
(* so the queue is a set.                                                  *)
(***************************************************************************)
EXTENDS Integers, FiniteSets

CONSTANTS
    Worker,      \* the worker threads
    Master,      \* the thread that calls Add, Complete and the destructor
    Check,       \* checks
    Bad,         \* those that return an error
    None,        \* std::nullopt
    nBatchSize,  \* the most checks a thread takes at once
    MaxRounds    \* bound: blocks verified before the queue is destroyed

ASSUME CheckQueueAssumption ==
    /\ IsFiniteSet(Worker)
    /\ IsFiniteSet(Check)
    /\ Bad \subseteq Check
    /\ None \notin Check
    /\ Master \notin Worker
    /\ nBatchSize \in Nat \ {0}
    /\ MaxRounds \in Nat

Thread == Worker \cup {Master}

VARIABLES
    queue, nIdle, nTotal, m_result, nTodo, m_request_stop,
    pc,            \* where each thread is; "skip" is work with do_work FALSE
    batch,         \* vChecks of each thread until they are counted off nTodo
    local_result,
    woken,         \* waiting threads that have been notified
    added,         \* the checks of this round
    verdict,       \* what Complete returned last
    rounds

shared == <<queue, nIdle, nTotal, m_result, nTodo, m_request_stop, woken>>
locals == <<pc, batch, local_result>>
round == <<added, verdict, rounds>>
vars == <<shared, locals, round>>

Init ==
    /\ queue = {} /\ nIdle = 0 /\ nTotal = 0 /\ m_result = None /\ nTodo = 0
    /\ m_request_stop = FALSE
    /\ pc = [t \in Thread |-> IF t = Master THEN "out" ELSE "lock"]
    /\ batch = [t \in Thread |-> {}]
    /\ local_result = [t \in Thread |-> None]
    /\ woken = {}
    /\ added = {} /\ verdict = None /\ rounds = 0

-----------------------------------------------------------------------------
(* The master.  CCheckQueueControl holds m_control_mutex for the round. *)
Begin ==
    /\ pc[Master] = "out" /\ rounds < MaxRounds
    /\ pc' = [pc EXCEPT ![Master] = "add"]
    /\ added' = {} /\ verdict' = None
    /\ rounds' = rounds + 1
    /\ UNCHANGED <<shared, batch, local_result>>

(* Mutant: one unit of work per call instead of one per check. *)
AddOne(S) ==
    /\ pc[Master] = "add" /\ S # {}
    /\ queue' = queue \cup S
    /\ nTodo' = nTodo + 1
    /\ added' = added \cup S
    /\ pc' = [pc EXCEPT ![Master] = IF Cardinality(S) = 1 THEN "notify_one" ELSE "notify_all"]
    /\ UNCHANGED <<nIdle, nTotal, m_result, m_request_stop, woken>>
    /\ UNCHANGED <<batch, local_result, verdict, rounds>>

(* Add under m_mutex, with vChecks the checks of S. *)
Add(S) ==
    /\ pc[Master] = "add" /\ S # {}
    /\ queue' = queue \cup S
    /\ nTodo' = nTodo + Cardinality(S)
    /\ added' = added \cup S
    /\ pc' = [pc EXCEPT ![Master] = IF Cardinality(S) = 1 THEN "notify_one" ELSE "notify_all"]
    /\ UNCHANGED <<nIdle, nTotal, m_result, m_request_stop, woken>>
    /\ UNCHANGED <<batch, local_result, verdict, rounds>>

Waiting == {t \in Worker : pc[t] = "wait"}

(* Mutant: one notification whatever the number of checks or waiters. *)
NotifyAllOne ==
    /\ pc[Master] \in {"notify_all", "stop"}
    /\ IF Waiting \subseteq woken THEN UNCHANGED woken
       ELSE \E t \in Waiting \ woken : woken' = woken \cup {t}
    /\ pc' = [pc EXCEPT ![Master] = IF @ = "stop" THEN "join" ELSE "add"]
    /\ UNCHANGED <<queue, nIdle, nTotal, m_result, nTodo, m_request_stop>>
    /\ UNCHANGED <<batch, local_result, round>>

(* m_worker_cv.notify_one and notify_all, after m_mutex is released. *)
NotifyOne ==
    /\ pc[Master] = "notify_one"
    /\ IF Waiting \subseteq woken THEN UNCHANGED woken
       ELSE \E t \in Waiting \ woken : woken' = woken \cup {t}
    /\ pc' = [pc EXCEPT ![Master] = "add"]
    /\ UNCHANGED <<queue, nIdle, nTotal, m_result, nTodo, m_request_stop>>
    /\ UNCHANGED <<batch, local_result, round>>

NotifyAll ==
    /\ pc[Master] \in {"notify_all", "stop"}
    /\ woken' = woken \cup Waiting
    /\ pc' = [pc EXCEPT ![Master] = IF @ = "stop" THEN "join" ELSE "add"]
    /\ UNCHANGED <<queue, nIdle, nTotal, m_result, nTodo, m_request_stop>>
    /\ UNCHANGED <<batch, local_result, round>>

Complete ==
    /\ pc[Master] = "add"
    /\ pc' = [pc EXCEPT ![Master] = "lock"]
    /\ local_result' = [local_result EXCEPT ![Master] = None]
    /\ UNCHANGED <<shared, batch, round>>

(* The destructor: stop, notify_all, join. *)
Destroy ==
    /\ pc[Master] = "out"
    /\ m_request_stop' = TRUE
    /\ pc' = [pc EXCEPT ![Master] = "stop"]
    /\ UNCHANGED <<queue, nIdle, nTotal, m_result, nTodo, woken>>
    /\ UNCHANGED <<batch, local_result, round>>

Join ==
    /\ pc[Master] = "join"
    /\ \A t \in Worker : pc[t] = "end"
    /\ pc' = [pc EXCEPT ![Master] = "end"]
    /\ UNCHANGED <<shared, batch, local_result, round>>

-----------------------------------------------------------------------------
(* Loop.  Entered is the state once thread t holds m_mutex and stands      *)
(* before the inner while: it has counted its batch, or is new, or has     *)
(* returned from cond.wait.                                                *)

(* Mutant: the worker that is done last does not inform the master. *)
CountedSilently(t) ==
    LET swap == local_result[t] # None /\ m_result = None
    IN  [result |-> IF swap THEN local_result[t] ELSE m_result,
         mine   |-> IF swap THEN None ELSE local_result[t],
         todo   |-> nTodo - Cardinality(batch[t]),
         total  |-> nTotal,
         idle   |-> nIdle,
         woken  |-> woken]

Counted(t) ==
    LET swap == local_result[t] # None /\ m_result = None
        todo == nTodo - Cardinality(batch[t])
    IN  [result |-> IF swap THEN local_result[t] ELSE m_result,
         mine   |-> IF swap THEN None ELSE local_result[t],
         todo   |-> todo,
         total  |-> nTotal,
         idle   |-> nIdle,
         woken  |-> IF todo = 0 /\ t # Master /\ pc[Master] = "wait"
                    THEN woken \cup {Master} ELSE woken]

Entered(t) ==
    IF batch[t] # {} THEN Counted(t)
    ELSE [result |-> m_result,
          mine   |-> local_result[t],
          todo   |-> nTodo,
          total  |-> IF pc[t] = "lock" THEN nTotal + 1 ELSE nTotal,
          idle   |-> IF pc[t] = "lock" THEN nIdle ELSE nIdle - 1,
          woken  |-> woken \ {t}]

(* nNow *)
Min(a, b) == IF a < b THEN a ELSE b

BatchSize(s) ==
    LET share == Min(nBatchSize, Cardinality(queue) \div (s.total + s.idle + 1))
    IN  IF share < 1 THEN 1 ELSE share

Leave(t, s, where) ==
    /\ pc' = [pc EXCEPT ![t] = where]
    /\ nTodo' = s.todo
    /\ woken' = s.woken
    /\ local_result' = [local_result EXCEPT ![t] = s.mine]
    /\ UNCHANGED m_request_stop

(* Mutant: the master returns as soon as the queue is empty. *)
ReturnEarly(t, s) ==
    /\ t = Master /\ queue = {} /\ ~m_request_stop
    /\ Leave(t, s, "out")
    /\ batch' = [batch EXCEPT ![t] = {}]
    /\ nTotal' = s.total - 1 /\ nIdle' = s.idle
    /\ verdict' = s.result
    /\ m_result' = None
    /\ UNCHANGED <<queue, added, rounds>>

Return(t, s) ==
    /\ t = Master /\ s.todo = 0 /\ queue = {} /\ ~m_request_stop
    /\ Leave(t, s, "out")
    /\ batch' = [batch EXCEPT ![t] = {}]
    /\ nTotal' = s.total - 1 /\ nIdle' = s.idle
    /\ verdict' = s.result
    /\ m_result' = None
    /\ UNCHANGED <<queue, added, rounds>>

(* Mutant: a thread that waits is not counted as idle. *)
WaitUncounted(t, s) ==
    /\ queue = {} /\ ~m_request_stop
    /\ ~(t = Master /\ s.todo = 0)
    /\ Leave(t, s, "wait")
    /\ batch' = [batch EXCEPT ![t] = {}]
    /\ nTotal' = s.total /\ nIdle' = s.idle
    /\ m_result' = s.result
    /\ UNCHANGED <<queue, round>>

Wait(t, s) ==
    /\ queue = {} /\ ~m_request_stop
    /\ ~(t = Master /\ s.todo = 0)
    /\ Leave(t, s, "wait")
    /\ batch' = [batch EXCEPT ![t] = {}]
    /\ nTotal' = s.total /\ nIdle' = s.idle + 1
    /\ m_result' = s.result
    /\ UNCHANGED <<queue, round>>

Stop(t, s) ==
    /\ m_request_stop
    /\ Leave(t, s, "end")
    /\ batch' = [batch EXCEPT ![t] = {}]
    /\ nTotal' = s.total /\ nIdle' = s.idle
    /\ m_result' = s.result
    /\ UNCHANGED <<queue, round>>

Take(t, s) ==
    /\ queue # {} /\ ~m_request_stop
    /\ \E S \in SUBSET queue :
           /\ Cardinality(S) = BatchSize(s)
           /\ queue' = queue \ S
           /\ batch' = [batch EXCEPT ![t] = S]
    /\ Leave(t, s, IF s.result = None THEN "work" ELSE "skip")
    /\ nTotal' = s.total /\ nIdle' = s.idle
    /\ m_result' = s.result
    /\ UNCHANGED round

Section(t) ==
    LET s == Entered(t)
    IN  Return(t, s) \/ Wait(t, s) \/ Stop(t, s) \/ Take(t, s)

Loop(t) == (pc[t] = "lock" \/ t \in woken) /\ Section(t)

(* condition_variable::wait may also return without a notification. *)
SpuriousWakeup(t) == pc[t] = "wait" /\ t \notin woken /\ Section(t)

(* Mutant: a batch that passes leaves local_result as it was. *)
WorkKeeping(t) ==
    /\ pc[t] = "work"
    /\ IF batch[t] \cap Bad = {} THEN UNCHANGED local_result
       ELSE \E c \in batch[t] \cap Bad : local_result' = [local_result EXCEPT ![t] = c]
    /\ pc' = [pc EXCEPT ![t] = "lock"]
    /\ UNCHANGED <<shared, batch, round>>

(* The checks of the batch run until one fails. *)
Work(t) ==
    /\ pc[t] = "work"
    /\ IF batch[t] \cap Bad = {}
       THEN local_result' = [local_result EXCEPT ![t] = None]
       ELSE \E c \in batch[t] \cap Bad : local_result' = [local_result EXCEPT ![t] = c]
    /\ pc' = [pc EXCEPT ![t] = "lock"]
    /\ UNCHANGED <<shared, batch, round>>

(* With do_work FALSE none runs, and local_result keeps an earlier value. *)
Skip(t) ==
    /\ pc[t] = "skip"
    /\ pc' = [pc EXCEPT ![t] = "lock"]
    /\ UNCHANGED <<shared, batch, local_result, round>>

Ended == pc[Master] = "end" /\ UNCHANGED vars

-----------------------------------------------------------------------------
MasterStep ==
    \/ Begin \/ Complete \/ NotifyOne \/ NotifyAll \/ Destroy \/ Join
    \/ \E S \in SUBSET (Check \ added) : Add(S)

Next ==
    \/ MasterStep
    \/ \E t \in Thread : Loop(t) \/ Work(t) \/ Skip(t) \/ SpuriousWakeup(t)
    \/ Ended

Spec == Init /\ [][Next]_vars

(* The scheduler runs every thread that can run; the block that is being   *)
(* verified has finitely many checks, so that its master reaches Complete. *)
FairSpec ==
    /\ Spec
    /\ WF_vars(Complete) /\ WF_vars(NotifyOne) /\ WF_vars(NotifyAll) /\ WF_vars(Join)
    /\ \A t \in Thread : WF_vars(Loop(t)) /\ WF_vars(Work(t) \/ Skip(t))

-----------------------------------------------------------------------------
Place == {"out", "add", "notify_one", "notify_all", "lock", "wait", "work", "skip",
          "stop", "join", "end"}

TypeOK ==
    /\ queue \subseteq Check /\ added \subseteq Check
    /\ nIdle \in Nat /\ nTotal \in Nat /\ nTodo \in Nat /\ rounds \in 0..MaxRounds
    /\ m_result \in Check \cup {None} /\ verdict \in Check \cup {None}
    /\ m_request_stop \in BOOLEAN
    /\ pc \in [Thread -> Place]
    /\ batch \in [Thread -> SUBSET Check]
    /\ local_result \in [Thread -> Check \cup {None}]
    /\ woken \subseteq {t \in Thread : pc[t] = "wait"}

(* The checks that are not done. *)
Pending == queue \cup UNION {batch[t] : t \in Thread}

(* nTodo counts the checks that are queued or in some thread's batch, and  *)
(* no check is in two places, so that nTodo -= nNow cannot wrap around and *)
(* reaches 0 with the last check.                                          *)
TodoCounts ==
    /\ nTodo = Cardinality(Pending)
    /\ \A t \in Thread : batch[t] \cap queue = {}
    /\ \A t, u \in Thread : t # u => batch[t] \cap batch[u] = {}

(* "The overall result of the computation is std::nullopt if all           *)
(* invocations return std::nullopt, or one of the other results            *)
(* otherwise": for the checks of this round and no others, although        *)
(* local_result and m_result outlive a round.                              *)
VerdictSound ==
    pc[Master] = "out" /\ rounds > 0 =>
        IF added \cap Bad = {} THEN verdict = None ELSE verdict \in added \cap Bad

(* Between rounds nothing is left behind: no thread still runs a check,    *)
(* whose transaction the caller may free, and the next round starts        *)
(* without a result.                                                       *)
RoundsIsolated ==
    pc[Master] = "out" =>
        /\ Pending = {} /\ nTodo = 0 /\ m_result = None
        /\ \A t \in Worker : pc[t] \notin {"work", "skip"}

(* No wake-up is lost: Complete returns, and the destructor joins. *)
Returns == pc[Master] \in {"lock", "wait", "work", "skip"} ~> pc[Master] = "out"

Joins == pc[Master] = "stop" ~> pc[Master] = "end"

=============================================================================
