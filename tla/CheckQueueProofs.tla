-------------------------- MODULE CheckQueueProofs --------------------------
(***************************************************************************)
(* The script-check queue, for any number of workers, checks and rounds.   *)
(* What makes the properties inductive is the bookkeeping between a        *)
(* thread's batch and the shared counters (Control, Idle), and where the   *)
(* error of a failed check can be (Results): while m_result is empty every *)
(* bad check of the round is still pending, in local_result if it has run. *)
(***************************************************************************)
EXTENDS CheckQueue, FiniteSetTheorems, TLAPS

InRound == pc[Master] \notin {"out", "stop", "join", "end"}

InLoop == {"lock", "wait", "work", "skip"}

(* Which checks a thread may hold where, and what the master has left      *)
(* behind when it is outside a round.                                      *)
Control ==
    /\ m_request_stop <=> pc[Master] \in {"stop", "join", "end"}
    /\ \A t \in Worker : pc[t] \in InLoop \cup {"end"}
    /\ \A t \in Thread : batch[t] # {} => pc[t] \in {"lock", "work", "skip"}
    /\ \A t \in Thread : pc[t] \in {"work", "skip"} => batch[t] # {}
    /\ pc[Master] \in {"wait", "work", "skip"} \/ batch[Master] # {} => nTotal >= 1
    /\ ~InRound => Pending = {} /\ m_result = None

Waiters == {t \in Thread : pc[t] = "wait"}

Idle == nIdle = Cardinality(Waiters)

(* Where the errors of this round are. *)
Results ==
    /\ Pending \subseteq added
    /\ m_result # None => m_result \in added \cap Bad
    /\ InRound /\ m_result = None => added \cap Bad \subseteq Pending
    /\ \A t \in Thread : pc[t] = "skip" => m_result # None
    /\ \A t \in Thread : pc[t] = "lock" /\ batch[t] # {} /\ m_result = None =>
           IF batch[t] \cap Bad = {} THEN local_result[t] = None
           ELSE local_result[t] \in batch[t] \cap Bad

IInv == TypeOK /\ TodoCounts /\ Control /\ Idle /\ Results /\ VerdictSound

-----------------------------------------------------------------------------
LEMMA InitIInv == Init => IInv
<1> SUFFICES ASSUME Init PROVE IInv
  BY Zenon
<1>1. Pending = {} /\ Waiters = {}
  BY Zenon DEF Init, Pending, Waiters, Thread
<1>2. Cardinality({}) = 0
  BY Zenon, FS_EmptySet
<1>3. TypeOK
  <2>1. m_request_stop \in BOOLEAN /\ woken \subseteq {t \in Thread : pc[t] = "wait"}
    BY Zenon DEF Init
  <2>2. /\ batch \in [Thread -> SUBSET Check]
        /\ local_result \in [Thread -> Check \cup {None}]
    BY Zenon DEF Init
  <2>3. pc \in [Thread -> {"out", "lock"}]
    BY Zenon DEF Init
  <2> QED
    BY <2>1, <2>2, <2>3, CheckQueueAssumption DEF Init, TypeOK, Place
<1>5. TodoCounts /\ Idle
  BY Zenon, <1>1, <1>2 DEF Init, TodoCounts, Idle
<1>6. Control
  BY Zenon, <1>1, CheckQueueAssumption DEF Init, Control, InLoop, InRound, Thread
<1>4. Results /\ VerdictSound
  BY Zenon, <1>1, CheckQueueAssumption DEF Init, Results, InRound, VerdictSound, Thread
<1> QED
  BY Zenon, <1>3, <1>4, <1>5, <1>6 DEF IInv

(* Sets of checks and of threads are finite. *)
LEMMA Finite ==
    ASSUME TypeOK
    PROVE  /\ IsFiniteSet(Thread) /\ IsFiniteSet(Waiters)
           /\ Pending \subseteq Check /\ IsFiniteSet(Pending)
           /\ IsFiniteSet(queue) /\ Cardinality(queue) \in Nat
           /\ \A t \in Thread : IsFiniteSet(batch[t])
<1>1. IsFiniteSet(Thread)
  BY Zenon, FS_AddElement, CheckQueueAssumption DEF Thread
<1>2. Pending \subseteq Check
  BY Zenon DEF TypeOK, Pending
<1>3. \A S : S \subseteq Check => IsFiniteSet(S)
  BY Zenon, FS_Subset, CheckQueueAssumption
<1>4. IsFiniteSet(Waiters)
  BY Zenon, <1>1, FS_Subset DEF Waiters
<1>5. IsFiniteSet(queue) /\ Cardinality(queue) \in Nat
  BY Zenon, <1>3, FS_CardinalityType DEF TypeOK
<1>6. \A t \in Thread : IsFiniteSet(batch[t])
  BY Zenon, <1>3 DEF TypeOK
<1> QED
  BY Zenon, <1>1, <1>2, <1>3, <1>4, <1>5, <1>6

(* The state in which the inner while of Loop is evaluated: the thread's   *)
(* batch is no longer pending, its error, if any, is in m_result, and the  *)
(* thread is not idle.                                                     *)
LEMMA EnteredState ==
    ASSUME IInv, NEW t \in Thread, pc[t] \in {"lock", "wait"}
    PROVE  LET s == Entered(t) IN
           /\ s.todo \in Nat /\ s.todo = Cardinality(Pending \ batch[t])
           /\ s.todo = 0 <=> Pending \ batch[t] = {}
           /\ s.result # None => s.result \in added \cap Bad
           /\ InRound /\ s.result = None => added \cap Bad \subseteq Pending \ batch[t]
           /\ m_result # None => s.result = m_result
           /\ s.mine \in Check \cup {None}
           /\ s.idle \in Nat /\ s.idle = Cardinality(Waiters \ {t})
           /\ s.total \in Nat /\ (t = Master => s.total >= 1)
           /\ nTotal >= 1 => s.total >= 1
           /\ s.woken \subseteq Waiters \ {t}
<1> USE DEF IInv
<1>1. batch[t] \subseteq Pending
  BY Zenon DEF Pending
<1>2. /\ IsFiniteSet(Pending) /\ IsFiniteSet(batch[t]) /\ IsFiniteSet(Pending \ batch[t])
      /\ Cardinality(Pending \ batch[t]) = nTodo - Cardinality(batch[t])
      /\ Cardinality(Pending \ batch[t]) \in Nat
  <2>1. IsFiniteSet(Pending) /\ IsFiniteSet(batch[t])
    BY Zenon, Finite
  <2>2. Pending \cap batch[t] = batch[t]
    BY Zenon, <1>1
  <2>3. /\ IsFiniteSet(Pending \ batch[t])
        /\ Cardinality(Pending \ batch[t]) = Cardinality(Pending) - Cardinality(batch[t])
    BY <2>1, <2>2, FS_Difference
  <2>4. Cardinality(Pending \ batch[t]) \in Nat
    BY Zenon, <2>3, FS_CardinalityType
  <2> QED
    BY Zenon, <2>1, <2>3, <2>4 DEF TodoCounts
<1>3. Cardinality(Pending \ batch[t]) = 0 <=> Pending \ batch[t] = {}
  BY Zenon, <1>2, FS_EmptySet
<1>4. IsFiniteSet(Waiters) /\ woken \subseteq Waiters
  BY Zenon, Finite DEF Waiters, TypeOK
<1>5. CASE batch[t] # {}
  <2>1. pc[t] = "lock" /\ t \notin Waiters
    BY Zenon, <1>5 DEF Control, Waiters
  <2>2. Waiters \ {t} = Waiters
    BY Zenon, <2>1
  <2>3. DEFINE s == Entered(t)
  <2>4. /\ s.result = IF local_result[t] # None /\ m_result = None THEN local_result[t] ELSE m_result
        /\ s.mine = IF local_result[t] # None /\ m_result = None THEN None ELSE local_result[t]
        /\ s.todo = nTodo - Cardinality(batch[t])
        /\ s.total = nTotal /\ s.idle = nIdle
        /\ \/ s.woken = woken
           \/ pc[Master] = "wait" /\ t # Master /\ s.woken = woken \cup {Master}
    <3>1. s = Counted(t)
      BY Zenon, <1>5 DEF Entered
    <3> QED
      BY <3>1 DEF Counted
  <2> HIDE DEF s
  <2>5. s.result # None => s.result \in added \cap Bad
    BY Zenon, <1>5, <1>1, <2>1, <2>4 DEF Results
  <2>6. InRound /\ s.result = None => added \cap Bad \subseteq Pending \ batch[t]
    BY Zenon, <1>5, <2>1, <2>4, CheckQueueAssumption DEF Results
  <2>7. s.mine \in Check \cup {None}
    BY Zenon, <2>4 DEF TypeOK
  <2>8. s.idle \in Nat /\ s.idle = Cardinality(Waiters \ {t})
    BY Zenon, <2>2, <2>4 DEF TypeOK, Idle
  <2>9. s.total \in Nat /\ (t = Master => s.total >= 1)
    BY Zenon, <1>5, <2>4 DEF TypeOK, Control
  <2>10. s.woken \subseteq Waiters \ {t}
    BY Zenon, <1>4, <2>2, <2>4 DEF Waiters, Thread
  <2> QED
    BY Zenon, <1>2, <1>3, <2>4, <2>5, <2>6, <2>7, <2>8, <2>9, <2>10 DEF s
<1>6. CASE batch[t] = {}
  <2>1. Pending \ batch[t] = Pending
    BY Zenon, <1>6
  <2>2. DEFINE s == Entered(t)
  <2>3. /\ s.result = m_result /\ s.mine = local_result[t] /\ s.todo = nTodo
        /\ s.total = IF pc[t] = "lock" THEN nTotal + 1 ELSE nTotal
        /\ s.idle = IF pc[t] = "lock" THEN nIdle ELSE nIdle - 1
        /\ s.woken = woken \ {t}
    BY Zenon, <1>6 DEF Entered
  <2> HIDE DEF s
  <2>4. s.idle \in Nat /\ s.idle = Cardinality(Waiters \ {t})
    <3>1. CASE pc[t] = "lock"
      <4>1. Waiters \ {t} = Waiters
        BY Zenon, <3>1 DEF Waiters
      <4> QED
        BY Zenon, <3>1, <4>1, <2>3 DEF Idle, TypeOK
    <3>2. CASE pc[t] = "wait"
      <4>1. t \in Waiters
        BY Zenon, <3>2 DEF Waiters
      <4>2. IsFiniteSet(Waiters \ {t}) /\ Cardinality(Waiters \ {t}) = Cardinality(Waiters) - 1
        BY Zenon, <4>1, <1>4, FS_RemoveElement
      <4>3. Cardinality(Waiters \ {t}) \in Nat
        BY Zenon, <4>2, FS_CardinalityType
      <4> QED
        BY Zenon, <3>2, <4>2, <4>3, <2>3 DEF Idle
    <3> QED
      BY Zenon, <3>1, <3>2
  <2>5. s.total \in Nat /\ (t = Master => s.total >= 1) /\ (nTotal >= 1 => s.total >= 1)
    BY <2>3 DEF TypeOK, Control
  <2>6. s.mine \in Check \cup {None} /\ s.todo \in Nat /\ s.todo = Cardinality(Pending)
    BY Zenon, <2>3 DEF TypeOK, TodoCounts
  <2>7. /\ s.result # None => s.result \in added \cap Bad
        /\ InRound /\ s.result = None => added \cap Bad \subseteq Pending
    BY Zenon, <2>3 DEF Results
  <2> QED
    BY Zenon, <1>3, <1>4, <2>1, <2>3, <2>4, <2>5, <2>6, <2>7 DEF s
<1> QED
  BY Zenon, <1>5, <1>6

(* A pass through the critical section of Loop that leaves thread t with   *)
(* batch S: what all its ways to end have in common.                       *)
Passed(t, where, S) ==
    /\ Leave(t, Entered(t), where)
    /\ queue' = queue \ S /\ batch' = [batch EXCEPT ![t] = S]

(* The checks that were pending stay so, except those thread t has         *)
(* counted; the rest of the state is of the right type.                    *)
LeftWith(t, where, S) ==
    /\ Pending' = Pending \ batch[t]
    /\ TodoCounts'
    /\ nTodo' \in Nat /\ queue' \subseteq Check /\ batch' \in [Thread -> SUBSET Check]
    /\ local_result' \in [Thread -> Check \cup {None}]
    /\ pc' \in [Thread -> Place]
    /\ woken' \subseteq Waiters'
    /\ Waiters' = IF where = "wait" THEN Waiters \cup {t} ELSE Waiters \ {t}
    /\ m_request_stop' = m_request_stop
    /\ \A u \in Thread \ {t} : batch'[u] = batch[u] /\ pc'[u] = pc[u]
                               /\ local_result'[u] = local_result[u]
    /\ batch'[t] = S /\ pc'[t] = where

LEMMA LeftSection ==
    ASSUME IInv, NEW t \in Thread, pc[t] \in {"lock", "wait"},
           NEW where \in {"out", "wait", "end", "work", "skip"}, NEW S \in SUBSET queue,
           Passed(t, where, S)
    PROVE  LeftWith(t, where, S)
<1>0. queue' = queue \ S /\ batch' = [batch EXCEPT ![t] = S] /\ Leave(t, Entered(t), where)
  BY Zenon DEF Passed
<1> DEFINE s == Entered(t)
<1>1. /\ s.todo \in Nat /\ s.todo = Cardinality(Pending \ batch[t])
      /\ s.mine \in Check \cup {None}
      /\ s.woken \subseteq Waiters \ {t}
  BY Zenon, EnteredState
<1>2. /\ pc' = [pc EXCEPT ![t] = where] /\ nTodo' = s.todo /\ woken' = s.woken
      /\ local_result' = [local_result EXCEPT ![t] = s.mine]
      /\ m_request_stop' = m_request_stop
  BY Zenon, <1>0 DEF Leave
<1> HIDE DEF s
<1>3. /\ pc \in [Thread -> Place]
      /\ batch \in [Thread -> SUBSET Check]
      /\ local_result \in [Thread -> Check \cup {None}]
      /\ queue \subseteq Check
  BY Zenon DEF IInv, TypeOK
<1>4. /\ \A u \in Thread : batch[u] \cap queue = {}
      /\ \A u, v \in Thread : u # v => batch[u] \cap batch[v] = {}
  BY Zenon DEF IInv, TodoCounts
<1>5. /\ \A u \in Thread \ {t} : batch'[u] = batch[u] /\ pc'[u] = pc[u]
                                 /\ local_result'[u] = local_result[u]
      /\ batch'[t] = S /\ pc'[t] = where
  BY Zenon, <1>0, <1>2, <1>3
<1>6. Pending' = Pending \ batch[t]
  <2>1. ASSUME NEW c \in Pending' PROVE c \in Pending \ batch[t]
    <3>1. CASE c \in queue \/ c \in S
      BY Zenon, <3>1, <1>0, <1>4 DEF Pending
    <3>2. CASE c \notin queue /\ c \notin S
      <4>1. PICK u \in Thread : c \in batch'[u]
        BY Zenon, <3>2, <2>1, <1>0 DEF Pending
      <4>2. u # t /\ c \in batch[u]
        BY Zenon, <4>1, <3>2, <1>5
      <4> QED
        BY Zenon, <4>2, <1>4 DEF Pending
    <3> QED
      BY Zenon, <3>1, <3>2
  <2>2. ASSUME NEW c \in Pending \ batch[t] PROVE c \in Pending'
    <3>1. CASE c \in queue
      <4>1. c \in queue' \/ c \in batch'[t]
        BY Zenon, <3>1, <1>0, <1>5
      <4> QED
        BY Zenon, <4>1 DEF Pending
    <3>2. CASE c \notin queue
      <4>1. PICK u \in Thread : c \in batch[u]
        BY Zenon, <3>2, <2>2 DEF Pending
      <4>2. c \in batch'[u]
        BY Zenon, <4>1, <2>2, <1>5
      <4> QED
        BY Zenon, <4>2 DEF Pending
    <3> QED
      BY Zenon, <3>1, <3>2
  <2> QED
    BY Zenon, <2>1, <2>2
<1>7. TodoCounts'
  <2>1. nTodo' = Cardinality(Pending')
    BY Zenon, <1>1, <1>2, <1>6
  <2>2. \A u \in Thread : batch'[u] \cap queue' = {}
    BY Zenon, <1>0, <1>4, <1>5
  <2>3. \A u, v \in Thread : u # v => batch'[u] \cap batch'[v] = {}
    BY <1>0, <1>4, <1>5
  <2> QED
    BY Zenon, <2>1, <2>2, <2>3 DEF TodoCounts
<1>8. Waiters' = IF where = "wait" THEN Waiters \cup {t} ELSE Waiters \ {t}
  BY Zenon, <1>5 DEF Waiters
<1>9. woken' \subseteq Waiters'
  BY Zenon, <1>1, <1>2, <1>8
<1>10. /\ nTodo' \in Nat /\ queue' \subseteq Check /\ batch' \in [Thread -> SUBSET Check]
       /\ local_result' \in [Thread -> Check \cup {None}]
       /\ pc' \in [Thread -> Place]
  BY Zenon, <1>0, <1>1, <1>2, <1>3 DEF Place
<1> QED
  BY Zenon, <1>2, <1>5, <1>6, <1>7, <1>8, <1>9, <1>10 DEF LeftWith

(* Whichever way the critical section of Loop ends, IInv is preserved. *)
LEMMA SectionIInv ==
    ASSUME IInv, NEW t \in Thread, pc[t] \in {"lock", "wait"}, Section(t)
    PROVE  IInv'
<1> DEFINE s == Entered(t)
<1>0. /\ s.todo = 0 <=> Pending \ batch[t] = {}
      /\ s.result # None => s.result \in added \cap Bad
      /\ InRound /\ s.result = None => added \cap Bad \subseteq Pending \ batch[t]
      /\ m_result # None => s.result = m_result
      /\ s.idle \in Nat /\ s.idle = Cardinality(Waiters \ {t})
      /\ s.total \in Nat /\ (t = Master => s.total >= 1)
      /\ nTotal >= 1 => s.total >= 1
  BY Zenon, EnteredState
<1>1. Return(t, s) \/ Wait(t, s) \/ Stop(t, s) \/ Take(t, s)
  BY Zenon DEF Section
<1>2. /\ TypeOK /\ TodoCounts /\ Control /\ Idle /\ Results
      /\ IsFiniteSet(Waiters) /\ IsFiniteSet(Pending)
  BY Zenon, Finite DEF IInv
<1>3. queue = queue \ {} /\ {} \in SUBSET queue
  BY Zenon
<1>8. ~InRound => batch[t] = {} /\ Pending = {} /\ s.result = None
  <2>1. ~InRound => batch[t] = {} /\ Pending = {} /\ m_result = None
    BY Zenon, <1>2 DEF Control, Pending
  <2>2. batch[t] = {} => s.result = m_result
    BY Zenon DEF Entered
  <2> QED
    BY Zenon, <2>1, <2>2
<1>4. pc[t] \notin {"out", "stop", "join", "end", "add", "work", "skip"}
  BY Zenon
<1> HIDE DEF s
<1>5. CASE Return(t, s)
  <2>1. /\ t = Master /\ Pending \ batch[t] = {} /\ queue = {} /\ ~m_request_stop
        /\ Leave(t, s, "out") /\ batch' = [batch EXCEPT ![t] = {}]
        /\ nTotal' = s.total - 1 /\ nIdle' = s.idle /\ verdict' = s.result /\ m_result' = None
        /\ queue' = queue /\ added' = added /\ rounds' = rounds
    BY Zenon, <1>0, <1>5 DEF Return
  <2>2. /\ Pending' = {} /\ TodoCounts' /\ woken' \subseteq Waiters'
        /\ nTodo' \in Nat /\ queue' \subseteq Check /\ batch' \in [Thread -> SUBSET Check]
        /\ local_result' \in [Thread -> Check \cup {None}] /\ pc' \in [Thread -> Place]
        /\ Waiters' = Waiters \ {t} /\ m_request_stop' = m_request_stop
        /\ \A u \in Thread \ {t} : batch'[u] = batch[u] /\ pc'[u] = pc[u]
        /\ batch'[t] = {} /\ pc'[t] = "out"
    <3>1. Passed(t, "out", {})
      BY Zenon, <1>3, <2>1 DEF Passed, s
    <3>2. LeftWith(t, "out", {})
      BY Zenon, <1>3, <3>1, LeftSection
    <3> QED
      BY Zenon, <2>1, <3>2 DEF LeftWith
  <2>3. \A u \in Thread : batch'[u] = {}
    BY <2>2 DEF Pending
  <2>4. TypeOK'
    BY <1>0, <1>2, <2>1, <2>2 DEF TypeOK, Waiters
  <2>5. Control'
    <3>1. m_request_stop' <=> pc'[Master] \in {"stop", "join", "end"}
      BY Zenon, <2>1, <2>2
    <3>2. \A u \in Worker : pc'[u] \in InLoop \cup {"end"}
      BY Zenon, <1>2, <2>1, <2>2, CheckQueueAssumption DEF Control, Thread
    <3>3. \A u \in Thread : pc'[u] \notin {"work", "skip"}
      BY Zenon, <1>2, <2>2, <2>3 DEF Control
    <3> QED
      BY Zenon, <2>1, <2>2, <2>3, <3>1, <3>2, <3>3 DEF Control, InRound
  <2>6. Idle'
    BY Zenon, <1>0, <2>1, <2>2 DEF Idle
  <2>7. Results'
    <3>1. \A u \in Thread : pc'[u] # "skip"
      BY Zenon, <1>2, <2>2, <2>3 DEF Control
    <3> QED
      BY Zenon, <2>1, <2>2, <2>3, <3>1 DEF Results, InRound
  <2>8. VerdictSound'
    <3>1. InRound
      BY Zenon, <2>1 DEF InRound
    <3> QED
      BY Zenon, <1>0, <2>1, <2>2, <3>1, CheckQueueAssumption DEF VerdictSound
  <2> QED
    BY Zenon, <2>2, <2>4, <2>5, <2>6, <2>7, <2>8 DEF IInv
<1>6. CASE Wait(t, s)
  <2>1. /\ queue = {} /\ ~m_request_stop /\ ~(t = Master /\ s.todo = 0)
        /\ Leave(t, s, "wait") /\ batch' = [batch EXCEPT ![t] = {}]
        /\ nTotal' = s.total /\ nIdle' = s.idle + 1 /\ m_result' = s.result
        /\ queue' = queue /\ added' = added /\ rounds' = rounds /\ verdict' = verdict
    BY Zenon, <1>6 DEF Wait, round
  <2>2. /\ Pending' = Pending \ batch[t] /\ TodoCounts' /\ woken' \subseteq Waiters'
        /\ nTodo' \in Nat /\ queue' \subseteq Check /\ batch' \in [Thread -> SUBSET Check]
        /\ local_result' \in [Thread -> Check \cup {None}] /\ pc' \in [Thread -> Place]
        /\ Waiters' = Waiters \cup {t} /\ m_request_stop' = m_request_stop
        /\ \A u \in Thread \ {t} : batch'[u] = batch[u] /\ pc'[u] = pc[u]
                                   /\ local_result'[u] = local_result[u]
        /\ batch'[t] = {} /\ pc'[t] = "wait"
    <3>1. Passed(t, "wait", {})
      BY Zenon, <1>3, <2>1 DEF Passed, s
    <3>2. LeftWith(t, "wait", {})
      BY Zenon, <1>3, <3>1, LeftSection
    <3> QED
      BY Zenon, <3>2 DEF LeftWith
  <2>3. TypeOK'
    BY <1>0, <1>2, <2>1, <2>2 DEF TypeOK, Waiters
  <2>4. InRound' <=> InRound
    BY Zenon, <2>2, <1>4 DEF InRound, Thread
  <2>5. Control'
    <3>1. m_request_stop' <=> pc'[Master] \in {"stop", "join", "end"}
      BY Zenon, <1>2, <1>4, <2>2 DEF Control, Thread
    <3>2. \A u \in Worker : pc'[u] \in InLoop \cup {"end"}
      BY Zenon, <1>2, <2>2 DEF Control, Thread, InLoop
    <3>3. pc'[Master] \in {"wait", "work", "skip"} \/ batch'[Master] # {} => nTotal' >= 1
      BY Zenon, <1>0, <1>2, <2>1, <2>2 DEF Control, Thread
    <3>4. ~InRound' => Pending' = {} /\ m_result' = None
      BY Zenon, <1>8, <2>1, <2>2, <2>4
    <3> QED
      BY Zenon, <1>2, <2>2, <3>1, <3>2, <3>3, <3>4 DEF Control
  <2>6. Idle'
    <3>1. t \notin Waiters \ {t} /\ (Waiters \ {t}) \cup {t} = Waiters \cup {t}
          /\ IsFiniteSet(Waiters \ {t})
      BY Zenon, <1>2, FS_RemoveElement
    <3>2. Cardinality((Waiters \ {t}) \cup {t}) = Cardinality(Waiters \ {t}) + 1
      BY Zenon, <3>1, FS_AddElement
    <3> QED
      BY Zenon, <1>0, <2>1, <2>2, <3>1, <3>2 DEF Idle
  <2>7. Results'
    BY Zenon, <1>0, <1>2, <2>1, <2>2, <2>4 DEF Results
  <2>8. VerdictSound'
    BY Zenon, <1>4, <2>1, <2>2 DEF IInv, VerdictSound, Thread
  <2> QED
    BY Zenon, <2>2, <2>3, <2>5, <2>6, <2>7, <2>8 DEF IInv
<1>7. CASE Stop(t, s)
  <2>1. /\ m_request_stop
        /\ Leave(t, s, "end") /\ batch' = [batch EXCEPT ![t] = {}]
        /\ nTotal' = s.total /\ nIdle' = s.idle /\ m_result' = s.result
        /\ queue' = queue /\ added' = added /\ rounds' = rounds /\ verdict' = verdict
    BY Zenon, <1>7 DEF Stop, round
  <2>2. /\ Pending' = Pending \ batch[t] /\ TodoCounts' /\ woken' \subseteq Waiters'
        /\ nTodo' \in Nat /\ queue' \subseteq Check /\ batch' \in [Thread -> SUBSET Check]
        /\ local_result' \in [Thread -> Check \cup {None}] /\ pc' \in [Thread -> Place]
        /\ Waiters' = Waiters \ {t} /\ m_request_stop' = m_request_stop
        /\ \A u \in Thread \ {t} : batch'[u] = batch[u] /\ pc'[u] = pc[u]
                                   /\ local_result'[u] = local_result[u]
        /\ batch'[t] = {} /\ pc'[t] = "end"
    <3>1. Passed(t, "end", {})
      BY Zenon, <1>3, <2>1 DEF Passed, s
    <3>2. LeftWith(t, "end", {})
      BY Zenon, <1>3, <3>1, LeftSection
    <3> QED
      BY Zenon, <3>2 DEF LeftWith
  <2>3. TypeOK'
    BY Zenon, <1>0, <1>2, <2>1, <2>2 DEF TypeOK, Waiters
  <2>4. t # Master /\ ~InRound /\ ~InRound' /\ t \in Worker
    BY Zenon, <1>2, <1>4, <2>1, <2>2 DEF Control, InRound, Thread
  <2>5. Pending' = {} /\ m_result' = None
    BY Zenon, <1>8, <2>1, <2>2, <2>4
  <2>6. Control'
    <3>1. m_request_stop' <=> pc'[Master] \in {"stop", "join", "end"}
      BY Zenon, <1>2, <2>2, <2>4 DEF Control, Thread
    <3>2. \A u \in Worker : pc'[u] \in InLoop \cup {"end"}
      BY Zenon, <1>2, <2>2 DEF Control, Thread
    <3>3. pc'[Master] \in {"wait", "work", "skip"} \/ batch'[Master] # {} => nTotal' >= 1
      BY Zenon, <1>0, <1>2, <2>1, <2>2 DEF Control, Thread
    <3> QED
      BY Zenon, <1>2, <2>2, <2>5, <3>1, <3>2, <3>3 DEF Control
  <2>7. Idle'
    BY Zenon, <1>0, <2>1, <2>2 DEF Idle
  <2>8. Results'
    <3>1. \A u \in Thread : batch'[u] = {} /\ pc'[u] # "skip"
      BY <2>5, <2>6 DEF Pending, Control
    <3> QED
      BY Zenon, <2>4, <2>5, <3>1 DEF Results
  <2>9. VerdictSound'
    BY Zenon, <2>1, <2>2, <2>4 DEF IInv, VerdictSound, Thread
  <2> QED
    BY Zenon, <2>2, <2>3, <2>6, <2>7, <2>8, <2>9 DEF IInv
<1>9. CASE Take(t, s)
  <2>1. PICK S \in SUBSET queue :
            Cardinality(S) = BatchSize(s) /\ queue' = queue \ S
            /\ batch' = [batch EXCEPT ![t] = S]
    BY Zenon, <1>9 DEF Take
  <2>2. /\ queue # {} /\ ~m_request_stop
        /\ nTotal' = s.total /\ nIdle' = s.idle /\ m_result' = s.result
        /\ added' = added /\ rounds' = rounds /\ verdict' = verdict
    BY Zenon, <1>9 DEF Take, round
  <2>3. PICK where \in {"work", "skip"} :
            Leave(t, Entered(t), where) /\ (where = "work" <=> s.result = None)
    BY Zenon, <1>9 DEF Take, s
  <2>4. /\ Pending' = Pending \ batch[t] /\ TodoCounts' /\ woken' \subseteq Waiters'
        /\ nTodo' \in Nat /\ queue' \subseteq Check /\ batch' \in [Thread -> SUBSET Check]
        /\ local_result' \in [Thread -> Check \cup {None}] /\ pc' \in [Thread -> Place]
        /\ Waiters' = Waiters \ {t} /\ m_request_stop' = m_request_stop
        /\ \A u \in Thread \ {t} : batch'[u] = batch[u] /\ pc'[u] = pc[u]
                                   /\ local_result'[u] = local_result[u]
        /\ batch'[t] = S /\ pc'[t] = where
    <3>1. where \in {"out", "wait", "end", "work", "skip"} /\ where # "wait"
      BY Zenon, <2>3
    <3>2. Passed(t, where, S)
      BY Zenon, <2>1, <2>3 DEF Passed
    <3>3. LeftWith(t, where, S)
      BY Zenon, <2>1, <3>1, <3>2, LeftSection
    <3> QED
      BY Zenon, <3>1, <3>3 DEF LeftWith
  <2>5. S # {}
    <3>1. Cardinality(queue) \in Nat
      BY Zenon, <1>2, Finite
    <3>2. Cardinality(queue) \div (s.total + s.idle + 1) \in Int
      BY <1>0, <3>1
    <3>3. BatchSize(s) >= 1
      BY <3>2, CheckQueueAssumption DEF BatchSize, Min
    <3> QED
      BY <2>1, <3>3, FS_EmptySet
  <2>6. InRound /\ InRound'
    BY Zenon, <1>2, <1>4, <2>2, <2>3, <2>4 DEF Control, InRound, Thread, Pending
  <2>7. TypeOK'
    BY Zenon, <1>0, <1>2, <2>2, <2>4 DEF TypeOK, Waiters
  <2>8. Control'
    <3>1. m_request_stop' <=> pc'[Master] \in {"stop", "join", "end"}
      BY Zenon, <2>2, <2>4, <2>6 DEF InRound
    <3>2. \A u \in Worker : pc'[u] \in InLoop \cup {"end"}
      BY Zenon, <1>2, <2>3, <2>4 DEF Control, Thread, InLoop
    <3>3. pc'[Master] \in {"wait", "work", "skip"} \/ batch'[Master] # {} => nTotal' >= 1
      BY Zenon, <1>0, <1>2, <2>2, <2>4 DEF Control, Thread
    <3> QED
      BY Zenon, <1>2, <2>3, <2>4, <2>5, <2>6, <3>1, <3>2, <3>3 DEF Control
  <2>9. Idle'
    BY Zenon, <1>0, <2>2, <2>4 DEF Idle
  <2>10. Results'
    BY Zenon, <1>0, <1>2, <2>2, <2>3, <2>4, <2>6 DEF Results
  <2>11. VerdictSound'
    BY Zenon, <2>6 DEF VerdictSound, InRound
  <2> QED
    BY Zenon, <2>4, <2>7, <2>8, <2>9, <2>10, <2>11 DEF IInv
<1> QED
  BY Zenon, <1>1, <1>5, <1>6, <1>7, <1>9

(* Work and Skip: the error of a batch that has run is in local_result. *)
LEMMA WorkIInv ==
    ASSUME IInv, NEW t \in Thread, Work(t) \/ Skip(t)
    PROVE  IInv'
<1> USE DEF IInv
<1>1. /\ pc[t] \in {"work", "skip"} /\ pc' = [pc EXCEPT ![t] = "lock"]
      /\ queue' = queue /\ nIdle' = nIdle /\ nTotal' = nTotal /\ m_result' = m_result
      /\ nTodo' = nTodo /\ m_request_stop' = m_request_stop /\ woken' = woken
      /\ batch' = batch /\ added' = added /\ verdict' = verdict /\ rounds' = rounds
  BY Zenon DEF Work, Skip, shared, round
<1>2. /\ pc \in [Thread -> Place] /\ local_result \in [Thread -> Check \cup {None}]
      /\ batch \in [Thread -> SUBSET Check]
  BY Zenon DEF TypeOK
<1>3. /\ \A u \in Thread \ {t} : pc'[u] = pc[u] /\ local_result'[u] = local_result[u]
      /\ pc'[t] = "lock"
      /\ pc' \in [Thread -> Place] /\ local_result' \in [Thread -> Check \cup {None}]
  BY <1>1, <1>2 DEF Work, Skip, Place
<1>4. Pending' = Pending /\ Waiters' = Waiters /\ (InRound' <=> InRound)
  BY <1>1, <1>3 DEF Pending, Waiters, InRound, Thread
<1>5. TypeOK' /\ TodoCounts' /\ Idle' /\ VerdictSound'
  <2>1. TypeOK'
    BY Zenon, <1>1, <1>3 DEF TypeOK
  <2>2. TodoCounts' /\ Idle'
    BY Zenon, <1>1, <1>4 DEF TodoCounts, Idle
  <2>3. VerdictSound'
    BY Zenon, <1>1, <1>3 DEF VerdictSound, Thread
  <2> QED
    BY Zenon, <2>1, <2>2, <2>3
<1>6. Control'
  <2>1. m_request_stop' <=> pc'[Master] \in {"stop", "join", "end"}
    BY Zenon, <1>1, <1>3 DEF Control, Thread
  <2>2. \A u \in Worker : pc'[u] \in InLoop \cup {"end"}
    BY Zenon, <1>3 DEF Control, Thread, InLoop
  <2>3. pc'[Master] \in {"wait", "work", "skip"} \/ batch'[Master] # {} => nTotal' >= 1
    BY Zenon, <1>1, <1>3 DEF Control, Thread
  <2> QED
    BY Zenon, <1>1, <1>3, <1>4, <2>1, <2>2, <2>3 DEF Control
<1>7. Results'
  <2>1. ASSUME m_result = None
        PROVE  IF batch[t] \cap Bad = {} THEN local_result'[t] = None
               ELSE local_result'[t] \in batch[t] \cap Bad
    <3>1. Work(t)
      BY Zenon, <2>1 DEF Results, Skip
    <3> QED
      BY Zenon, <3>1, <1>2 DEF Work
  <2> QED
    BY Zenon, <1>1, <1>3, <1>4, <2>1 DEF Results
<1> QED
  BY Zenon, <1>5, <1>6, <1>7

(* The steps of the master outside Loop. *)
LEMMA MasterIInv ==
    ASSUME IInv, MasterStep
    PROVE  IInv'
<1> USE DEF IInv
<1>1. /\ pc \in [Thread -> Place] /\ batch \in [Thread -> SUBSET Check]
      /\ local_result \in [Thread -> Check \cup {None}]
      /\ Master \in Thread /\ Worker \subseteq Thread /\ Master \notin Worker
  BY Zenon, CheckQueueAssumption DEF TypeOK, Thread
<1>2. ASSUME NEW S \in SUBSET (Check \ added), Add(S)
      PROVE  IInv'
  <2>1. /\ pc[Master] = "add" /\ S # {} /\ queue' = queue \cup S
        /\ nTodo' = nTodo + Cardinality(S) /\ added' = added \cup S
        /\ nIdle' = nIdle /\ nTotal' = nTotal /\ m_result' = m_result
        /\ m_request_stop' = m_request_stop /\ woken' = woken /\ batch' = batch
        /\ local_result' = local_result /\ verdict' = verdict /\ rounds' = rounds
    BY Zenon, <1>2 DEF Add
  <2>2. /\ \A u \in Worker : pc'[u] = pc[u]
        /\ pc'[Master] \in {"notify_one", "notify_all"} /\ pc' \in [Thread -> Place]
    BY Zenon, <1>1, <1>2 DEF Add, Place
  <2>3. Pending' = Pending \cup S /\ Pending \cap S = {}
    BY Zenon, <2>1 DEF Pending, Results
  <2>4. nTodo' = Cardinality(Pending') /\ nTodo' \in Nat
    <3>1. IsFiniteSet(S) /\ IsFiniteSet(Pending)
      BY Zenon, CheckQueueAssumption, FS_Subset, Finite
    <3>2. Cardinality(Pending \cup S) = Cardinality(Pending) + Cardinality(S)
      <4>1. Cardinality(Pending) \in Nat /\ Cardinality(S) \in Nat
        BY Zenon, <3>1, FS_CardinalityType
      <4>2. Cardinality(Pending \cup S)
              = Cardinality(Pending) + Cardinality(S) - Cardinality(Pending \cap S)
        BY Zenon, <3>1, FS_Union
      <4>3. Cardinality(Pending \cap S) = 0
        <5>1. Pending \cap S = {}
          BY Zenon, <2>3
        <5> QED
          BY <5>1, FS_EmptySet, Zenon
      <4> QED
        BY <4>1, <4>2, <4>3
    <3> QED
      BY <3>1, <3>2, <2>1, <2>3, FS_CardinalityType DEF TodoCounts
  <2>5. Waiters' = Waiters /\ InRound /\ InRound'
    BY Zenon, <1>1, <2>1, <2>2 DEF Waiters, InRound, Thread
  <2>6. TypeOK'
    BY Zenon, <2>1, <2>2, <2>4, <2>5 DEF TypeOK, Waiters
  <2>7. TodoCounts' /\ Idle'
    <3>1. \A t \in Thread : batch[t] \cap S = {}
      BY <2>3 DEF Pending
    <3> QED
      BY Zenon, <2>1, <2>4, <2>5, <3>1 DEF TodoCounts, Idle
  <2>8. Control'
    BY Zenon, <1>1, <2>1, <2>2, <2>5 DEF Control, Thread
  <2>9. Results' /\ VerdictSound'
    <3>1. Results'
      BY Zenon, <1>1, <2>1, <2>2, <2>3, <2>5 DEF Results, Thread
    <3> QED
      BY Zenon, <3>1, <2>5 DEF VerdictSound, InRound
  <2> QED
    BY Zenon, <2>6, <2>7, <2>8, <2>9
<1>3. CASE Begin
  <2>1. /\ pc[Master] = "out" /\ rounds < MaxRounds /\ pc' = [pc EXCEPT ![Master] = "add"]
        /\ added' = {} /\ verdict' = None /\ rounds' = rounds + 1
        /\ queue' = queue /\ nIdle' = nIdle /\ nTotal' = nTotal /\ m_result' = m_result
        /\ nTodo' = nTodo /\ m_request_stop' = m_request_stop /\ woken' = woken
        /\ batch' = batch /\ local_result' = local_result
    BY Zenon, <1>3 DEF Begin, shared
  <2>2. /\ \A u \in Worker : pc'[u] = pc[u]
        /\ pc'[Master] = "add" /\ pc' \in [Thread -> Place]
    BY Zenon, <1>1, <2>1 DEF Place
  <2>3. /\ Pending' = Pending /\ Pending = {} /\ m_result = None /\ Waiters' = Waiters
        /\ \A u \in Thread : batch[u] = {} /\ pc[u] \notin {"work", "skip"}
    BY <2>1, <2>2 DEF Pending, Control, InRound, Waiters, Thread
  <2>4. TypeOK'
    BY <2>1, <2>2, <2>3, CheckQueueAssumption DEF TypeOK, Waiters
  <2>5. TodoCounts' /\ Idle'
    BY Zenon, <2>1, <2>3 DEF TodoCounts, Idle
  <2>6. Control'
    BY Zenon, <2>1, <2>2, <2>3 DEF Control, Thread
  <2>7. Results'
    BY Zenon, <2>1, <2>2, <2>3 DEF Results, Thread
  <2>8. VerdictSound'
    BY Zenon, <2>2 DEF VerdictSound
  <2> QED
    BY Zenon, <2>4, <2>5, <2>6, <2>7, <2>8
<1>4. ASSUME NEW to \in Place,
             pc' = [pc EXCEPT ![Master] = to], pc[Master] \notin {"wait", "lock", "work", "skip"},
             queue' = queue, nIdle' = nIdle, nTotal' = nTotal, m_result' = m_result,
             nTodo' = nTodo, batch' = batch, added' = added, verdict' = verdict,
             rounds' = rounds, m_request_stop' \in BOOLEAN,
             m_request_stop' <=> to \in {"stop", "join", "end"},
             pc[Master] \in {"out", "stop", "join", "end"} <=> to \in {"stop", "join", "end"},
             to \notin {"out", "wait", "work", "skip"},
             woken' \subseteq Waiters,
             local_result' \in [Thread -> Check \cup {None}],
             \A u \in Worker : local_result'[u] = local_result[u]
      PROVE  IInv'
  <2>1. \A u \in Worker : pc'[u] = pc[u]
    BY Zenon, <1>1, <1>4
  <2>2. pc'[Master] = to /\ pc' \in [Thread -> Place]
    BY Zenon, <1>1, <1>4
  <2>3. Pending' = Pending /\ Waiters' = Waiters /\ (InRound' <=> InRound)
    BY <1>1, <1>4, <2>1, <2>2 DEF Pending, Waiters, InRound, Thread
  <2>4. TypeOK'
    BY Zenon, <1>4, <2>2, <2>3 DEF TypeOK, Waiters
  <2>5. TodoCounts' /\ Idle'
    BY Zenon, <1>4, <2>3 DEF TodoCounts, Idle
  <2>6. batch[Master] = {}
    BY Zenon, <1>1, <1>4 DEF Control
  <2>7. Control'
    <3>1. m_request_stop' <=> pc'[Master] \in {"stop", "join", "end"}
      BY Zenon, <1>4, <2>2
    <3>2. \A u \in Worker : pc'[u] \in InLoop \cup {"end"}
      BY Zenon, <2>1 DEF Control
    <3>3. pc'[Master] \notin {"wait", "work", "skip"} /\ batch'[Master] = {}
      BY Zenon, <1>4, <2>2, <2>6
    <3>4. \A u \in Thread : /\ batch'[u] # {} => pc'[u] \in {"lock", "work", "skip"}
                            /\ pc'[u] \in {"work", "skip"} => batch'[u] # {}
      BY Zenon, <1>4, <2>1, <3>3 DEF Control, Thread
    <3> QED
      BY Zenon, <1>4, <2>3, <3>1, <3>2, <3>3, <3>4 DEF Control
  <2>8. Results'
    BY Zenon, <1>4, <2>1, <2>2, <2>3, <2>6 DEF Results, Thread
  <2>9. VerdictSound'
    BY Zenon, <1>4, <2>2 DEF VerdictSound
  <2> QED
    BY Zenon, <2>4, <2>5, <2>7, <2>8, <2>9
<1>5. woken \subseteq Waiters /\ Waiting \subseteq Waiters
  BY Zenon DEF TypeOK, Waiters, Waiting, Thread
<1>6. m_request_stop \in BOOLEAN /\ (m_request_stop <=> pc[Master] \in {"stop", "join", "end"})
  BY Zenon DEF TypeOK, Control
<1>7. CASE Complete
  <2>1. "lock" \in Place /\ pc[Master] = "add"
    BY Zenon, <1>7 DEF Place, Complete
  <2>2. local_result' \in [Thread -> Check \cup {None}]
        /\ \A u \in Worker : local_result'[u] = local_result[u]
    BY Zenon, <1>7, <1>1 DEF Complete
  <2> QED
    BY Zenon, <1>4, <1>5, <1>6, <1>7, <2>1, <2>2 DEF Complete, shared, round
<1>8. CASE NotifyOne
  <2>1. "add" \in Place /\ pc[Master] = "notify_one" /\ woken' \subseteq Waiters
    BY Zenon, <1>5, <1>8 DEF Place, NotifyOne
  <2> QED
    BY Zenon, <1>1, <1>4, <1>6, <1>8, <2>1 DEF NotifyOne, round
<1>9. CASE NotifyAll
  <2>1. "add" \in Place /\ "join" \in Place /\ woken' \subseteq Waiters
    BY Zenon, <1>5, <1>9 DEF Place, NotifyAll
  <2>2. CASE pc[Master] = "notify_all"
    <3>1. pc' = [pc EXCEPT ![Master] = "add"]
      BY Zenon, <1>1, <1>9, <2>2 DEF NotifyAll
    <3> QED
      BY Zenon, <1>1, <1>4, <1>6, <1>9, <2>1, <2>2, <3>1 DEF NotifyAll, round
  <2>3. CASE pc[Master] = "stop"
    <3>1. pc' = [pc EXCEPT ![Master] = "join"]
      BY Zenon, <1>1, <1>9, <2>3 DEF NotifyAll
    <3> QED
      BY Zenon, <1>1, <1>4, <1>6, <1>9, <2>1, <2>3, <3>1 DEF NotifyAll, round
  <2> QED
    BY Zenon, <1>9, <2>2, <2>3 DEF NotifyAll
<1>10. CASE Destroy
  <2>1. "stop" \in Place /\ pc[Master] = "out"
    BY Zenon, <1>10 DEF Place, Destroy
  <2> QED
    BY Zenon, <1>1, <1>4, <1>5, <1>10, <2>1 DEF Destroy, round
<1>11. CASE Join
  <2>1. "end" \in Place /\ pc[Master] = "join"
    BY Zenon, <1>11 DEF Place, Join
  <2> QED
    BY Zenon, <1>1, <1>4, <1>5, <1>6, <1>11, <2>1 DEF Join, shared, round
<1> QED
  BY Zenon, <1>2, <1>3, <1>7, <1>8, <1>9, <1>10, <1>11 DEF MasterStep

LEMMA NextIInv == IInv /\ [Next]_vars => IInv'
<1> SUFFICES ASSUME IInv, [Next]_vars PROVE IInv'
  BY Zenon
<1>1. ASSUME NEW t \in Thread, Loop(t) \/ SpuriousWakeup(t) PROVE IInv'
  <2>1. pc[t] \in {"lock", "wait"} /\ Section(t)
    BY Zenon, <1>1 DEF Loop, SpuriousWakeup, IInv, TypeOK
  <2> QED
    BY Zenon, <2>1, SectionIInv
<1>2. ASSUME NEW t \in Thread, Work(t) \/ Skip(t) PROVE IInv'
  BY Zenon, <1>2, WorkIInv
<1>3. CASE MasterStep
  BY Zenon, <1>3, MasterIInv
<1>4. CASE UNCHANGED vars
  <2>1. Pending' = Pending /\ Waiters' = Waiters /\ (InRound' <=> InRound)
    BY Zenon, <1>4 DEF vars, shared, locals, Pending, Waiters, InRound
  <2>2. TypeOK' /\ TodoCounts' /\ Idle'
    BY Zenon, <1>4, <2>1 DEF IInv, vars, shared, locals, round, TypeOK, TodoCounts, Idle
  <2>3. Control' /\ Results' /\ VerdictSound'
    BY Zenon, <1>4, <2>1 DEF IInv, vars, shared, locals, round, Control, Results, VerdictSound
  <2> QED
    BY Zenon, <2>2, <2>3 DEF IInv
<1> QED
  BY Zenon, <1>1, <1>2, <1>3, <1>4 DEF Next, Ended

-----------------------------------------------------------------------------
LEMMA Invariance == Spec => []IInv
  BY InitIInv, NextIInv, PTL DEF Spec

(* The state variables of CCheckQueue keep their types; in particular      *)
(* nIdle, nTotal and nTodo never go below zero.                            *)
THEOREM QueueTypeCorrect == Spec => []TypeOK
<1>1. IInv => TypeOK
  BY Zenon DEF IInv
<1> QED
  BY <1>1, Invariance, PTL

(* nTodo is the number of checks that are queued or in a batch. *)
THEOREM TodoIsCounted == Spec => []TodoCounts
<1>1. IInv => TodoCounts
  BY Zenon DEF IInv
<1> QED
  BY <1>1, Invariance, PTL

(* Complete returns an error if, and only if, a check of its round failed, *)
(* and then the error of such a check.                                     *)
THEOREM VerdictIsSound == Spec => []VerdictSound
<1>1. IInv => VerdictSound
  BY Zenon DEF IInv
<1> QED
  BY <1>1, Invariance, PTL

(* When Complete has returned no thread runs or holds a check, and the     *)
(* queue has no result left over.                                          *)
THEOREM RoundsAreIsolated == Spec => []RoundsIsolated
<1>1. IInv => RoundsIsolated
  <2> SUFFICES ASSUME IInv, pc[Master] = "out"
               PROVE  /\ Pending = {} /\ nTodo = 0 /\ m_result = None
                      /\ \A t \in Worker : pc[t] \notin {"work", "skip"}
    BY Zenon DEF RoundsIsolated
  <2>1. Pending = {} /\ m_result = None
    BY Zenon DEF IInv, Control, InRound
  <2>2. nTodo = 0
    BY Zenon, <2>1, FS_EmptySet DEF IInv, TodoCounts
  <2>3. \A t \in Worker : pc[t] \notin {"work", "skip"}
    BY <2>1 DEF IInv, Control, Pending, Thread
  <2> QED
    BY Zenon, <2>1, <2>2, <2>3
<1> QED
  BY <1>1, Invariance, PTL

-----------------------------------------------------------------------------
(* A thread that runs or has been told to. *)
Awake(t) == pc[t] \in {"lock", "work", "skip"} \/ t \in woken

(* No thread sleeps through the event it waits for: a master that waits in *)
(* Complete has been notified or some worker still holds checks, whose     *)
(* last one to finish will notify it; once Add has notified, queued checks *)
(* have a worker awake to take them (if there are workers); and once the   *)
(* destructor has notified, no worker stays in wait.                       *)
NoLostWakeUp ==
    /\ pc[Master] = "wait" =>
           queue = {} /\ (Master \in woken \/ \E t \in Worker : batch[t] # {})
    /\ pc[Master] \in {"add", "lock", "work", "skip"} /\ queue # {} =>
           Worker = {} \/ \E t \in Worker : Awake(t)
    /\ pc[Master] \in {"join", "end"} => \A t \in Worker : pc[t] = "wait" => t \in woken
    /\ \A t \in Worker : pc[t] = "end" => m_request_stop

(* A pass through the critical section of Loop leaves nobody asleep. *)
LEMMA SectionWakes ==
    ASSUME IInv, NoLostWakeUp, NEW t \in Thread, pc[t] \in {"lock", "wait"}, Section(t)
    PROVE  NoLostWakeUp'
<1> DEFINE s == Entered(t)
<1>1. /\ s.todo = 0 <=> Pending \ batch[t] = {}
      /\ s.todo = Cardinality(Pending \ batch[t])
  BY Zenon, EnteredState
<1>2. /\ woken \ {t} \subseteq s.woken
      /\ batch[t] # {} /\ Pending \ batch[t] = {} /\ t # Master /\ pc[Master] = "wait"
             => Master \in s.woken
  <2>1. CASE batch[t] # {}
    <3>1. s.todo = nTodo - Cardinality(batch[t])
          /\ s.woken = IF nTodo - Cardinality(batch[t]) = 0 /\ t # Master /\ pc[Master] = "wait"
                       THEN woken \cup {Master} ELSE woken
      BY Zenon, <2>1 DEF Entered, Counted
    <3> HIDE DEF s
    <3> QED
      BY Zenon, <1>1, <3>1
  <2>2. CASE batch[t] = {}
    BY Zenon, <2>2 DEF Entered
  <2> QED
    BY Zenon, <2>1, <2>2
<1>3. Return(t, s) \/ Wait(t, s) \/ Stop(t, s) \/ Take(t, s)
  BY Zenon DEF Section
<1> HIDE DEF s
<1>4. /\ Control /\ Master \in Thread /\ Worker \subseteq Thread /\ Master \notin Worker
      /\ pc \in [Thread -> Place] /\ batch \in [Thread -> SUBSET Check]
      /\ Thread = Worker \cup {Master}
  BY Zenon, CheckQueueAssumption DEF IInv, TypeOK, Thread
<1>5. ASSUME NEW where, Leave(t, s, where)
      PROVE  /\ pc'[t] = where /\ \A u \in Thread \ {t} : pc'[u] = pc[u]
             /\ m_request_stop' = m_request_stop /\ woken' = s.woken
             /\ \A u \in Thread \ {t} : Awake(u) => Awake(u)'
  BY Zenon, <1>2, <1>4, <1>5 DEF Leave, Awake
<1>6. CASE Return(t, s)
  BY <1>4, <1>5, <1>6 DEF Return, NoLostWakeUp
<1>7. CASE Wait(t, s)
  <2>1. /\ queue = {} /\ queue' = {} /\ ~m_request_stop /\ ~(t = Master /\ s.todo = 0)
        /\ batch' = [batch EXCEPT ![t] = {}] /\ Leave(t, s, "wait")
    BY Zenon, <1>7 DEF Wait
  <2>2. pc[Master] \notin {"join", "end"} /\ pc'[Master] \notin {"join", "end"}
    BY Zenon, <1>4, <1>5, <2>1 DEF Control
  <2>3. ASSUME Pending \ batch[t] # {}, t = Master \/ pc[Master] = "wait"
        PROVE  \E u \in Worker : batch'[u] # {}
    <3>1. PICK u \in Thread \ {t} : batch[u] # {}
      BY <2>1, <2>3 DEF Pending
    <3>2. u # Master
      BY Zenon, <1>4, <2>3, <3>1 DEF Control
    <3> QED
      BY Zenon, <1>4, <2>1, <3>1, <3>2
  <2>4. CASE t = Master
    BY Zenon, <1>1, <1>4, <1>5, <2>1, <2>2, <2>3, <2>4 DEF NoLostWakeUp
  <2>5. CASE t # Master
    <3>1. ASSUME pc'[Master] = "wait", Master \notin woken'
          PROVE  \E u \in Worker : batch'[u] # {}
      <4>1. pc[Master] = "wait" /\ Master \notin woken
        BY Zenon, <1>2, <1>4, <1>5, <2>1, <2>5, <3>1
      <4>2. Pending # {}
        BY <1>4, <4>1 DEF NoLostWakeUp, Pending
      <4>3. Pending \ batch[t] # {}
        BY Zenon, <1>2, <1>5, <2>1, <2>5, <3>1, <4>1, <4>2
      <4> QED
        BY Zenon, <2>3, <4>1, <4>3
    <3> QED
      BY Zenon, <1>4, <1>5, <2>1, <2>2, <3>1 DEF NoLostWakeUp
  <2> QED
    BY Zenon, <2>4, <2>5
<1>8. CASE Stop(t, s)
  <2>1. m_request_stop /\ Leave(t, s, "end")
    BY Zenon, <1>8 DEF Stop
  <2>2. t # Master /\ pc'[Master] \in {"stop", "join", "end"} /\ pc'[Master] = pc[Master]
    BY Zenon, <1>4, <1>5, <2>1 DEF Control
  <2> QED
    BY Zenon, <1>2, <1>4, <1>5, <2>1, <2>2 DEF NoLostWakeUp
<1>9. CASE Take(t, s)
  <2>1. PICK where \in {"work", "skip"} : Leave(t, s, where)
    BY Zenon, <1>9 DEF Take
  <2>2. queue # {} /\ ~m_request_stop /\ queue' \subseteq queue
    BY Zenon, <1>9 DEF Take
  <2>3. pc[Master] \notin {"wait", "join", "end"} /\ pc'[Master] \notin {"wait", "join", "end"}
    BY Zenon, <1>4, <1>5, <2>1, <2>2 DEF Control, NoLostWakeUp
  <2>4. pc'[Master] \in {"add", "lock", "work", "skip"}
           => Worker = {} \/ \E u \in Worker : Awake(u)'
    <3>1. CASE t = Master
      BY Zenon, <1>4, <1>5, <2>1, <2>2, <2>3, <3>1 DEF NoLostWakeUp
    <3>2. CASE t # Master
      BY Zenon, <1>4, <1>5, <2>1, <3>2 DEF Awake
    <3> QED
      BY Zenon, <3>1, <3>2
  <2> QED
    BY Zenon, <1>4, <1>5, <2>1, <2>2, <2>3, <2>4 DEF NoLostWakeUp
<1> QED
  BY Zenon, <1>3, <1>6, <1>7, <1>8, <1>9

(* Nor do Add, the start of a round and the destructor. *)
LEMMA MasterWakes ==
    ASSUME IInv, NoLostWakeUp, MasterStep
    PROVE  NoLostWakeUp'
<1>1. /\ Control /\ Master \in Thread /\ Worker \subseteq Thread /\ Master \notin Worker
      /\ pc \in [Thread -> Place] /\ Thread = Worker \cup {Master}
      /\ m_request_stop \in BOOLEAN
  BY Zenon, CheckQueueAssumption DEF IInv, TypeOK, Thread
<1>2. \A to : pc' = [pc EXCEPT ![Master] = to] =>
                  pc'[Master] = to /\ \A u \in Worker : pc'[u] = pc[u]
  BY Zenon, <1>1
<1>3. ASSUME NEW S \in SUBSET (Check \ added), Add(S) PROVE NoLostWakeUp'
  <2>1. /\ pc'[Master] \in {"notify_one", "notify_all"}
        /\ \A u \in Worker : pc'[u] = pc[u]
        /\ m_request_stop' = m_request_stop
    BY Zenon, <1>1, <1>3 DEF Add
  <2> QED
    BY Zenon, <1>1, <2>1 DEF NoLostWakeUp
<1>4. CASE Begin
  <2>1. pc'[Master] = "add" /\ \A u \in Worker : pc'[u] = pc[u]
    BY Zenon, <1>2, <1>4 DEF Begin
  <2>2. queue' = {} /\ m_request_stop' = m_request_stop
    BY Zenon, <1>1, <1>4 DEF Begin, shared, Control, InRound, Pending
  <2> QED
    BY Zenon, <1>1, <2>1, <2>2 DEF NoLostWakeUp
<1>5. CASE Complete
  <2>1. pc[Master] = "add" /\ pc'[Master] = "lock" /\ \A u \in Worker : pc'[u] = pc[u]
    BY Zenon, <1>2, <1>5 DEF Complete
  <2>2. queue' = queue /\ woken' = woken /\ m_request_stop' = m_request_stop
    BY Zenon, <1>5 DEF Complete, shared
  <2> QED
    BY Zenon, <1>1, <2>1, <2>2 DEF NoLostWakeUp, Awake
<1>6. ASSUME ~m_request_stop, Waiting \subseteq woken PROVE \A u \in Worker : Awake(u)
  BY Zenon, <1>1, <1>6 DEF NoLostWakeUp, Control, Awake, Waiting, InLoop
<1>7. CASE NotifyOne
  <2>1. /\ pc'[Master] = "add" /\ \A u \in Worker : pc'[u] = pc[u]
        /\ m_request_stop' = m_request_stop /\ ~m_request_stop /\ woken \subseteq woken'
    BY Zenon, <1>1, <1>2, <1>7 DEF NotifyOne, Control
  <2>2. Worker = {} \/ \E u \in Worker : Awake(u)'
    <3>1. CASE Waiting \subseteq woken
      BY Zenon, <1>6, <2>1, <3>1 DEF Awake
    <3>2. CASE ~(Waiting \subseteq woken)
      BY Zenon, <1>7, <3>2 DEF NotifyOne, Awake, Waiting
    <3> QED
      BY Zenon, <3>1, <3>2
  <2> QED
    BY Zenon, <1>1, <2>1, <2>2 DEF NoLostWakeUp
<1>8. CASE NotifyAll
  <2>1. /\ pc'[Master] = (IF pc[Master] = "stop" THEN "join" ELSE "add")
        /\ \A u \in Worker : pc'[u] = pc[u]
        /\ m_request_stop' = m_request_stop /\ woken' = woken \cup Waiting
        /\ pc[Master] \in {"notify_all", "stop"}
    BY Zenon, <1>1, <1>8 DEF NotifyAll
  <2>2. pc[Master] = "notify_all" => \A u \in Worker : Awake(u)'
    BY Zenon, <1>1, <2>1 DEF NoLostWakeUp, Control, Awake, Waiting, InLoop
  <2>3. \A u \in Worker : pc'[u] = "wait" => u \in woken'
    BY Zenon, <2>1 DEF Waiting
  <2> QED
    BY Zenon, <1>1, <2>1, <2>2, <2>3 DEF NoLostWakeUp
<1>9. CASE Destroy
  <2>1. pc'[Master] = "stop" /\ m_request_stop'
    BY Zenon, <1>2, <1>9 DEF Destroy
  <2> QED
    BY Zenon, <2>1 DEF NoLostWakeUp
<1>10. CASE Join
  <2>1. /\ pc[Master] = "join" /\ pc'[Master] = "end" /\ \A u \in Worker : pc'[u] = pc[u]
        /\ woken' = woken /\ m_request_stop' = m_request_stop
    BY Zenon, <1>2, <1>10 DEF Join, shared
  <2> QED
    BY Zenon, <1>1, <2>1 DEF NoLostWakeUp
<1> QED
  BY Zenon, <1>3, <1>4, <1>5, <1>7, <1>8, <1>9, <1>10 DEF MasterStep

(* CCheckQueue loses no wake-up, although notify_one and notify_all are    *)
(* called after m_mutex is released and a thread decides to wait on        *)
(* counters that others change: this is the safety half of "Complete       *)
(* returns and the destructor joins".                                      *)
THEOREM NoWakeUpIsLost == Spec => []NoLostWakeUp
<1>1. Init => NoLostWakeUp
  BY Zenon, CheckQueueAssumption DEF Init, NoLostWakeUp, Thread
<1>2. IInv /\ NoLostWakeUp /\ [Next]_vars => NoLostWakeUp'
  <2> SUFFICES ASSUME IInv, NoLostWakeUp, [Next]_vars PROVE NoLostWakeUp'
    BY Zenon
  <2>1. ASSUME NEW t \in Thread, Loop(t) \/ SpuriousWakeup(t) PROVE NoLostWakeUp'
    <3>1. pc[t] \in {"lock", "wait"} /\ Section(t)
      BY Zenon, <2>1 DEF Loop, SpuriousWakeup, IInv, TypeOK
    <3> QED
      BY Zenon, <3>1, SectionWakes
  <2>2. ASSUME NEW t \in Thread, Work(t) \/ Skip(t) PROVE NoLostWakeUp'
    <3>1. /\ pc[t] \in {"work", "skip"} /\ pc' = [pc EXCEPT ![t] = "lock"]
          /\ queue' = queue /\ batch' = batch /\ woken' = woken
          /\ m_request_stop' = m_request_stop
      BY Zenon, <2>2 DEF Work, Skip, shared
    <3>2. pc'[t] = "lock" /\ \A u \in Thread \ {t} : pc'[u] = pc[u]
      BY Zenon, <3>1 DEF IInv, TypeOK
    <3>3. Master \in Thread /\ Worker \subseteq Thread
      BY Zenon DEF Thread
    <3>4. \A u \in Thread : Awake(u) => Awake(u)'
      BY Zenon, <3>1, <3>2 DEF Awake
    <3>5. pc'[Master] # pc[Master] => pc'[Master] = "lock" /\ pc[Master] \in {"work", "skip"}
      BY Zenon, <3>1, <3>2, <3>3
    <3>6. \A u \in Worker : pc'[u] \in {"wait", "end"} => pc[u] = pc'[u]
      BY Zenon, <3>2, <3>3
    <3> QED
      BY Zenon, <3>1, <3>3, <3>4, <3>5, <3>6 DEF NoLostWakeUp
  <2>3. CASE MasterStep
    BY Zenon, <2>3, MasterWakes
  <2>4. CASE UNCHANGED vars
    BY Zenon, <2>4 DEF vars, shared, locals, NoLostWakeUp, Awake
  <2> QED
    BY Zenon, <2>1, <2>2, <2>3, <2>4 DEF Next, Ended
<1> QED
  BY <1>1, <1>2, Invariance, PTL DEF Spec

(* While Complete waits for the checks of its round some thread can run,   *)
(* so the queue never comes to rest before the verdict: the master is      *)
(* awake or notified, or a worker still has a batch to finish or count.    *)
THEOREM RoundNeverStalls ==
    Spec => [](pc[Master] \in InLoop => \E t \in Thread : Awake(t))
<1>1. IInv /\ NoLostWakeUp => (pc[Master] \in InLoop => \E t \in Thread : Awake(t))
  BY Zenon DEF IInv, NoLostWakeUp, Control, InLoop, Awake, Thread
<1> QED
  BY <1>1, Invariance, NoWakeUpIsLost, PTL

=============================================================================
