----------------------------- MODULE TxRequest -----------------------------
(***************************************************************************)
(* TxRequestTracker::Impl.  A CANDIDATE is DELAYED, READY or BEST, and the *)
(* operations keep up to date, step by step, which announcement of a       *)
(* txhash is to be requested next, so that GetRequestable only has to list *)
(* those that are BEST.                                                    *)
(*                                                                         *)
(* A call that loops over the index (GetRequestable, which moves the       *)
(* clock, and DisconnectedPeer) takes one step per announcement; no other  *)
(* call runs before it returns, since the caller holds a lock.  The clock  *)
(* may go backwards between two calls.  The order in which GetRequestable  *)
(* lists the txhashes (m_sequence) is left out.                            *)
(***************************************************************************)
EXTENDS Announcements

VARIABLES
    m_index,
    m_peerinfo,
    call,      \* the call that is running, and the announcements at its start
    answer

vars == <<m_index, m_peerinfo, call, answer>>

State == {"NOTHING", "CANDIDATE_DELAYED", "CANDIDATE_READY", "CANDIDATE_BEST",
          "REQUESTED", "COMPLETED"}
IsSelected(ann) == ann.state \in {"CANDIDATE_BEST", "REQUESTED"}
IsWaiting(ann) == ann.state \in {"REQUESTED", "CANDIDATE_DELAYED"}
(* Mutant: a request that is outstanding can be selected again. *)
IsSelectableRequested(ann) == ann.state \in {"CANDIDATE_READY", "CANDIDATE_BEST", "REQUESTED"}

IsSelectable(ann) == ann.state \in {"CANDIDATE_READY", "CANDIDATE_BEST"}

(* ann with another state *)
As(ann, s) == [state |-> s, time |-> ann.time]

NoCall == [op |-> "none", peer |-> 0, now |-> 0, before |-> 0]

Init ==
    /\ m_index = [x \in Pair |-> Nothing]
    /\ m_peerinfo = [p \in Peer |-> [total |-> 0, completed |-> 0, requested |-> 0]]
    /\ call = NoCall
    /\ answer = {}

-----------------------------------------------------------------------------
(* The announcements of txhash h, and those among them in state s. *)
Of(h) == {x \in Pair : x[2] = h /\ m_index[x].state # "NOTHING"}
In(h, s) == {x \in Of(h) : m_index[x].state = s}

One(b) == IF b THEN 1 ELSE 0

(* Mutant: an announcement that did not exist is subtracted. *)
RecountAbsent(info, old, new) ==
    [total     |-> info.total - 1 + One(new # "NOTHING"),
     completed |-> info.completed - One(old = "COMPLETED") + One(new = "COMPLETED"),
     requested |-> info.requested - One(old = "REQUESTED") + One(new = "REQUESTED")]

Recount(info, old, new) ==
    [total     |-> info.total - One(old # "NOTHING") + One(new # "NOTHING"),
     completed |-> info.completed - One(old = "COMPLETED") + One(new = "COMPLETED"),
     requested |-> info.requested - One(old = "REQUESTED") + One(new = "REQUESTED")]

(* Mutant: Modify that only adds to the statistics. *)
ModifyAdding(h, new) ==
    /\ m_index' = [x \in Pair |-> IF x[2] = h THEN new[x] ELSE m_index[x]]
    /\ m_peerinfo' = [p \in Peer |->
           Recount(m_peerinfo[p],
                   IF new[<<p, h>>].state = "NOTHING" THEN m_index[<<p, h>>].state ELSE "NOTHING",
                   new[<<p, h>>].state)]

(* Modify and Erase: the announcements of h become those of new, and the   *)
(* statistics of each peer follow.                                         *)
Modify(h, new) ==
    /\ m_index' = [x \in Pair |-> IF x[2] = h THEN new[x] ELSE m_index[x]]
    /\ m_peerinfo' = [p \in Peer |->
           Recount(m_peerinfo[p], m_index[<<p, h>>].state, new[<<p, h>>].state)]

(* x, when it is READY, comes last of the READY announcements of its       *)
(* txhash, and none follows that is BEST and better, or REQUESTED.         *)
BecomesBest(x) ==
    LET h == x[2]
    IN  /\ \A y \in In(h, "CANDIDATE_READY") : Priority(y) <= Priority(x)
        /\ \A y \in In(h, "CANDIDATE_BEST") : Priority(y) < Priority(x)
        /\ In(h, "CANDIDATE_BEST") = {} => In(h, "REQUESTED") = {}

(* PromoteCandidateReady *)
Promoted(x) ==
    IF ~BecomesBest(x) THEN [m_index EXCEPT ![x] = As(@, "CANDIDATE_READY")]
    ELSE [y \in Pair |->
             IF y = x THEN As(m_index[x], "CANDIDATE_BEST")
             ELSE IF y \in In(x[2], "CANDIDATE_BEST") THEN As(m_index[y], "CANDIDATE_READY")
             ELSE m_index[y]]

(* Mutant: the first of the READY announcements instead of the last. *)
BestReadyFirst(h) ==
    {y \in In(h, "CANDIDATE_READY") :
        \A z \in In(h, "CANDIDATE_READY") : Priority(y) <= Priority(z)}

(* The READY announcement that comes last in ByTxHash. *)
BestReady(h) ==
    {y \in In(h, "CANDIDATE_READY") :
        \A z \in In(h, "CANDIDATE_READY") : Priority(z) <= Priority(y)}

(* ChangeAndReselect *)
Changed(x, s) ==
    [y \in Pair |->
        IF y = x THEN As(m_index[x], s)
        ELSE IF IsSelected(m_index[x]) /\ y \in BestReady(x[2])
        THEN As(m_index[y], "CANDIDATE_BEST")
        ELSE m_index[y]]

IsOnlyNonCompleted(x) == \A y \in Of(x[2]) : y # x => m_index[y].state = "COMPLETED"

Erased == [x \in Pair |-> Nothing]

(* MakeCompleted *)
MadeCompleted(x) ==
    IF m_index[x].state = "COMPLETED" THEN m_index
    ELSE IF IsOnlyNonCompleted(x) THEN Erased
    ELSE Changed(x, "COMPLETED")

-----------------------------------------------------------------------------
(* How the rules see the announcements: there is one kind of CANDIDATE. *)
Naive ==
    [x \in Pair |->
        IF m_index[x].state \in {"CANDIDATE_DELAYED", "CANDIDATE_READY", "CANDIDATE_BEST"}
        THEN As(m_index[x], "CANDIDATE") ELSE m_index[x]]

Begin(op, p, now) ==
    /\ call.op = "none"
    /\ call' = [op |-> op, peer |-> p, now |-> now, before |-> Naive]
    /\ UNCHANGED <<m_index, m_peerinfo, answer>>

GetRequestable(p, now) == Begin("promote", p, now)
DisconnectedPeer(p) == Begin("disconnect", p, 0)

(* SetTimePoint: the announcements whose time has come, oldest first. *)
Due == {x \in Pair : IsWaiting(m_index[x]) /\ m_index[x].time <= call.now}

PromoteOrExpire(x) ==
    /\ call.op = "promote" /\ x \in Due
    /\ \A y \in Due : m_index[x].time <= m_index[y].time
    /\ Modify(x[2], IF m_index[x].state = "REQUESTED" THEN MadeCompleted(x) ELSE Promoted(x))
    /\ UNCHANGED <<call, answer>>

(* Mutant: the time did not go backwards. *)
EarlyNever == {}

(* Mutant: an announcement whose time is now is both due and early. *)
EarlyNow == {x \in Pair : IsSelectable(m_index[x]) /\ m_index[x].time >= call.now}

(* SetTimePoint: those that are early after all, latest first. *)
Early == {x \in Pair : IsSelectable(m_index[x]) /\ m_index[x].time > call.now}

Demote(x) ==
    /\ call.op = "promote" /\ Due = {} /\ x \in Early
    /\ \A y \in Early : m_index[x].time >= m_index[y].time
    /\ Modify(x[2], Changed(x, "CANDIDATE_DELAYED"))
    /\ UNCHANGED <<call, answer>>

(* The CANDIDATE_BEST announcements of the peer. *)
Select ==
    /\ call.op = "promote" /\ Due = {} /\ Early = {}
    /\ answer' = {h \in TxHash : m_index[<<call.peer, h>>].state = "CANDIDATE_BEST"}
    /\ call' = NoCall
    /\ UNCHANGED <<m_index, m_peerinfo>>

(* DisconnectedPeer: each announcement is completed, then erased. *)
Drop(x) ==
    /\ call.op = "disconnect" /\ x[1] = call.peer /\ m_index[x].state # "NOTHING"
    /\ Modify(x[2], [MadeCompleted(x) EXCEPT ![x] = Nothing])
    /\ UNCHANGED <<call, answer>>

Dropped ==
    /\ call.op = "disconnect"
    /\ \A h \in TxHash : m_index[<<call.peer, h>>].state = "NOTHING"
    /\ call' = NoCall
    /\ answer' = {} /\ UNCHANGED <<m_index, m_peerinfo>>

ForgetTxHash(h) ==
    /\ call.op = "none"
    /\ Modify(h, Erased)
    /\ answer' = {} /\ UNCHANGED call

ReceivedInv(p, h, reqtime) ==
    /\ <<p, h>> \in Announced
    /\ call.op = "none"
    /\ m_index[<<p, h>>].state = "NOTHING"
    /\ Modify(h, [m_index EXCEPT ![<<p, h>>] =
           [state |-> "CANDIDATE_DELAYED", time |-> reqtime]])
    /\ answer' = {} /\ UNCHANGED call

RequestedTx(p, h, expiry) ==
    /\ call.op = "none"
    /\ m_index[<<p, h>>].state \in {"CANDIDATE_DELAYED", "CANDIDATE_READY", "CANDIDATE_BEST"}
    /\ Modify(h, [x \in Pair |->
           IF x = <<p, h>>
           THEN [state |-> "REQUESTED", time |-> expiry]
           ELSE IF m_index[x].state = "CANDIDATE_BEST" THEN As(m_index[x], "CANDIDATE_READY")
           ELSE IF m_index[x].state = "REQUESTED" THEN As(m_index[x], "COMPLETED")
           ELSE m_index[x]])
    /\ answer' = {} /\ UNCHANGED call

ReceivedResponse(p, h) ==
    /\ call.op = "none"
    /\ m_index[<<p, h>>].state # "NOTHING"
    /\ Modify(h, MadeCompleted(<<p, h>>))
    /\ answer' = {} /\ UNCHANGED call

Next ==
    \/ Select \/ Dropped
    \/ \E x \in Pair : PromoteOrExpire(x) \/ Demote(x) \/ Drop(x)
    \/ \E p \in Peer :
        \/ DisconnectedPeer(p)
        \/ \E now \in Time : GetRequestable(p, now)
        \/ \E h \in TxHash :
               \/ ForgetTxHash(h)
               \/ ReceivedResponse(p, h)
               \/ \E t \in Time : RequestedTx(p, h, t) \/ ReceivedInv(p, h, t)

Spec == Init /\ [][Next]_vars

FairSpec ==
    /\ Spec
    /\ WF_vars(Select \/ Dropped \/ \E x \in Pair : PromoteOrExpire(x) \/ Demote(x) \/ Drop(x))

-----------------------------------------------------------------------------
Announcement(states) == [state : states, time : Time]

TypeOK ==
    /\ m_index \in [Pair -> Announcement(State)]
    /\ m_peerinfo \in [Peer -> [total : Nat, completed : Nat, requested : Nat]]
    /\ \/ call = NoCall
       \/ /\ call.op \in {"promote", "disconnect"} /\ call.peer \in Peer /\ call.now \in Time
          /\ call.before \in [Pair -> Announcement({"NOTHING", "CANDIDATE", "REQUESTED", "COMPLETED"})]
    /\ answer \subseteq TxHash

(* The statistics by which the caller limits a peer are those of the index *)
(* (the first assertion of SanityCheck).                                   *)
Numbers(p, states) == Cardinality({h \in TxHash : m_index[<<p, h>>].state \in states})

CountsRight ==
    \A p \in Peer : m_peerinfo[p] =
        [total |-> Numbers(p, State \ {"NOTHING"}),
         completed |-> Numbers(p, {"COMPLETED"}),
         requested |-> Numbers(p, {"REQUESTED"})]

(* The other assertions of SanityCheck.  They hold between any two steps,  *)
(* also in the middle of SetTimePoint, where a BEST announcement may be    *)
(* early and others are not yet READY.                                     *)
Selected(h) == In(h, "CANDIDATE_BEST") \cup In(h, "REQUESTED")

Sanity ==
    \A h \in TxHash :
        /\ Of(h) # {} => Of(h) # In(h, "COMPLETED")
        /\ \A x, y \in Selected(h) : x = y
        /\ In(h, "CANDIDATE_READY") # {} => Selected(h) # {}
        /\ \A x \in In(h, "CANDIDATE_BEST") : \A y \in In(h, "CANDIDATE_READY") : Priority(x) >= Priority(y)

(* "The same transaction is never requested twice from the same peer,      *)
(* unless the announcement was forgotten in between, and re-announced."    *)
NeverTwice ==
    [][\A x \in Pair : m_index[x].state \in {"REQUESTED", "COMPLETED"} =>
           m_index'[x].state \in {m_index[x].state, "COMPLETED", "NOTHING"}]_vars

(* The tracker implements the rules; a call that loops takes effect when   *)
(* it returns.                                                             *)
Rules == INSTANCE TxRequestRules WITH
    m_announcements <- IF call.op = "none" THEN Naive ELSE call.before

KeepsPromise == Rules!Spec

(* The loops of SetTimePoint and of DisconnectedPeer end, although         *)
(* promoting, demoting and reselecting change the index they iterate over. *)
CallsReturn == call.op # "none" ~> call.op = "none"

============================================================================
