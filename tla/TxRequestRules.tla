--------------------------- MODULE TxRequestRules ---------------------------
(***************************************************************************)
(* What TxRequestTracker promises: the rules of txrequest.h, in the naive  *)
(* form in which the fuzz test reimplements them (class Tester).  There is *)
(* one announcement for every peer and txhash, it does not matter which of *)
(* the three kinds of CANDIDATE it is, and every operation is one step.    *)
(***************************************************************************)
EXTENDS Announcements

VARIABLES
    m_announcements,
    answer            \* what GetRequestable has just returned

vars == <<m_announcements, answer>>

Init ==
    /\ m_announcements = [x \in Pair |-> Nothing]
    /\ answer = {}

States(a, h) == {a[<<p, h>>].state : p \in Peer}

(* An announcement that fails is COMPLETED; a txhash that has only         *)
(* COMPLETED announcements left is forgotten.                              *)
Cleaned(a) ==
    [x \in Pair |->
        IF States(a, x[2]) \subseteq {"NOTHING", "COMPLETED"} THEN Nothing ELSE a[x]]

Completed(ann) == [state |-> "COMPLETED", time |-> ann.time]

Expired(a, now) ==
    Cleaned([x \in Pair |->
        IF a[x].state = "REQUESTED" /\ a[x].time <= now THEN Completed(a[x]) ELSE a[x]])

(* "No transaction is requested as long as another request for the same    *)
(* txhash is outstanding", and the peer is the best choice among all the   *)
(* candidates whose reqtime has passed.                                    *)
Viable(a, now, x) == a[x].state = "CANDIDATE" /\ a[x].time <= now

GetSelected(a, now, x) ==
    /\ "REQUESTED" \notin States(a, x[2])
    /\ Viable(a, now, x)
    /\ \A q \in Peer : Viable(a, now, <<q, x[2]>>) =>
           Priority(<<q, x[2]>>) <= Priority(x)

ReceivedInv(p, h, reqtime) ==
    /\ <<p, h>> \in Announced
    /\ m_announcements' = [m_announcements EXCEPT ![<<p, h>>] =
           IF @.state = "NOTHING"
           THEN [state |-> "CANDIDATE", time |-> reqtime]
           ELSE @]
    /\ answer' = {}

DisconnectedPeer(p) ==
    /\ m_announcements' =
           Cleaned([x \in Pair |-> IF x[1] = p THEN Nothing ELSE m_announcements[x]])
    /\ answer' = {}

ForgetTxHash(h) ==
    /\ m_announcements' = [x \in Pair |-> IF x[2] = h THEN Nothing ELSE m_announcements[x]]
    /\ answer' = {}

GetRequestable(p, now) ==
    /\ m_announcements' = Expired(m_announcements, now)
    /\ answer' = {h \in TxHash : GetSelected(m_announcements', now, <<p, h>>)}

RequestedTx(p, h, expiry) ==
    /\ m_announcements' =
           IF m_announcements[<<p, h>>].state # "CANDIDATE" THEN m_announcements
           ELSE [x \in Pair |->
                    IF x = <<p, h>>
                    THEN [state |-> "REQUESTED", time |-> expiry]
                    ELSE IF x[2] = h /\ m_announcements[x].state = "REQUESTED"
                    THEN Completed(m_announcements[x])
                    ELSE m_announcements[x]]
    /\ answer' = {}

ReceivedResponse(p, h) ==
    /\ m_announcements' =
           IF m_announcements[<<p, h>>].state = "NOTHING" THEN m_announcements
           ELSE Cleaned([m_announcements EXCEPT ![<<p, h>>] = Completed(@)])
    /\ answer' = {}

Next ==
    \E p \in Peer :
        \/ DisconnectedPeer(p)
        \/ \E now \in Time : GetRequestable(p, now)
        \/ \E h \in TxHash :
               \/ ForgetTxHash(h)
               \/ ReceivedResponse(p, h)
               \/ \E t \in Time : RequestedTx(p, h, t) \/ ReceivedInv(p, h, t)

Spec == Init /\ [][Next]_vars

=============================================================================
