-------------------------- MODULE TxRequestProofs --------------------------
(***************************************************************************)
(* TxRequestTracker keeps its invariants and implements the rules, for any *)
(* peers, transactions, times and priorities.  Sanity is inductive: it     *)
(* holds in the middle of SetTimePoint too.  To show that a loop has, when *)
(* it ends, the effect that the rules give to the call, Progress says      *)
(* which txhashes it has dealt with: the announcements of each are as they *)
(* were at the start of the call, or as the rules want them.               *)
(***************************************************************************)
EXTENDS TxRequest, FiniteSetTheorems, WellFoundedInduction, TLAPS

(* Priorities are natural numbers that tell the peers of a txhash apart. *)
LEMMA Priorities ==
    /\ \A x \in Pair : Priority(x) \in Nat /\ Priority(x) < 2 * PreferredBit
    /\ \A x, y \in Pair : x[2] = y[2] /\ Priority(x) = Priority(y) => x = y
<1>1. \A x \in Pair : Low[x] \in 0..(PreferredBit - 1) /\ PreferredBit \in Nat
  BY Zenon, TxRequestAssumption DEF Pair
<1>2. \A x \in Pair : Priority(x) \in Nat /\ Priority(x) < 2 * PreferredBit
  BY <1>1 DEF Priority
<1>3. ASSUME NEW x \in Pair, NEW y \in Pair, x[2] = y[2], Priority(x) = Priority(y)
      PROVE  x = y
  <2>1. Low[x] = Low[y]
    BY <1>1, <1>3 DEF Priority
  <2>2. x = <<x[1], x[2]>> /\ y = <<y[1], y[2]>> /\ x[1] \in Peer /\ y[1] \in Peer /\ x[2] \in TxHash
    BY DEF Pair
  <2> QED
    BY Zenon, <1>3, <2>1, <2>2, TxRequestAssumption
<1> QED
  BY Zenon, <1>2, <1>3

(* Among READY announcements there is a best one, and only one. *)
LEMMA BestExists ==
    ASSUME NEW S \in SUBSET Pair, S # {}
    PROVE  \E x \in S : \A y \in S : Priority(y) <= Priority(x)
<1> DEFINE T == {2 * PreferredBit - Priority(y) : y \in S}
<1>0. PreferredBit \in Nat
  BY Zenon, TxRequestAssumption
<1>1. T \subseteq Nat /\ T # {}
  BY <1>0, Priorities
<1> HIDE DEF T
<1>2. PICK n \in T : \A m \in T : ~(<<m, n>> \in OpToRel(<, Nat))
  BY Zenon, <1>1, WFMin, NatLessThanWellFounded
<1>3. \A m \in T : ~(m < n)
  BY Zenon, <1>1, <1>2 DEF OpToRel
<1>4. PICK x \in S : n = 2 * PreferredBit - Priority(x)
  BY Zenon DEF T
<1>5. ASSUME NEW y \in S PROVE Priority(y) <= Priority(x)
  <2>1. 2 * PreferredBit - Priority(y) \in T
    BY Zenon DEF T
  <2>2. Priority(x) \in Nat /\ Priority(y) \in Nat
    BY Zenon, Priorities
  <2> QED
    BY <1>0, <1>3, <1>4, <2>1, <2>2
<1> QED
  BY Zenon, <1>5

-----------------------------------------------------------------------------
(* Sanity of the announcements g of one txhash. *)
SaneOn(g, h) ==
    /\ (\A x \in Pair : x[2] = h => g[x].state \in {"NOTHING", "COMPLETED"})
           => \A x \in Pair : x[2] = h => g[x].state = "NOTHING"
    /\ \A x, y \in Pair : x[2] = h /\ y[2] = h /\ IsSelected(g[x]) /\ IsSelected(g[y]) => x = y
    /\ \A x \in Pair : x[2] = h /\ g[x].state = "CANDIDATE_READY" =>
           \E y \in Pair : y[2] = h /\ IsSelected(g[y])
    /\ \A x, y \in Pair : x[2] = h /\ y[2] = h /\ g[x].state = "CANDIDATE_BEST"
           /\ g[y].state = "CANDIDATE_READY" => Priority(x) >= Priority(y)

Index == [Pair -> Announcement(State)]

LEMMA SanityOn ==
    ASSUME m_index \in Index
    PROVE  Sanity <=> \A h \in TxHash : SaneOn(m_index, h)
<1>1. ASSUME NEW h \in TxHash
      PROVE  (/\ Of(h) # {} => Of(h) # In(h, "COMPLETED")
              /\ \A x, y \in Selected(h) : x = y
              /\ In(h, "CANDIDATE_READY") # {} => Selected(h) # {}
              /\ \A x \in In(h, "CANDIDATE_BEST") : \A y \in In(h, "CANDIDATE_READY") :
                     Priority(x) >= Priority(y))
             <=> SaneOn(m_index, h)
  <2>1. (Of(h) # {} => Of(h) # In(h, "COMPLETED")) <=>
            ((\A x \in Pair : x[2] = h => m_index[x].state \in {"NOTHING", "COMPLETED"})
               => \A x \in Pair : x[2] = h => m_index[x].state = "NOTHING")
    BY Zenon DEF Of, In
  <2>2. (\A x, y \in Selected(h) : x = y) <=>
            \A x, y \in Pair : x[2] = h /\ y[2] = h /\ IsSelected(m_index[x])
                               /\ IsSelected(m_index[y]) => x = y
    BY Zenon DEF Selected, Of, In, IsSelected
  <2>3. (In(h, "CANDIDATE_READY") # {} => Selected(h) # {}) <=>
            \A x \in Pair : x[2] = h /\ m_index[x].state = "CANDIDATE_READY" =>
                \E y \in Pair : y[2] = h /\ IsSelected(m_index[y])
    BY Zenon DEF Selected, Of, In, IsSelected
  <2>4. (\A x \in In(h, "CANDIDATE_BEST") : \A y \in In(h, "CANDIDATE_READY") :
             Priority(x) >= Priority(y)) <=>
            \A x, y \in Pair : x[2] = h /\ y[2] = h /\ m_index[x].state = "CANDIDATE_BEST"
                /\ m_index[y].state = "CANDIDATE_READY" => Priority(x) >= Priority(y)
    BY Zenon DEF Of, In
  <2> QED
    BY Zenon, <2>1, <2>2, <2>3, <2>4 DEF SaneOn
<1> QED
  BY Zenon, <1>1 DEF Sanity

(* The functions that the operations hand to Modify keep a txhash sane. *)
LEMMA AsType ==
    ASSUME NEW ann \in Announcement(State), NEW s \in State
    PROVE  As(ann, s) \in Announcement(State) /\ As(ann, s).state = s
                /\ As(ann, s).time = ann.time
  BY Zenon DEF As, Announcement

LEMMA NothingType == Nothing \in Announcement(State) /\ Nothing.state = "NOTHING"
  BY Zenon, TxRequestAssumption DEF Nothing, Announcement, State

LEMMA InState ==
    ASSUME NEW h, NEW y \in Pair, NEW s \in State \ {"NOTHING"}
    PROVE  y \in In(h, s) <=> y[2] = h /\ m_index[y].state = s
  BY Zenon DEF In, Of

LEMMA PromotedSane ==
    ASSUME m_index \in Index, NEW x \in Pair, m_index[x].state = "CANDIDATE_DELAYED",
           SaneOn(m_index, x[2])
    PROVE  Promoted(x) \in Index /\ SaneOn(Promoted(x), x[2])
<1> DEFINE h == x[2]
           g == Promoted(x)
           Ready(y) == y[2] = h /\ m_index[y].state = "CANDIDATE_READY"
           Best(y) == y[2] = h /\ m_index[y].state = "CANDIDATE_BEST"
           Requested(y) == y[2] = h /\ m_index[y].state = "REQUESTED"
<1>0. /\ \A y \in Pair : m_index[y] \in Announcement(State) /\ Priority(y) \in Nat
      /\ {"CANDIDATE_READY", "CANDIDATE_BEST", "REQUESTED"} \subseteq State \ {"NOTHING"}
      /\ m_index = [y \in Pair |-> m_index[y]]
  BY Zenon, Priorities DEF Index, State
<1>1. \A y \in Pair : /\ y \in In(h, "CANDIDATE_READY") <=> Ready(y)
                      /\ y \in In(h, "CANDIDATE_BEST") <=> Best(y)
                      /\ y \in In(h, "REQUESTED") <=> Requested(y)
  BY <1>0, InState
<1>2. \A s : In(h, s) \subseteq Pair
  BY Zenon DEF In, Of
<1>3. CASE BecomesBest(x)
  <2>1. g = [y \in Pair |->
             IF y = x THEN As(m_index[x], "CANDIDATE_BEST")
             ELSE IF y \in In(h, "CANDIDATE_BEST") THEN As(m_index[y], "CANDIDATE_READY")
             ELSE m_index[y]]
    BY Zenon, <1>3 DEF Promoted
  <2>2. \A y \in Pair : Ready(y) \/ Best(y) => Priority(y) <= Priority(x)
    BY <1>0, <1>1, <1>3 DEF BecomesBest
  <2>3. (\A y \in Pair : ~Best(y)) => \A y \in Pair : ~Requested(y)
    BY Zenon, <1>1, <1>2, <1>3 DEF BecomesBest
  <2>4. \A y \in Pair : g[y] = IF y = x THEN As(m_index[x], "CANDIDATE_BEST")
                               ELSE IF Best(y) THEN As(m_index[y], "CANDIDATE_READY")
                               ELSE m_index[y]
    BY Zenon, <2>1, <1>1
  <2>5. g \in Index
    BY <2>1, <1>0, AsType DEF Index
  <2>6. /\ g[x].state = "CANDIDATE_BEST"
        /\ \A y \in Pair : y # x => g[y].state =
               IF Best(y) THEN "CANDIDATE_READY" ELSE m_index[y].state
    BY <2>4, <1>0, AsType
  <2> HIDE DEF g
  <2>7. \A y \in Pair : y[2] = h /\ y # x => ~IsSelected(g[y])
    BY Zenon, <2>3, <2>6 DEF SaneOn, IsSelected
  <2>8. \A y \in Pair : y[2] = h /\ g[y].state = "CANDIDATE_READY" => Priority(x) >= Priority(y)
    BY Zenon, <2>2, <2>6, <1>0
  <2>9. IsSelected(g[x])
    BY Zenon, <2>6 DEF IsSelected
  <2>10. SaneOn(g, h)
    BY Zenon, <2>6, <2>7, <2>8, <2>9 DEF SaneOn, IsSelected
  <2> QED
    BY Zenon, <2>5, <2>10 DEF g
<1>4. CASE ~BecomesBest(x)
  <2>1. g = [m_index EXCEPT ![x] = As(m_index[x], "CANDIDATE_READY")]
    BY Zenon, <1>4 DEF Promoted
  <2>2. g \in Index
    BY <2>1, <1>0, AsType DEF Index
  <2>3. /\ g[x].state = "CANDIDATE_READY"
        /\ \A y \in Pair : y # x => g[y].state = m_index[y].state
    BY <2>1, <1>0, AsType
  <2>4. PICK z \in Pair : \/ Best(z) /\ Priority(x) <= Priority(z)
                          \/ Requested(z)
                          \/ Ready(z) /\ Priority(x) < Priority(z)
    <3>1. \/ \E y \in In(h, "CANDIDATE_READY") : ~(Priority(y) <= Priority(x))
          \/ \E y \in In(h, "CANDIDATE_BEST") : ~(Priority(y) < Priority(x))
          \/ \E y \in In(h, "REQUESTED") : TRUE
      BY Zenon, <1>4 DEF BecomesBest
    <3>2. ASSUME NEW y \in In(h, "CANDIDATE_READY"), ~(Priority(y) <= Priority(x))
          PROVE  y \in Pair /\ Ready(y) /\ Priority(x) < Priority(y)
      BY <3>2, <1>0, <1>1, <1>2
    <3>3. ASSUME NEW y \in In(h, "CANDIDATE_BEST"), ~(Priority(y) < Priority(x))
          PROVE  y \in Pair /\ Best(y) /\ Priority(x) <= Priority(y)
      BY <3>3, <1>0, <1>1, <1>2
    <3>4. \A y \in In(h, "REQUESTED") : y \in Pair /\ Requested(y)
      BY Zenon, <1>1, <1>2
    <3> HIDE DEF Ready, Best, Requested
    <3> QED
      BY Zenon, <3>1, <3>2, <3>3, <3>4
  <2> HIDE DEF g
  <2>5. PICK w \in Pair : w[2] = h /\ IsSelected(m_index[w])
    BY Zenon, <2>4 DEF SaneOn, IsSelected
  <2>6. Best(w) => Priority(w) >= Priority(x)
    BY <2>4, <2>5, <1>0 DEF SaneOn, IsSelected
  <2>7. w # x /\ IsSelected(g[w]) /\ \A y \in Pair : y[2] = h /\ IsSelected(g[y]) => y = w
    BY Zenon, <2>3, <2>5 DEF SaneOn, IsSelected
  <2>8. \A y, u \in Pair : y[2] = h /\ u[2] = h /\ g[y].state = "CANDIDATE_BEST"
            /\ g[u].state = "CANDIDATE_READY" => Priority(y) >= Priority(u)
    BY Zenon, <2>3, <2>6, <2>7 DEF SaneOn, IsSelected
  <2>9. SaneOn(g, h)
    <3>1. \E y \in Pair : y[2] = h /\ g[y].state \notin {"NOTHING", "COMPLETED"}
      BY Zenon, <2>3
    <3>2. w[2] = h
      BY Zenon, <2>5
    <3> QED
      BY Zenon, <2>7, <2>8, <3>1, <3>2 DEF SaneOn
  <2> QED
    BY Zenon, <2>2, <2>9 DEF g
<1> QED
  BY Zenon, <1>3, <1>4

LEMMA ChangedSane ==
    ASSUME m_index \in Index, NEW x \in Pair, SaneOn(m_index, x[2]),
           NEW s \in {"COMPLETED", "CANDIDATE_DELAYED"},
           s = "COMPLETED" => m_index[x].state # "NOTHING" /\ ~IsOnlyNonCompleted(x)
    PROVE  /\ Changed(x, s) \in Index
           /\ SaneOn(Changed(x, s), x[2])
           /\ s = "COMPLETED" => \E y \in Pair : /\ y # x /\ y[2] = x[2]
                                     /\ Changed(x, s)[y].state \notin {"NOTHING", "COMPLETED"}
           /\ Changed(x, s)[x] = As(m_index[x], s)
           /\ \A y \in Pair : y # x =>
                  \/ Changed(x, s)[y] = m_index[y]
                  \/ /\ m_index[y].state = "CANDIDATE_READY"
                     /\ Changed(x, s)[y] = As(m_index[y], "CANDIDATE_BEST")
<1> DEFINE h == x[2]
           g == Changed(x, s)
           Ready(y) == y[2] = h /\ m_index[y].state = "CANDIDATE_READY"
<1>0. /\ \A y \in Pair : m_index[y] \in Announcement(State) /\ Priority(y) \in Nat
      /\ s \in State /\ "CANDIDATE_BEST" \in State /\ "CANDIDATE_READY" \in State \ {"NOTHING"}
  BY Zenon, Priorities DEF Index, State
<1>1. \A y \in Pair : y \in In(h, "CANDIDATE_READY") <=> Ready(y)
  BY <1>0, InState
<1>2. In(h, "CANDIDATE_READY") \subseteq Pair
  BY Zenon DEF In, Of
<1>3. \A y \in Pair : y \in BestReady(h) <=>
          Ready(y) /\ \A z \in Pair : Ready(z) => Priority(z) <= Priority(y)
  BY Zenon, <1>1, <1>2 DEF BestReady
<1>4. /\ g = [y \in Pair |-> g[y]]
      /\ g[x] = As(m_index[x], s)
      /\ \A y \in Pair : y # x =>
             g[y] = IF IsSelected(m_index[x]) /\ y \in BestReady(h)
                    THEN As(m_index[y], "CANDIDATE_BEST") ELSE m_index[y]
  BY Zenon DEF Changed
<1> HIDE DEF g
<1>5. g \in Index
  <2>1. \A y \in Pair : g[y] \in Announcement(State)
    BY SMTT(30), <1>0, <1>4, AsType
  <2> QED
    BY Zenon, <1>4, <2>1 DEF Index
<1>6. /\ g[x].state = s
      /\ \A y \in Pair : y # x =>
             g[y].state = IF IsSelected(m_index[x]) /\ y \in BestReady(h)
                          THEN "CANDIDATE_BEST" ELSE m_index[y].state
  BY SMTT(30), <1>0, <1>4, AsType
<1>7. s = "COMPLETED" => \E y \in Pair : /\ y # x /\ y[2] = h
                                         /\ g[y].state \notin {"NOTHING", "COMPLETED"}
  BY Zenon, <1>6 DEF IsOnlyNonCompleted, Of
<1>8. \A y, z \in Pair : y \in BestReady(h) /\ z \in BestReady(h) => y = z
  BY <1>0, <1>3, Priorities
<1>9. \E y \in Pair : y[2] = h /\ g[y].state \notin {"NOTHING", "COMPLETED"}
  BY Zenon, <1>6, <1>7
<1>10. SaneOn(g, h)
  <2>1. CASE ~IsSelected(m_index[x])
    <3>1. \A y \in Pair : y # x => g[y].state = m_index[y].state
      BY Zenon, <1>6, <2>1
    <3>2. ~IsSelected(g[x]) /\ g[x].state # "CANDIDATE_READY"
      BY Zenon, <1>6 DEF IsSelected
    <3>3. \A y \in Pair : y[2] = h => (IsSelected(g[y]) <=> IsSelected(m_index[y]))
      BY Zenon, <2>1, <3>1, <3>2 DEF IsSelected
    <3> QED
      BY <1>9, <3>1, <3>2, <3>3 DEF SaneOn, IsSelected
  <2>2. CASE IsSelected(m_index[x])
    <3>1. \A y \in Pair : y # x /\ y[2] = h /\ y \notin BestReady(h) =>
              g[y].state = m_index[y].state /\ ~IsSelected(g[y])
      BY Zenon, <1>6, <2>2 DEF SaneOn, IsSelected
    <3>2. \A y \in Pair : y \in BestReady(h) => y # x /\ g[y].state = "CANDIDATE_BEST"
      BY Zenon, <1>3, <1>6, <2>2 DEF IsSelected
    <3>3. ~IsSelected(g[x]) /\ g[x].state # "CANDIDATE_READY"
      BY Zenon, <1>6 DEF IsSelected
    <3>4. \A y, z \in Pair : y[2] = h /\ z[2] = h /\ IsSelected(g[y]) /\ IsSelected(g[z]) => y = z
      BY Zenon, <1>8, <3>1, <3>3
    <3>5. \A y \in Pair : y[2] = h /\ g[y].state = "CANDIDATE_READY" => Ready(y)
      BY Zenon, <3>1, <3>2, <3>3
    <3>6. ASSUME NEW y \in Pair, y[2] = h, g[y].state = "CANDIDATE_READY"
          PROVE  \E z \in Pair : z[2] = h /\ IsSelected(g[z])
      <4>1. \E z \in In(h, "CANDIDATE_READY") : \A u \in In(h, "CANDIDATE_READY") :
                Priority(u) <= Priority(z)
        BY Zenon, <1>1, <1>2, <3>5, <3>6, BestExists
      <4>2. PICK z \in BestReady(h) : TRUE
        BY Zenon, <4>1 DEF BestReady
      <4>3. z \in Pair /\ z[2] = h
        BY Zenon, <1>1, <1>2 DEF BestReady
      <4> QED
        BY Zenon, <4>2, <4>3, <3>2 DEF IsSelected
    <3>7. \A y, z \in Pair : y[2] = h /\ z[2] = h /\ g[y].state = "CANDIDATE_BEST"
              /\ g[z].state = "CANDIDATE_READY" => Priority(y) >= Priority(z)
      BY Zenon, <1>0, <1>3, <3>1, <3>3, <3>5 DEF IsSelected
    <3> QED
      BY Zenon, <1>9, <3>4, <3>6, <3>7 DEF SaneOn
  <2> QED
    BY Zenon, <2>1, <2>2
<1>11. \A y \in Pair : y # x =>
           \/ g[y] = m_index[y]
           \/ m_index[y].state = "CANDIDATE_READY" /\ g[y] = As(m_index[y], "CANDIDATE_BEST")
  BY Zenon, <1>3, <1>4
<1> QED
  BY Zenon, <1>4, <1>5, <1>7, <1>10, <1>11 DEF g

-----------------------------------------------------------------------------
(* What an operation may do to the announcements of txhash h, beside       *)
(* keeping them sane: an announcement that is gone leaves nothing behind,  *)
(* and one that was requested is never a candidate again.                  *)
Kinds == {"CANDIDATE_DELAYED", "CANDIDATE_READY", "CANDIDATE_BEST"}

NaiveOf(ann) == IF ann.state \in Kinds THEN As(ann, "CANDIDATE") ELSE ann

Blank(f) == \A y \in Pair : f[y].state = "NOTHING" => f[y] = Nothing

Onward(f, h) ==
    \A y \in Pair : y[2] = h /\ m_index[y].state \in {"REQUESTED", "COMPLETED"} =>
        f[y].state \in {m_index[y].state, "COMPLETED", "NOTHING"}

Legal(f, h) == f \in Index /\ SaneOn(f, h) /\ Blank(f) /\ Onward(f, h)

(* Only the kind of a candidate changes. *)
SameKinds(f, y) ==
    \/ f[y] = m_index[y]
    \/ m_index[y].state \in Kinds /\ \E s \in Kinds : f[y] = As(m_index[y], s)

LEMMA SameKindsFacts ==
    ASSUME m_index \in Index, Blank(m_index), NEW f, NEW y \in Pair, SameKinds(f, y)
    PROVE  /\ NaiveOf(f[y]) = NaiveOf(m_index[y])
           /\ f[y].state = "NOTHING" => f[y] = Nothing
           /\ m_index[y].state \in {"REQUESTED", "COMPLETED"} => f[y].state = m_index[y].state
<1>1. m_index[y] \in Announcement(State) /\ Kinds \subseteq State
  BY Zenon DEF Index, Kinds, State
<1>2. CASE f[y] = m_index[y]
  BY Zenon, <1>2 DEF Blank
<1>3. CASE m_index[y].state \in Kinds /\ \E s \in Kinds : f[y] = As(m_index[y], s)
  <2>1. PICK s \in Kinds : f[y] = As(m_index[y], s)
    BY Zenon, <1>3
  <2>2. f[y].state = s /\ f[y].time = m_index[y].time
    BY <1>1, <2>1, AsType
  <2> QED
    BY Zenon, <1>3, <2>2 DEF NaiveOf, As, Kinds
<1> QED
  BY Zenon, <1>2, <1>3 DEF SameKinds

LEMMA PromotedLegal ==
    ASSUME m_index \in Index, Blank(m_index), NEW x \in Pair,
           m_index[x].state = "CANDIDATE_DELAYED", SaneOn(m_index, x[2])
    PROVE  /\ Legal(Promoted(x), x[2])
           /\ \A y \in Pair : NaiveOf(Promoted(x)[y]) = NaiveOf(m_index[y])
<1>1. Promoted(x) \in Index /\ SaneOn(Promoted(x), x[2])
  BY Zenon, PromotedSane
<1>2. \A y \in Pair : SameKinds(Promoted(x), y)
  <2>1. m_index = [y \in Pair |-> m_index[y]]
    BY Zenon DEF Index
  <2>2. \A y \in In(x[2], "CANDIDATE_BEST") : m_index[y].state \in Kinds
    BY Zenon DEF In, Kinds
  <2>3. m_index[x].state \in Kinds /\ {"CANDIDATE_READY", "CANDIDATE_BEST"} \subseteq Kinds
    BY Zenon DEF Kinds
  <2> QED
    BY Zenon, <2>1, <2>2, <2>3 DEF Promoted, SameKinds
<1> QED
  BY Zenon, <1>1, <1>2, SameKindsFacts DEF Legal, Blank, Onward

LEMMA DelayedLegal ==
    ASSUME m_index \in Index, Blank(m_index), NEW x \in Pair,
           IsSelectable(m_index[x]), SaneOn(m_index, x[2])
    PROVE  /\ Legal(Changed(x, "CANDIDATE_DELAYED"), x[2])
           /\ \A y \in Pair : NaiveOf(Changed(x, "CANDIDATE_DELAYED")[y]) = NaiveOf(m_index[y])
<1> DEFINE g == Changed(x, "CANDIDATE_DELAYED")
<1>1. /\ g \in Index /\ SaneOn(g, x[2])
      /\ g[x] = As(m_index[x], "CANDIDATE_DELAYED")
      /\ \A y \in Pair : y # x =>
             \/ g[y] = m_index[y]
             \/ m_index[y].state = "CANDIDATE_READY" /\ g[y] = As(m_index[y], "CANDIDATE_BEST")
  BY Zenon, ChangedSane
<1> HIDE DEF g
<1>2. \A y \in Pair : SameKinds(g, y)
  BY Zenon, <1>1 DEF SameKinds, Kinds, IsSelectable
<1>3. Legal(g, x[2]) /\ \A y \in Pair : NaiveOf(g[y]) = NaiveOf(m_index[y])
  BY Zenon, <1>1, <1>2, SameKindsFacts DEF Legal, Blank, Onward
<1> QED
  BY Zenon, <1>3 DEF g

-----------------------------------------------------------------------------
(* The rules, read txhash by txhash. *)
LEMMA CleanedAt ==
    ASSUME NEW a, NEW h \in TxHash, NEW y \in Pair, y[2] = h
    PROVE  /\ (\E z \in Pair : z[2] = h /\ a[z].state \notin {"NOTHING", "COMPLETED"})
                  => Rules!Cleaned(a)[y] = a[y]
           /\ (\A z \in Pair : z[2] = h => a[z].state \in {"NOTHING", "COMPLETED"})
                  => Rules!Cleaned(a)[y] = Nothing
<1>1. \A z \in Pair : z = <<z[1], z[2]>> /\ z[1] \in Peer
  BY DEF Pair
<1>2. \A q \in Peer : <<q, h>> \in Pair /\ <<q, h>>[2] = h
  BY Zenon DEF Pair
<1>3. Rules!States(a, h) \subseteq {"NOTHING", "COMPLETED"} <=>
          \A z \in Pair : z[2] = h => a[z].state \in {"NOTHING", "COMPLETED"}
  BY Zenon, <1>1, <1>2 DEF Rules!States
<1>4. Rules!Cleaned(a)[y] =
          IF Rules!States(a, h) \subseteq {"NOTHING", "COMPLETED"} THEN Nothing ELSE a[y]
  BY Zenon DEF Rules!Cleaned, Rules!Pair, Pair, Rules!Nothing, Nothing
<1> QED
  BY Zenon, <1>3, <1>4

(* A candidate is one under either name. *)
LEMMA NaiveState ==
    ASSUME m_index \in Index, NEW y \in Pair
    PROVE  /\ Naive[y] = NaiveOf(m_index[y])
           /\ Naive[y].time = m_index[y].time
           /\ m_index[y].state \in Kinds => Naive[y] = As(m_index[y], "CANDIDATE")
           /\ m_index[y].state \notin Kinds => Naive[y] = m_index[y]
           /\ Naive[y].state = IF m_index[y].state \in Kinds THEN "CANDIDATE" ELSE m_index[y].state
           /\ As(Naive[y], "COMPLETED") = As(m_index[y], "COMPLETED")
           /\ Naive[y] \in Announcement({"NOTHING", "CANDIDATE", "REQUESTED", "COMPLETED"})
<1>1. m_index[y] \in Announcement(State)
  BY Zenon DEF Index
<1>2. Naive[y] = NaiveOf(m_index[y])
  BY Zenon DEF Naive, NaiveOf, Kinds
<1> QED
  BY <1>1, <1>2 DEF NaiveOf, Kinds, As, Announcement, State

LEMMA ErasedLegal ==
    ASSUME m_index \in Index, NEW h
    PROVE  Legal(Erased, h) /\ \A y \in Pair : NaiveOf(Erased[y]) = Nothing
<1>1. \A y \in Pair : Erased[y] = Nothing
  BY Zenon DEF Erased
<1>2. Erased \in Index
  BY Zenon, NothingType DEF Erased, Index
<1>3. \A y \in Pair : Erased[y].state = "NOTHING"
  BY Zenon, <1>1, NothingType
<1>4. SaneOn(Erased, h)
  BY Zenon, <1>3 DEF SaneOn, IsSelected
<1> QED
  BY Zenon, <1>1, <1>2, <1>3, <1>4 DEF Legal, Blank, Onward, NaiveOf, Kinds

(* A sane txhash needs no cleaning. *)
LEMMA AlreadyClean ==
    ASSUME m_index \in Index, Blank(m_index), NEW h \in TxHash, SaneOn(m_index, h),
           NEW a, \A y \in Pair : y[2] = h => a[y] = Naive[y]
    PROVE  \A y \in Pair : y[2] = h => Rules!Cleaned(a)[y] = Naive[y]
<1> SUFFICES ASSUME NEW y \in Pair, y[2] = h
             PROVE  Rules!Cleaned(a)[y] = Naive[y]
  BY Zenon
<1>1. CASE \E z \in Pair : z[2] = h /\ a[z].state \notin {"NOTHING", "COMPLETED"}
  BY Zenon, <1>1, CleanedAt
<1>2. CASE \A z \in Pair : z[2] = h => a[z].state \in {"NOTHING", "COMPLETED"}
  <2>1. \A z \in Pair : z[2] = h => m_index[z].state \in {"NOTHING", "COMPLETED"}
    BY Zenon, <1>2, NaiveState
  <2>2. m_index[y] = Nothing
    BY Zenon, <2>1 DEF SaneOn, Blank
  <2>3. Naive[y] = Nothing
    BY Zenon, <2>2, NaiveState, NothingType DEF Kinds
  <2> QED
    BY Zenon, <1>2, <2>3, CleanedAt
<1> QED
  BY Zenon, <1>1, <1>2

LEMMA MadeCompletedLegal ==
    ASSUME m_index \in Index, Blank(m_index), NEW x \in Pair, SaneOn(m_index, x[2]),
           m_index[x].state # "NOTHING",
           NEW a, a[x] = As(Naive[x], "COMPLETED"),
           \A y \in Pair : y[2] = x[2] /\ y # x => a[y] = Naive[y]
    PROVE  /\ Legal(MadeCompleted(x), x[2])
           /\ \A y \in Pair : y[2] = x[2] => NaiveOf(MadeCompleted(x)[y]) = Rules!Cleaned(a)[y]
<1> DEFINE h == x[2]
           f == MadeCompleted(x)
<1>0. h \in TxHash /\ m_index[x] \in Announcement(State) /\ "COMPLETED" \in State
  BY Zenon DEF Pair, Index, State
<1>1. CASE m_index[x].state = "COMPLETED"
  <2>1. f = m_index
    BY Zenon, <1>1 DEF MadeCompleted
  <2>2. a[x] = Naive[x]
    <3>1. Naive[x] = m_index[x]
      BY Zenon, <1>1, NaiveState DEF Kinds
    <3>2. As(m_index[x], "COMPLETED") = m_index[x]
      BY Zenon, <1>0, <1>1 DEF As, Announcement
    <3> QED
      BY Zenon, <3>1, <3>2
  <2>3. \A y \in Pair : y[2] = h => a[y] = Naive[y]
    BY Zenon, <2>2
  <2>4. \A y \in Pair : y[2] = h => Rules!Cleaned(a)[y] = Naive[y]
    BY Zenon, <1>0, <2>3, AlreadyClean
  <2>5. Legal(m_index, h)
    BY Zenon DEF Legal, Onward
  <2> HIDE DEF f
  <2>6. Legal(f, h) /\ \A y \in Pair : y[2] = h => NaiveOf(f[y]) = Rules!Cleaned(a)[y]
    BY Zenon, <2>1, <2>4, <2>5, NaiveState
  <2> QED
    BY Zenon, <2>6 DEF f
<1>2. CASE m_index[x].state # "COMPLETED" /\ IsOnlyNonCompleted(x)
  <2>1. f = Erased
    BY Zenon, <1>2 DEF MadeCompleted
  <2>2. \A z \in Pair : z[2] = h => a[z].state \in {"NOTHING", "COMPLETED"}
    <3>1. \A z \in Pair : z[2] = h /\ z # x => m_index[z].state \in {"NOTHING", "COMPLETED"}
      BY Zenon, <1>2 DEF IsOnlyNonCompleted, Of
    <3>2. a[x].state = "COMPLETED"
      BY DEF As
    <3> QED
      BY Zenon, <3>1, <3>2, NaiveState DEF Kinds
  <2>3. \A y \in Pair : y[2] = h => Rules!Cleaned(a)[y] = Nothing
    BY Zenon, <1>0, <2>2, CleanedAt
  <2>4. Legal(Erased, h) /\ \A y \in Pair : NaiveOf(Erased[y]) = Nothing
    BY Zenon, ErasedLegal
  <2> QED
    BY Zenon, <2>1, <2>3, <2>4
<1>3. CASE m_index[x].state # "COMPLETED" /\ ~IsOnlyNonCompleted(x)
  <2>1. f = Changed(x, "COMPLETED")
    BY Zenon, <1>3 DEF MadeCompleted
  <2>2. /\ Changed(x, "COMPLETED") \in Index
        /\ SaneOn(Changed(x, "COMPLETED"), h)
        /\ \E y \in Pair : /\ y # x /\ y[2] = h
                            /\ Changed(x, "COMPLETED")[y].state \notin {"NOTHING", "COMPLETED"}
        /\ Changed(x, "COMPLETED")[x] = As(m_index[x], "COMPLETED")
        /\ \A y \in Pair : y # x =>
               \/ Changed(x, "COMPLETED")[y] = m_index[y]
               \/ /\ m_index[y].state = "CANDIDATE_READY"
                  /\ Changed(x, "COMPLETED")[y] = As(m_index[y], "CANDIDATE_BEST")
    BY Zenon, <1>3, ChangedSane
  <2> HIDE DEF f
  <2>3. \A y \in Pair : y # x => SameKinds(f, y)
    BY Zenon, <2>1, <2>2 DEF SameKinds, Kinds
  <2>4. f[x].state = "COMPLETED" /\ NaiveOf(f[x]) = a[x]
    <3>1. f[x] = As(m_index[x], "COMPLETED") /\ a[x] = As(m_index[x], "COMPLETED")
      BY Zenon, <2>1, <2>2, NaiveState
    <3> QED
      BY <3>1 DEF As, NaiveOf, Kinds
  <2>5. \A y \in Pair : y[2] = h => NaiveOf(f[y]) = a[y]
    BY <2>3, <2>4, SameKindsFacts, NaiveState
  <2>6. Legal(f, h)
    BY Zenon, <2>1, <2>2, <2>3, <2>4, SameKindsFacts DEF Legal, Blank, Onward
  <2>7. \E z \in Pair : z[2] = h /\ a[z].state \notin {"NOTHING", "COMPLETED"}
    <3>1. PICK z \in Pair : z[2] = h /\ f[z].state \notin {"NOTHING", "COMPLETED"}
      BY Zenon, <2>1, <2>2
    <3>2. a[z] = NaiveOf(f[z])
      BY Zenon, <2>5, <3>1
    <3>3. NaiveOf(f[z]).state \notin {"NOTHING", "COMPLETED"}
      BY Zenon, <3>1 DEF NaiveOf, As
    <3> QED
      BY Zenon, <3>1, <3>2, <3>3
  <2>8. \A y \in Pair : y[2] = h => Rules!Cleaned(a)[y] = a[y]
    BY Zenon, <1>0, <2>7, CleanedAt
  <2>9. Legal(f, h) /\ \A y \in Pair : y[2] = h => NaiveOf(f[y]) = Rules!Cleaned(a)[y]
    BY Zenon, <2>5, <2>6, <2>8
  <2> QED
    BY Zenon, <2>9 DEF f
<1> QED
  BY Zenon, <1>1, <1>2, <1>3

LEMMA DropLegal ==
    ASSUME m_index \in Index, Blank(m_index), NEW x \in Pair, SaneOn(m_index, x[2]),
           m_index[x].state # "NOTHING",
           NEW a, a[x] = Nothing,
           \A y \in Pair : y[2] = x[2] /\ y # x => a[y] = Naive[y]
    PROVE  /\ Legal([MadeCompleted(x) EXCEPT ![x] = Nothing], x[2])
           /\ \A y \in Pair : y[2] = x[2] =>
                  NaiveOf([MadeCompleted(x) EXCEPT ![x] = Nothing][y]) = Rules!Cleaned(a)[y]
<1> DEFINE h == x[2]
           b == [y \in Pair |-> IF y = x THEN As(Naive[x], "COMPLETED") ELSE Naive[y]]
           f == MadeCompleted(x)
           g == [f EXCEPT ![x] = Nothing]
<1>0. h \in TxHash /\ \A y \in Pair : m_index[y] \in Announcement(State)
  BY Zenon DEF Pair, Index
<1>1. b[x] = As(Naive[x], "COMPLETED") /\ \A y \in Pair : y[2] = h /\ y # x => b[y] = Naive[y]
  BY Zenon
<1> HIDE DEF b
<1>2. Legal(f, h) /\ \A y \in Pair : y[2] = h => NaiveOf(f[y]) = Rules!Cleaned(b)[y]
  BY Zenon, <1>1, MadeCompletedLegal
<1>3. f[x].state \in {"COMPLETED", "NOTHING"}
  <2>1. m_index[x].state # "COMPLETED" /\ ~IsOnlyNonCompleted(x) => f[x].state = "COMPLETED"
    BY Zenon DEF MadeCompleted, Changed, As
  <2>2. m_index[x].state # "COMPLETED" /\ IsOnlyNonCompleted(x) => f[x].state = "NOTHING"
    BY Zenon, NothingType DEF MadeCompleted, Erased
  <2>3. m_index[x].state = "COMPLETED" => f[x].state = "COMPLETED"
    BY Zenon DEF MadeCompleted
  <2> QED
    BY Zenon, <2>1, <2>2, <2>3
<1> HIDE DEF f
<1>4. /\ f \in Index /\ SaneOn(f, h) /\ Blank(f) /\ Onward(f, h)
      /\ g \in Index
      /\ g[x] = Nothing /\ g[x].state = "NOTHING"
      /\ \A y \in Pair : y # x => g[y] = f[y]
  BY Zenon, <1>2, NothingType DEF Legal, Index
<1> HIDE DEF g
<1>5. CASE \E z \in Pair : z # x /\ z[2] = h /\ a[z].state \notin {"NOTHING", "COMPLETED"}
  <2>1. PICK z \in Pair : z # x /\ z[2] = h /\ a[z].state \notin {"NOTHING", "COMPLETED"}
    BY Zenon, <1>5
  <2>2. \A y \in Pair : y[2] = h => Rules!Cleaned(a)[y] = a[y]
    BY Zenon, <1>0, <2>1, CleanedAt
  <2>3. b[z].state \notin {"NOTHING", "COMPLETED"}
    BY Zenon, <1>1, <2>1
  <2>4. \A y \in Pair : y[2] = h => Rules!Cleaned(b)[y] = b[y]
    BY Zenon, <1>0, <2>1, <2>3, CleanedAt
  <2>5. \A y \in Pair : y[2] = h /\ y # x => NaiveOf(g[y]) = Rules!Cleaned(a)[y]
    BY <1>1, <1>2, <1>4, <2>2, <2>4
  <2>6. NaiveOf(g[x]) = Rules!Cleaned(a)[x]
    BY Zenon, <1>4, <2>2 DEF NaiveOf, Kinds
  <2>7. g[z].state \notin {"NOTHING", "COMPLETED"}
    <3>1. NaiveOf(g[z]) = b[z]
      BY Zenon, <1>1, <2>1, <2>2, <2>5
    <3> QED
      BY Zenon, <2>3, <3>1 DEF NaiveOf, Kinds
  <2>8. \A y \in Pair : y[2] = h => (IsSelected(g[y]) <=> IsSelected(f[y]))
    BY Zenon, <1>3, <1>4 DEF IsSelected
  <2>9. SaneOn(g, h)
    BY <1>3, <1>4, <2>1, <2>7, <2>8 DEF SaneOn
  <2> QED
    BY Zenon, <1>4, <2>5, <2>6, <2>9 DEF Legal, Blank, Onward, g, f
<1>6. CASE \A z \in Pair : z # x /\ z[2] = h => a[z].state \in {"NOTHING", "COMPLETED"}
  <2>1. \A z \in Pair : z[2] = h => a[z].state \in {"NOTHING", "COMPLETED"}
    BY Zenon, <1>6, NothingType
  <2>2. \A y \in Pair : y[2] = h => Rules!Cleaned(a)[y] = Nothing
    BY Zenon, <1>0, <2>1, CleanedAt
  <2>3. \A z \in Pair : z[2] = h => b[z].state \in {"NOTHING", "COMPLETED"}
    BY <1>1, <1>6 DEF As
  <2>4. \A y \in Pair : y[2] = h => Rules!Cleaned(b)[y] = Nothing
    BY Zenon, <1>0, <2>3, CleanedAt
  <2>5. \A y \in Pair : y[2] = h => NaiveOf(f[y]) = Nothing
    BY Zenon, <1>2, <2>4
  <2>6. \A y \in Pair : y[2] = h => f[y] = Nothing
    <3>1. \A ann : NaiveOf(ann) = Nothing => ann = Nothing
      BY Zenon DEF NaiveOf, Nothing, As
    <3> QED
      BY Zenon, <2>5, <3>1
  <2>7. \A y \in Pair : y[2] = h => g[y] = Nothing /\ g[y].state = "NOTHING"
    BY Zenon, <1>4, <2>6, NothingType
  <2>8. SaneOn(g, h)
    BY Zenon, <2>7 DEF SaneOn, IsSelected
  <2>9. NaiveOf(Nothing) = Nothing
    BY Zenon, NothingType DEF NaiveOf, Kinds
  <2> QED
    BY Zenon, <1>4, <2>2, <2>7, <2>8, <2>9 DEF Legal, Blank, Onward, g, f
<1> QED
  BY Zenon, <1>5, <1>6

Inved(x, t) == [m_index EXCEPT ![x] = [state |-> "CANDIDATE_DELAYED", time |-> t]]

LEMMA InvedLegal ==
    ASSUME m_index \in Index, Blank(m_index), NEW x \in Pair, SaneOn(m_index, x[2]),
           m_index[x].state = "NOTHING", NEW t \in Time
    PROVE  /\ Legal(Inved(x, t), x[2])
           /\ \A y \in Pair : NaiveOf(Inved(x, t)[y]) =
                  IF y = x THEN [state |-> "CANDIDATE", time |-> t] ELSE Naive[y]
<1> DEFINE f == Inved(x, t)
<1>1. [state |-> "CANDIDATE_DELAYED", time |-> t] \in Announcement(State)
  BY Zenon DEF Announcement, State
<1>2. /\ f \in Index /\ f[x] = [state |-> "CANDIDATE_DELAYED", time |-> t]
      /\ \A y \in Pair : y # x => f[y] = m_index[y]
  BY Zenon, <1>1 DEF Index, Inved
<1> HIDE DEF f
<1>3. f[x].state = "CANDIDATE_DELAYED" /\ ~IsSelected(f[x]) /\ ~IsSelected(m_index[x])
  BY <1>2 DEF IsSelected
<1>4. \A y \in Pair : IsSelected(f[y]) <=> IsSelected(m_index[y])
  BY Zenon, <1>2, <1>3
<1>5. SaneOn(f, x[2])
  BY Zenon, <1>2, <1>3, <1>4 DEF SaneOn
<1>6. NaiveOf(f[x]) = [state |-> "CANDIDATE", time |-> t]
  BY <1>2 DEF NaiveOf, As, Kinds
<1>7. Legal(f, x[2])
  BY Zenon, <1>2, <1>3, <1>5 DEF Legal, Blank, Onward
<1>8. \A y \in Pair : y # x => NaiveOf(f[y]) = Naive[y]
  BY Zenon, <1>2, NaiveState
<1> QED
  BY Zenon, <1>6, <1>7, <1>8 DEF f

Asked(x, t) ==
    [y \in Pair |->
        IF y = x THEN [state |-> "REQUESTED", time |-> t]
        ELSE IF m_index[y].state = "CANDIDATE_BEST" THEN As(m_index[y], "CANDIDATE_READY")
        ELSE IF m_index[y].state = "REQUESTED" THEN As(m_index[y], "COMPLETED")
        ELSE m_index[y]]

LEMMA AskedLegal ==
    ASSUME m_index \in Index, Blank(m_index), NEW x \in Pair, SaneOn(m_index, x[2]),
           m_index[x].state \in Kinds, NEW t \in Time
    PROVE  /\ Legal(Asked(x, t), x[2])
           /\ \A y \in Pair : NaiveOf(Asked(x, t)[y]) =
                  IF y = x THEN [state |-> "REQUESTED", time |-> t]
                  ELSE IF Naive[y].state = "REQUESTED" THEN As(Naive[y], "COMPLETED")
                  ELSE Naive[y]
<1> DEFINE f == Asked(x, t)
           Plain(y) == m_index[y].state \notin {"CANDIDATE_BEST", "REQUESTED"}
<1>1. [state |-> "REQUESTED", time |-> t] \in Announcement(State)
  BY Zenon DEF Announcement, State
<1>2. /\ f = [y \in Pair |-> f[y]]
      /\ f[x] = [state |-> "REQUESTED", time |-> t] /\ f[x].state = "REQUESTED"
      /\ \A y \in Pair : y # x =>
             /\ m_index[y].state = "CANDIDATE_BEST" => f[y] = As(m_index[y], "CANDIDATE_READY")
             /\ m_index[y].state = "REQUESTED" => f[y] = As(m_index[y], "COMPLETED")
             /\ Plain(y) => f[y] = m_index[y]
  BY Zenon DEF Asked
<1> HIDE DEF f
<1>3. \A y \in Pair : m_index[y] \in Announcement(State)
  BY Zenon DEF Index
<1>4. ASSUME NEW y \in Pair, y # x
      PROVE  /\ f[y] \in Announcement(State)
             /\ f[y].state \notin {"CANDIDATE_BEST", "REQUESTED"}
             /\ f[y].state = "NOTHING" => f[y] = Nothing
             /\ m_index[y].state \in {"REQUESTED", "COMPLETED"} => f[y].state = "COMPLETED"
             /\ NaiveOf(f[y]) = IF Naive[y].state = "REQUESTED" THEN As(Naive[y], "COMPLETED")
                                ELSE Naive[y]
  <2>1. CASE m_index[y].state = "CANDIDATE_BEST"
    <3>1. SameKinds(f, y)
      BY Zenon, <1>2, <1>4, <2>1 DEF SameKinds, Kinds
    <3>2. NaiveOf(f[y]) = Naive[y] /\ Naive[y].state = "CANDIDATE"
      BY Zenon, <3>1, <2>1, SameKindsFacts, NaiveState DEF Kinds
    <3>3. f[y] \in Announcement(State) /\ f[y].state = "CANDIDATE_READY"
      BY <1>2, <1>3, <1>4, <2>1, AsType DEF State
    <3> QED
      BY Zenon, <2>1, <3>2, <3>3
  <2>2. CASE m_index[y].state = "REQUESTED"
    <3>1. f[y] = As(m_index[y], "COMPLETED")
      BY Zenon, <1>2, <1>4, <2>2
    <3>2. f[y] \in Announcement(State) /\ f[y].state = "COMPLETED"
      BY <1>3, <3>1, AsType DEF State
    <3>3. Naive[y] = m_index[y]
      BY Zenon, <2>2, NaiveState DEF Kinds
    <3>4. NaiveOf(f[y]) = f[y]
      BY Zenon, <3>2 DEF NaiveOf, Kinds
    <3> QED
      BY Zenon, <2>2, <3>1, <3>2, <3>3, <3>4
  <2>3. CASE Plain(y)
    <3>1. f[y] = m_index[y]
      BY Zenon, <1>2, <1>4, <2>3
    <3>2. NaiveOf(f[y]) = Naive[y] /\ Naive[y].state # "REQUESTED"
      BY Zenon, <3>1, <2>3, NaiveState
    <3> QED
      BY Zenon, <1>3, <2>3, <3>1, <3>2 DEF Blank
  <2> QED
    BY Zenon, <2>1, <2>2, <2>3
<1>5. f \in Index
  BY Zenon, <1>1, <1>2, <1>4 DEF Index
<1>6. NaiveOf(f[x]) = [state |-> "REQUESTED", time |-> t]
  BY Zenon, <1>2 DEF NaiveOf, Kinds
<1>7. SaneOn(f, x[2])
  BY Zenon, <1>2, <1>4 DEF SaneOn, IsSelected
<1>8. Blank(f) /\ Onward(f, x[2])
  BY Zenon, <1>2, <1>4 DEF Blank, Onward, Kinds
<1>9. Legal(f, x[2])
  BY Zenon, <1>5, <1>7, <1>8 DEF Legal
<1> HIDE DEF Plain
<1>10. \A y \in Pair : y # x => NaiveOf(f[y]) =
           IF Naive[y].state = "REQUESTED" THEN As(Naive[y], "COMPLETED") ELSE Naive[y]
  BY Zenon, <1>4
<1> QED
  BY Zenon, <1>6, <1>9, <1>10 DEF f

-----------------------------------------------------------------------------
(* Adding or removing one element. *)
LEMMA CountChange ==
    ASSUME NEW S, IsFiniteSet(S), NEW A \in SUBSET S, NEW B \in SUBSET S, NEW h \in S,
           A \ {h} = B \ {h}
    PROVE  Cardinality(B) = Cardinality(A) - One(h \in A) + One(h \in B)
<1> DEFINE C == A \ {h}
<1>1. IsFiniteSet(A) /\ IsFiniteSet(B) /\ IsFiniteSet(C)
  BY Zenon, FS_Subset
<1>2. Cardinality(A) \in Nat /\ Cardinality(B) \in Nat /\ Cardinality(C) \in Nat
  BY Zenon, <1>1, FS_CardinalityType
<1>3. Cardinality(C \cup {h}) = Cardinality(C) + 1
  BY Zenon, <1>1, FS_AddElement
<1>4. h \in A => A = C \cup {h}
  BY Zenon
<1>5. h \notin A => A = C
  BY Zenon
<1>6. h \in B => B = C \cup {h}
  BY Zenon
<1>7. h \notin B => B = C
  BY Zenon
<1> HIDE DEF C
<1>8. Cardinality(A) = Cardinality(C) + One(h \in A)
  BY <1>2, <1>3, <1>4, <1>5 DEF One
<1>9. Cardinality(B) = Cardinality(C) + One(h \in B)
  BY <1>2, <1>3, <1>6, <1>7 DEF One
<1> QED
  BY <1>2, <1>8, <1>9 DEF One

NumbersIn(f, p, states) == Cardinality({h \in TxHash : f[<<p, h>>].state \in states})

LEMMA NumbersChange ==
    ASSUME NEW f, NEW g, NEW p \in Peer, NEW h \in TxHash, NEW states,
           \A k \in TxHash : k # h => g[<<p, k>>] = f[<<p, k>>]
    PROVE  NumbersIn(g, p, states) =
               NumbersIn(f, p, states) - One(f[<<p, h>>].state \in states)
                                       + One(g[<<p, h>>].state \in states)
<1> DEFINE A == {k \in TxHash : f[<<p, k>>].state \in states}
           B == {k \in TxHash : g[<<p, k>>].state \in states}
<1>1. A \in SUBSET TxHash /\ B \in SUBSET TxHash /\ A \ {h} = B \ {h}
  BY Zenon
<1>2. h \in A <=> f[<<p, h>>].state \in states
  BY Zenon
<1>3. h \in B <=> g[<<p, h>>].state \in states
  BY Zenon
<1>4. NumbersIn(f, p, states) = Cardinality(A) /\ NumbersIn(g, p, states) = Cardinality(B)
  BY Zenon DEF NumbersIn
<1> HIDE DEF A, B
<1>5. Cardinality(B) = Cardinality(A) - One(h \in A) + One(h \in B)
  BY <1>1, CountChange, TxRequestAssumption
<1> QED
  BY Zenon, <1>2, <1>3, <1>4, <1>5 DEF One

LEMMA NumbersType ==
    ASSUME NEW f, NEW p, NEW states
    PROVE  NumbersIn(f, p, states) \in Nat
<1>1. IsFiniteSet({h \in TxHash : f[<<p, h>>].state \in states})
  BY Zenon, FS_Subset, TxRequestAssumption
<1> QED
  BY Zenon, <1>1, FS_CardinalityType DEF NumbersIn

(* What the invariants say of the index and of the statistics. *)
Kept(f) == f \in Index /\ Blank(f) /\ \A h \in TxHash : SaneOn(f, h)

Counted(f, info) ==
    info = [p \in Peer |->
        [total |-> NumbersIn(f, p, State \ {"NOTHING"}),
         completed |-> NumbersIn(f, p, {"COMPLETED"}),
         requested |-> NumbersIn(f, p, {"REQUESTED"})]]

LEMMA ModifyKeeps ==
    ASSUME Kept(m_index), Counted(m_index, m_peerinfo),
           NEW h \in TxHash, NEW f, Legal(f, h), Modify(h, f)
    PROVE  /\ Kept(m_index') /\ Counted(m_index', m_peerinfo')
           /\ \A y \in Pair : m_index'[y] = IF y[2] = h THEN f[y] ELSE m_index[y]
<1>1. /\ \A y \in Pair : m_index'[y] = IF y[2] = h THEN f[y] ELSE m_index[y]
      /\ m_index' = [y \in Pair |-> m_index'[y]]
  BY Zenon DEF Modify
<1>2. m_index' \in Index
  <2>1. \A y \in Pair : m_index'[y] \in Announcement(State)
    BY Zenon, <1>1 DEF Kept, Legal, Index
  <2> QED
    BY Zenon, <1>1, <2>1 DEF Index
<1>3. Blank(m_index')
  BY Zenon, <1>1 DEF Kept, Legal, Blank
<1>4. ASSUME NEW k \in TxHash PROVE SaneOn(m_index', k)
  <2>1. CASE k = h
    <3>1. \A y \in Pair : y[2] = k => m_index'[y] = f[y]
      BY Zenon, <1>1, <2>1
    <3>2. SaneOn(f, k)
      BY Zenon, <2>1 DEF Legal
    <3> QED
      BY Zenon, <3>1, <3>2 DEF SaneOn
  <2>2. CASE k # h
    <3>1. \A y \in Pair : y[2] = k => m_index'[y] = m_index[y]
      BY Zenon, <1>1, <2>2
    <3>2. SaneOn(m_index, k)
      BY Zenon DEF Kept
    <3> QED
      BY Zenon, <3>1, <3>2 DEF SaneOn
  <2> QED
    BY Zenon, <2>1, <2>2
<1>5. Counted(m_index', m_peerinfo')
  <2>1. ASSUME NEW p \in Peer, NEW states
        PROVE  NumbersIn(m_index', p, states) =
                   NumbersIn(m_index, p, states) - One(m_index[<<p, h>>].state \in states)
                                                 + One(f[<<p, h>>].state \in states)
    <3>1. \A k \in TxHash : <<p, k>> \in Pair /\ <<p, k>>[2] = k
      BY Zenon DEF Pair
    <3>2. \A k \in TxHash : k # h => m_index'[<<p, k>>] = m_index[<<p, k>>]
      BY Zenon, <1>1, <3>1
    <3>3. m_index'[<<p, h>>] = f[<<p, h>>]
      BY Zenon, <1>1, <3>1
    <3> QED
      BY <3>2, <3>3, NumbersChange
  <2>2. ASSUME NEW p \in Peer
        PROVE  /\ (m_index[<<p, h>>].state \in State \ {"NOTHING"} <=> m_index[<<p, h>>].state # "NOTHING")
               /\ (f[<<p, h>>].state \in State \ {"NOTHING"} <=> f[<<p, h>>].state # "NOTHING")
    <3>1. <<p, h>> \in Pair
      BY Zenon DEF Pair
    <3>2. m_index[<<p, h>>].state \in State /\ f[<<p, h>>].state \in State
      BY Zenon, <3>1 DEF Kept, Legal, Index, Announcement
    <3> QED
      BY Zenon, <3>2
  <2>3. ASSUME NEW p \in Peer
        PROVE  m_peerinfo'[p] =
                   [total |-> NumbersIn(m_index', p, State \ {"NOTHING"}),
                    completed |-> NumbersIn(m_index', p, {"COMPLETED"}),
                    requested |-> NumbersIn(m_index', p, {"REQUESTED"})]
    <3>1. m_peerinfo'[p] = Recount(m_peerinfo[p], m_index[<<p, h>>].state, f[<<p, h>>].state)
      BY Zenon DEF Modify
    <3>2. /\ m_peerinfo[p].total = NumbersIn(m_index, p, State \ {"NOTHING"})
          /\ m_peerinfo[p].completed = NumbersIn(m_index, p, {"COMPLETED"})
          /\ m_peerinfo[p].requested = NumbersIn(m_index, p, {"REQUESTED"})
      BY Zenon DEF Counted
    <3>3. /\ NumbersIn(m_index', p, State \ {"NOTHING"}) =
                m_peerinfo[p].total - One(m_index[<<p, h>>].state # "NOTHING")
                                    + One(f[<<p, h>>].state # "NOTHING")
      BY <2>1, <2>2, <3>2 DEF One
    <3>4. NumbersIn(m_index', p, {"COMPLETED"}) =
              m_peerinfo[p].completed - One(m_index[<<p, h>>].state = "COMPLETED")
                                      + One(f[<<p, h>>].state = "COMPLETED")
      BY <2>1, <3>2 DEF One
    <3>5. NumbersIn(m_index', p, {"REQUESTED"}) =
              m_peerinfo[p].requested - One(m_index[<<p, h>>].state = "REQUESTED")
                                      + One(f[<<p, h>>].state = "REQUESTED")
      BY <2>1, <3>2 DEF One
    <3> QED
      BY Zenon, <3>1, <3>3, <3>4, <3>5 DEF Recount
  <2>4. m_peerinfo' = [p \in Peer |-> m_peerinfo'[p]]
    BY Zenon DEF Modify
  <2> QED
    BY Zenon, <2>3, <2>4 DEF Counted
<1> QED
  BY Zenon, <1>1, <1>2, <1>3, <1>4, <1>5 DEF Kept

LEMMA ModifyNaive ==
    ASSUME NEW h, NEW f, Modify(h, f)
    PROVE  \A y \in Pair : Naive'[y] = IF y[2] = h THEN NaiveOf(f[y]) ELSE Naive[y]
<1>1. \A y \in Pair : Naive[y] = NaiveOf(m_index[y])
  BY Zenon DEF Naive, NaiveOf, Kinds
<1>2. \A y \in Pair : Naive'[y] = NaiveOf(m_index'[y])
  BY Zenon DEF Naive, NaiveOf, Kinds
<1>3. \A y \in Pair : m_index'[y] = IF y[2] = h THEN f[y] ELSE m_index[y]
  BY Zenon DEF Modify
<1> QED
  BY <1>1, <1>2, <1>3

LEMMA NaiveFunction == Naive = [y \in Pair |-> Naive[y]]
  BY Zenon DEF Naive

-----------------------------------------------------------------------------
(* The inductive invariant. *)
NaiveIndex == [Pair -> Announcement({"NOTHING", "CANDIDATE", "REQUESTED", "COMPLETED"})]

Calls ==
    /\ \/ call = NoCall
       \/ /\ call.op \in {"promote", "disconnect"} /\ call.peer \in Peer /\ call.now \in Time
          /\ call.before \in NaiveIndex
    /\ answer \subseteq TxHash

Agrees(a, h) == \A y \in Pair : y[2] = h => Naive[y] = a[y]

Timely(a, now) ==
    [y \in Pair |-> IF a[y].state = "REQUESTED" /\ a[y].time <= now
                    THEN As(a[y], "COMPLETED") ELSE a[y]]

Without(a, p) == [y \in Pair |-> IF y[1] = p THEN Nothing ELSE a[y]]

Progress ==
    /\ call.op = "promote" => \A h \in TxHash :
           Agrees(call.before, h) \/ Agrees(Rules!Cleaned(Timely(call.before, call.now)), h)
    /\ call.op = "disconnect" => \A h \in TxHash :
           Agrees(call.before, h) \/ Agrees(Rules!Cleaned(Without(call.before, call.peer)), h)

IInv == Kept(m_index) /\ Counted(m_index, m_peerinfo) /\ Calls /\ Progress

(* What NeverTwice says of a step. *)
NeverTwiceStep ==
    \A x \in Pair : m_index[x].state \in {"REQUESTED", "COMPLETED"} =>
        m_index'[x].state \in {m_index[x].state, "COMPLETED", "NOTHING"}

LEMMA LegalOnward ==
    ASSUME NEW h, NEW f, Legal(f, h), Modify(h, f), m_index \in Index
    PROVE  NeverTwiceStep
<1>1. \A y \in Pair : m_index'[y] = IF y[2] = h THEN f[y] ELSE m_index[y]
  BY Zenon DEF Modify
<1> QED
  BY Zenon, <1>1 DEF Legal, Onward, NeverTwiceStep

(* A step that changes only the kinds of candidates leaves the progress of *)
(* the call as it is.                                                      *)
LEMMA SilentStep ==
    ASSUME IInv, NEW h \in TxHash, NEW f, Legal(f, h), Modify(h, f), UNCHANGED <<call, answer>>,
           \A y \in Pair : y[2] = h => NaiveOf(f[y]) = NaiveOf(m_index[y])
    PROVE  IInv' /\ NeverTwiceStep
<1>1. Kept(m_index') /\ Counted(m_index', m_peerinfo')
  BY Zenon, ModifyKeeps DEF IInv
<1>2. \A y \in Pair : Naive'[y] = Naive[y]
  BY ModifyNaive, NaiveState DEF IInv, Kept
<1>3. \A a, k : Agrees(a, k) <=> Agrees(a, k)'
  BY Zenon, <1>2 DEF Agrees
<1>4. Progress'
  BY Zenon, <1>3 DEF IInv, Progress
<1>5. Calls'
  BY Zenon DEF IInv, Calls
<1>6. NeverTwiceStep
  BY Zenon, LegalOnward DEF IInv, Kept
<1> QED
  BY Zenon, <1>1, <1>4, <1>5, <1>6 DEF IInv

(* The step that completes or drops announcement x takes its txhash to     *)
(* where the rules want it.                                                *)
LEMMA FinalStep ==
    ASSUME IInv, NEW h \in TxHash, NEW f, Legal(f, h), Modify(h, f), UNCHANGED <<call, answer>>,
           NEW a, \A y \in Pair : y[2] = h => NaiveOf(f[y]) = Rules!Cleaned(a)[y],
           \/ call.op = "promote" /\ a = Timely(call.before, call.now)
           \/ call.op = "disconnect" /\ a = Without(call.before, call.peer)
    PROVE  IInv' /\ NeverTwiceStep
<1>1. Kept(m_index') /\ Counted(m_index', m_peerinfo')
  BY Zenon, ModifyKeeps DEF IInv
<1>2. \A y \in Pair : Naive'[y] = IF y[2] = h THEN Rules!Cleaned(a)[y] ELSE Naive[y]
  BY ModifyNaive
<1>3. Agrees(Rules!Cleaned(a), h)'
  BY Zenon, <1>2 DEF Agrees
<1>4. \A b, k : k # h => (Agrees(b, k) <=> Agrees(b, k)')
  BY Zenon, <1>2 DEF Agrees
<1>5. Progress'
  BY Zenon, <1>3, <1>4 DEF IInv, Progress
<1>6. Calls'
  BY Zenon DEF IInv, Calls
<1>7. NeverTwiceStep
  BY Zenon, LegalOnward DEF IInv, Kept
<1> QED
  BY Zenon, <1>1, <1>5, <1>6, <1>7 DEF IInv

LEMMA PromoteOrExpireStep ==
    ASSUME IInv, NEW x \in Pair, PromoteOrExpire(x)
    PROVE  IInv' /\ NeverTwiceStep
<1> DEFINE h == x[2]
           a == Timely(call.before, call.now)
<1>0. /\ h \in TxHash /\ m_index \in Index /\ Blank(m_index) /\ SaneOn(m_index, h)
      /\ call.op = "promote" /\ UNCHANGED <<call, answer>>
      /\ m_index[x].time <= call.now
      /\ m_index[x].state \in {"REQUESTED", "CANDIDATE_DELAYED"}
  BY Zenon DEF IInv, Kept, Pair, PromoteOrExpire, Due, IsWaiting
<1>1. CASE m_index[x].state = "CANDIDATE_DELAYED"
  <2>1. Modify(h, Promoted(x))
    BY Zenon, <1>1 DEF PromoteOrExpire
  <2>2. Legal(Promoted(x), h) /\ \A y \in Pair : NaiveOf(Promoted(x)[y]) = NaiveOf(m_index[y])
    BY Zenon, <1>0, <1>1, PromotedLegal
  <2> QED
    BY <1>0, <2>1, <2>2, SilentStep
<1>2. CASE m_index[x].state = "REQUESTED"
  <2>1. Modify(h, MadeCompleted(x))
    BY Zenon, <1>2 DEF PromoteOrExpire
  <2>2. Naive[x] = m_index[x] /\ Naive[x].state = "REQUESTED" /\ Naive[x].time <= call.now
    BY Zenon, <1>0, <1>2, NaiveState DEF Kinds
  <2>3. ASSUME Agrees(Rules!Cleaned(a), h) PROVE FALSE
    <3>1. Naive[x] = Rules!Cleaned(a)[x]
      BY Zenon, <2>3 DEF Agrees
    <3>2. Rules!Cleaned(a)[x] \in {a[x], Nothing}
      BY Zenon, <1>0, CleanedAt
    <3>3. Naive[x] = a[x]
      BY Zenon, <3>1, <3>2, <2>2, NothingType
    <3>4. a[x] = IF call.before[x].state = "REQUESTED" /\ call.before[x].time <= call.now
                 THEN As(call.before[x], "COMPLETED") ELSE call.before[x]
      BY Zenon DEF Timely
    <3>5. As(call.before[x], "COMPLETED").state = "COMPLETED"
      BY Zenon DEF As
    <3> HIDE DEF a
    <3> QED
      BY Zenon, <2>2, <3>3, <3>4, <3>5
  <2>4. Agrees(call.before, h)
    BY Zenon, <1>0, <2>3 DEF IInv, Progress
  <2>5. a[x] = As(Naive[x], "COMPLETED")
    BY Zenon, <2>2, <2>4 DEF Timely, Agrees
  <2>6. ASSUME NEW y \in Pair, y[2] = h, y # x PROVE a[y] = Naive[y]
    <3>1. m_index[y].state # "REQUESTED"
      BY Zenon, <1>0, <1>2, <2>6 DEF SaneOn, IsSelected
    <3>2. Naive[y].state # "REQUESTED"
      BY Zenon, <1>0, <3>1, NaiveState
    <3> QED
      BY Zenon, <2>4, <2>6, <3>2 DEF Timely, Agrees
  <2> HIDE DEF a
  <2>7. /\ Legal(MadeCompleted(x), h)
        /\ \A y \in Pair : y[2] = h => NaiveOf(MadeCompleted(x)[y]) = Rules!Cleaned(a)[y]
    BY Zenon, <1>0, <1>2, <2>5, <2>6, MadeCompletedLegal
  <2>8. call.op = "promote" /\ a = Timely(call.before, call.now)
    BY Zenon, <1>0 DEF a
  <2> QED
    BY <1>0, <2>1, <2>7, <2>8, FinalStep
<1> QED
  BY Zenon, <1>0, <1>1, <1>2

LEMMA DemoteStep ==
    ASSUME IInv, NEW x \in Pair, Demote(x)
    PROVE  IInv' /\ NeverTwiceStep
<1>1. /\ x[2] \in TxHash /\ m_index \in Index /\ Blank(m_index) /\ SaneOn(m_index, x[2])
      /\ IsSelectable(m_index[x])
      /\ Modify(x[2], Changed(x, "CANDIDATE_DELAYED")) /\ UNCHANGED <<call, answer>>
  BY Zenon DEF IInv, Kept, Pair, Demote, Early
<1>2. /\ Legal(Changed(x, "CANDIDATE_DELAYED"), x[2])
      /\ \A y \in Pair : NaiveOf(Changed(x, "CANDIDATE_DELAYED")[y]) = NaiveOf(m_index[y])
  BY Zenon, <1>1, DelayedLegal
<1> QED
  BY Zenon, <1>1, <1>2, SilentStep

LEMMA DropStep ==
    ASSUME IInv, NEW x \in Pair, Drop(x)
    PROVE  IInv' /\ NeverTwiceStep
<1> DEFINE h == x[2]
           a == Without(call.before, call.peer)
           f == [MadeCompleted(x) EXCEPT ![x] = Nothing]
<1>0. /\ h \in TxHash /\ m_index \in Index /\ Blank(m_index) /\ SaneOn(m_index, h)
      /\ call.op = "disconnect" /\ UNCHANGED <<call, answer>>
      /\ m_index[x].state # "NOTHING" /\ x[1] = call.peer
      /\ Modify(h, f)
  BY Zenon DEF IInv, Kept, Pair, Drop
<1>1. \A y \in Pair : y[2] = h /\ y # x => y[1] # call.peer
  BY <1>0 DEF Pair
<1>2. a[x] = Nothing /\ \A y \in Pair : y[2] = h /\ y # x => a[y] = call.before[y]
  BY Zenon, <1>0, <1>1 DEF Without
<1> HIDE DEF a, f
<1>3. ASSUME Agrees(Rules!Cleaned(a), h) PROVE FALSE
  <2>1. Naive[x] = Rules!Cleaned(a)[x]
    BY Zenon, <1>3 DEF Agrees
  <2>2. Rules!Cleaned(a)[x] \in {a[x], Nothing}
    BY Zenon, <1>0, CleanedAt
  <2>3. Naive[x].state = "NOTHING"
    BY Zenon, <1>2, <2>1, <2>2, NothingType
  <2> QED
    BY Zenon, <1>0, <2>3, NaiveState DEF Kinds
<1>4. Agrees(call.before, h)
  BY Zenon, <1>0, <1>3 DEF IInv, Progress, a
<1>5. \A y \in Pair : y[2] = h /\ y # x => a[y] = Naive[y]
  BY Zenon, <1>2, <1>4 DEF Agrees
<1>6. Legal(f, h) /\ \A y \in Pair : y[2] = h => NaiveOf(f[y]) = Rules!Cleaned(a)[y]
  BY <1>0, <1>2, <1>5, DropLegal DEF f
<1>7. call.op = "disconnect" /\ a = Without(call.before, call.peer)
  BY Zenon, <1>0 DEF a
<1> QED
  BY <1>0, <1>6, <1>7, FinalStep

-----------------------------------------------------------------------------
(* The steps of the rules, in the terms of this module. *)
LEMMA RulesOperators ==
    /\ Rules!Pair = Pair /\ Rules!Nothing = Nothing
    /\ \A x : Rules!Priority(x) = Priority(x)
    /\ \A ann : Rules!Completed(ann) = As(ann, "COMPLETED")
    /\ \A a, now : Rules!Expired(a, now) = Rules!Cleaned(Timely(a, now))
<1>1. Rules!Pair = Pair /\ Rules!Nothing = Nothing
  BY Zenon DEF Rules!Pair, Pair, Rules!Nothing, Nothing
<1>2. \A x : Rules!Priority(x) = Priority(x)
  BY Zenon DEF Rules!Priority, Priority
<1>3. \A ann : Rules!Completed(ann) = As(ann, "COMPLETED")
  BY Zenon DEF Rules!Completed, As
<1>4. ASSUME NEW a, NEW now
      PROVE  Rules!Expired(a, now) = Rules!Cleaned(Timely(a, now))
  <2>1. Timely(a, now) = [x \in Rules!Pair |->
            IF a[x].state = "REQUESTED" /\ a[x].time <= now THEN Rules!Completed(a[x]) ELSE a[x]]
    BY Zenon, <1>1, <1>3 DEF Timely
  <2> QED
    BY Zenon, <2>1 DEF Rules!Expired
<1> QED
  BY Zenon, <1>1, <1>2, <1>3, <1>4

LEMMA CleanedFunction ==
    ASSUME NEW a, \A y \in Pair : Rules!Cleaned(a)[y] = Naive[y]
    PROVE  Rules!Cleaned(a) = Naive
<1>1. Rules!Cleaned(a) = [y \in Pair |-> Rules!Cleaned(a)[y]]
  BY Zenon, RulesOperators DEF Rules!Cleaned
<1>2. Naive = [y \in Pair |-> Naive[y]]
  BY Zenon, NaiveFunction
<1> QED
  BY Zenon, <1>1, <1>2

(* Whether the tracker selects an announcement and whether the rules do. *)
LEMMA SelectedRight ==
    ASSUME IInv, call.op = "promote", Due = {}, Early = {}, NEW x \in Pair
    PROVE  m_index[x].state = "CANDIDATE_BEST" <=> Rules!GetSelected(Naive, call.now, x)
<1> DEFINE h == x[2]
<1>0. /\ h \in TxHash /\ m_index \in Index /\ SaneOn(m_index, h)
      /\ \A y \in Pair : m_index[y] \in Announcement(State) /\ Priority(y) \in Nat
      /\ call.now \in Nat /\ \A y \in Pair : m_index[y].time \in Nat
  <2>1. call.now \in Time /\ \A y \in Pair : m_index[y].time \in Time
    BY DEF IInv, Kept, Calls, NoCall, Index, Announcement
  <2> QED
    BY Zenon, <2>1, Priorities, TxRequestAssumption DEF IInv, Kept, Pair, Index
<1>1. \A y \in Pair : Rules!Viable(Naive, call.now, y) <=>
          m_index[y].state \in {"CANDIDATE_READY", "CANDIDATE_BEST"}
  <2>1. \A y \in Pair : Rules!Viable(Naive, call.now, y) <=>
            m_index[y].state \in Kinds /\ m_index[y].time <= call.now
    <3>1. \A y \in Pair : m_index[y].state # "CANDIDATE"
      BY Zenon, <1>0 DEF Announcement, State
    <3>2. \A y \in Pair : Naive[y].state = "CANDIDATE" <=> m_index[y].state \in Kinds
      BY Zenon, <1>0, <3>1, NaiveState
    <3>3. \A y \in Pair : Naive[y].time = m_index[y].time
      BY Zenon, <1>0, NaiveState
    <3> QED
      BY Zenon, <3>2, <3>3 DEF Rules!Viable
  <2>2. \A y \in Pair : m_index[y].state = "CANDIDATE_DELAYED" => ~(m_index[y].time <= call.now)
    BY Zenon DEF Due, IsWaiting
  <2>3. \A y \in Pair : m_index[y].state \in {"CANDIDATE_READY", "CANDIDATE_BEST"} =>
            m_index[y].time <= call.now
    BY <1>0 DEF Early, IsSelectable
  <2> QED
    BY Zenon, <2>1, <2>2, <2>3 DEF Kinds
<1>2. \A y \in Pair : y = <<y[1], y[2]>> /\ y[1] \in Peer
  BY DEF Pair
<1>3. \A q \in Peer : <<q, h>> \in Pair /\ <<q, h>>[2] = h
  BY Zenon, <1>0 DEF Pair
<1>4. "REQUESTED" \in Rules!States(Naive, h) <=>
          \E y \in Pair : y[2] = h /\ m_index[y].state = "REQUESTED"
  <2>1. \A y \in Pair : Naive[y].state = "REQUESTED" <=> m_index[y].state = "REQUESTED"
    BY Zenon, <1>0, NaiveState DEF Kinds
  <2>2. "REQUESTED" \in Rules!States(Naive, h) <=>
            \E q \in Peer : Naive[<<q, h>>].state = "REQUESTED"
    BY Zenon DEF Rules!States
  <2>3. ASSUME NEW y \in Pair, y[2] = h, m_index[y].state = "REQUESTED"
        PROVE  \E q \in Peer : Naive[<<q, h>>].state = "REQUESTED"
    <3>1. y[1] \in Peer /\ y = <<y[1], h>>
      BY Zenon, <1>2, <2>3
    <3> QED
      BY Zenon, <2>1, <2>3, <3>1
  <2>4. ASSUME NEW q \in Peer, Naive[<<q, h>>].state = "REQUESTED"
        PROVE  \E y \in Pair : y[2] = h /\ m_index[y].state = "REQUESTED"
    BY Zenon, <1>3, <2>1, <2>4
  <2> QED
    BY Zenon, <2>2, <2>3, <2>4
<1>5. Rules!GetSelected(Naive, call.now, x) <=>
          /\ \A y \in Pair : y[2] = h => m_index[y].state # "REQUESTED"
          /\ m_index[x].state \in {"CANDIDATE_READY", "CANDIDATE_BEST"}
          /\ \A y \in Pair : y[2] = h /\ m_index[y].state \in {"CANDIDATE_READY", "CANDIDATE_BEST"}
                 => Priority(y) <= Priority(x)
  <2>1. (\A q \in Peer : Rules!Viable(Naive, call.now, <<q, h>>) => Priority(<<q, h>>) <= Priority(x))
          <=> \A y \in Pair : y[2] = h /\ m_index[y].state \in {"CANDIDATE_READY", "CANDIDATE_BEST"}
                 => Priority(y) <= Priority(x)
    BY Zenon, <1>1, <1>2, <1>3
  <2>2. Rules!GetSelected(Naive, call.now, x) <=>
            /\ "REQUESTED" \notin Rules!States(Naive, h)
            /\ Rules!Viable(Naive, call.now, x)
            /\ \A q \in Peer : Rules!Viable(Naive, call.now, <<q, h>>) =>
                   Priority(<<q, h>>) <= Priority(x)
    BY Zenon, RulesOperators DEF Rules!GetSelected
  <2> QED
    BY Zenon, <1>1, <1>4, <2>1, <2>2
<1>6. ASSUME m_index[x].state = "CANDIDATE_BEST"
      PROVE  Rules!GetSelected(Naive, call.now, x)
  <2>1. \A y \in Pair : y[2] = h => m_index[y].state # "REQUESTED"
    BY Zenon, <1>0, <1>6 DEF SaneOn, IsSelected
  <2>2. ASSUME NEW y \in Pair, y[2] = h, m_index[y].state \in {"CANDIDATE_READY", "CANDIDATE_BEST"}
        PROVE  Priority(y) <= Priority(x)
    <3>1. CASE m_index[y].state = "CANDIDATE_READY"
      BY Zenon, <1>0, <1>6, <2>2, <3>1 DEF SaneOn
    <3>2. CASE m_index[y].state = "CANDIDATE_BEST"
      <4>1. y = x
        BY Zenon, <1>0, <1>6, <2>2, <3>2 DEF SaneOn, IsSelected
      <4> QED
        BY <1>0, <4>1
    <3> QED
      BY Zenon, <2>2, <3>1, <3>2
  <2> QED
    BY Zenon, <1>5, <1>6, <2>1, <2>2
<1>7. ASSUME Rules!GetSelected(Naive, call.now, x), m_index[x].state = "CANDIDATE_READY"
      PROVE  FALSE
  <2>1. PICK y \in Pair : y[2] = h /\ IsSelected(m_index[y])
    BY Zenon, <1>0, <1>7 DEF SaneOn
  <2>2. m_index[y].state = "CANDIDATE_BEST"
    BY Zenon, <1>5, <1>7, <2>1 DEF IsSelected
  <2>3. Priority(y) >= Priority(x)
    BY Zenon, <1>0, <1>7, <2>1, <2>2 DEF SaneOn
  <2>4. Priority(y) <= Priority(x)
    BY Zenon, <1>5, <1>7, <2>1, <2>2
  <2>5. y = x
    BY <1>0, <2>1, <2>3, <2>4, Priorities
  <2> QED
    BY Zenon, <1>7, <2>2, <2>5
<1> QED
  BY Zenon, <1>5, <1>6, <1>7

(* What a step establishes: the invariant, NeverTwice and a step of the    *)
(* rules, or none of it visible to them.                                   *)
Correct == IInv' /\ NeverTwiceStep /\ [Rules!Next]_(Rules!vars)

LEMMA LoopStep ==
    ASSUME IInv, NEW x \in Pair, PromoteOrExpire(x) \/ Demote(x) \/ Drop(x)
    PROVE  Correct
<1>1. IInv' /\ NeverTwiceStep
  BY Zenon, PromoteOrExpireStep, DemoteStep, DropStep
<1>2. call.op # "none" /\ UNCHANGED <<call, answer>>
  BY Zenon DEF PromoteOrExpire, Demote, Drop
<1>3. UNCHANGED Rules!vars
  BY Zenon, <1>2 DEF Rules!vars
<1> QED
  BY Zenon, <1>1, <1>3 DEF Correct

LEMMA BeginStep ==
    ASSUME IInv, NEW op \in {"promote", "disconnect"}, NEW p \in Peer, NEW now \in Time,
           Begin(op, p, now)
    PROVE  Correct
<1>0. /\ m_index' = m_index /\ m_peerinfo' = m_peerinfo /\ answer' = answer
      /\ call.op = "none" /\ call'.op = op /\ call'.peer = p /\ call'.now = now
      /\ call'.before = Naive /\ m_index \in Index
  BY Zenon DEF Begin, IInv, Kept
<1>1. Kept(m_index') /\ Counted(m_index', m_peerinfo')
  BY Zenon, <1>0 DEF IInv
<1>2. Naive' = Naive
  BY Zenon, <1>0 DEF Naive
<1>3. Naive \in NaiveIndex
  BY Zenon, <1>0, NaiveFunction, NaiveState DEF NaiveIndex
<1>4. Calls'
  BY Zenon, <1>0, <1>3 DEF IInv, Calls
<1>5. Progress'
  BY Zenon, <1>0, <1>2 DEF Progress, Agrees
<1>6. NeverTwiceStep
  BY Zenon, <1>0 DEF NeverTwiceStep
<1>7. UNCHANGED Rules!vars
  BY Zenon, <1>0 DEF Rules!vars
<1> QED
  BY Zenon, <1>1, <1>4, <1>5, <1>6, <1>7 DEF IInv, Correct

LEMMA ReturnStep ==
    ASSUME IInv, m_index' = m_index, m_peerinfo' = m_peerinfo, call' = NoCall, answer' \subseteq TxHash
    PROVE  IInv' /\ NeverTwiceStep /\ Naive' = Naive /\ call'.op = "none"
<1>1. Kept(m_index') /\ Counted(m_index', m_peerinfo')
  BY Zenon DEF IInv
<1>2. call'.op = "none"
  BY Zenon DEF NoCall
<1>3. Calls' /\ Progress'
  BY Zenon, <1>2 DEF Calls, Progress
<1>4. NeverTwiceStep /\ Naive' = Naive
  BY Zenon DEF NeverTwiceStep, Naive
<1> QED
  BY Zenon, <1>1, <1>2, <1>3, <1>4 DEF IInv

LEMMA SelectStep ==
    ASSUME IInv, Select
    PROVE  Correct
<1> DEFINE a == Timely(call.before, call.now)
<1>0. /\ call.op = "promote" /\ Due = {} /\ Early = {} /\ call' = NoCall
      /\ answer' = {h \in TxHash : m_index[<<call.peer, h>>].state = "CANDIDATE_BEST"}
      /\ m_index' = m_index /\ m_peerinfo' = m_peerinfo
      /\ call.peer \in Peer /\ call.now \in Time
      /\ m_index \in Index /\ Blank(m_index)
  BY DEF Select, IInv, Calls, NoCall, Kept
<1>1. IInv' /\ NeverTwiceStep /\ Naive' = Naive /\ call'.op = "none"
  BY Zenon, <1>0, ReturnStep
<1>2. ASSUME NEW h \in TxHash PROVE Agrees(Rules!Cleaned(a), h)
  <2>1. CASE Agrees(call.before, h)
    <3>1. \A y \in Pair : Naive[y].state = "REQUESTED" => ~(Naive[y].time <= call.now)
      BY Zenon, <1>0, NaiveState DEF Due, IsWaiting, Kinds
    <3>2. \A y \in Pair : y[2] = h => a[y] = Naive[y]
      BY Zenon, <2>1, <3>1 DEF Timely, Agrees
    <3>3. SaneOn(m_index, h)
      BY Zenon DEF IInv, Kept
    <3> HIDE DEF a
    <3> QED
      BY Zenon, <1>0, <3>2, <3>3, AlreadyClean DEF Agrees
  <2> QED
    BY Zenon, <1>0, <2>1 DEF IInv, Progress
<1>3. Rules!Cleaned(a) = Naive
  <2>1. \A y \in Pair : y[2] \in TxHash
    BY Zenon DEF Pair
  <2> HIDE DEF a
  <2> QED
    BY Zenon, <1>2, <2>1, CleanedFunction DEF Agrees
<1>4. Rules!Expired(call.before, call.now) = Naive
  BY Zenon, <1>3, RulesOperators
<1>5. answer' = {h \in TxHash : Rules!GetSelected(Naive, call.now, <<call.peer, h>>)}
  <2>1. \A h \in TxHash : <<call.peer, h>> \in Pair
    BY Zenon, <1>0 DEF Pair
  <2> QED
    BY Zenon, <1>0, <2>1, SelectedRight
<1>6. Rules!GetRequestable(call.peer, call.now)
  BY Zenon, <1>0, <1>1, <1>4, <1>5 DEF Rules!GetRequestable
<1>7. Rules!Next
  BY Zenon, <1>0, <1>6 DEF Rules!Next
<1> QED
  BY Zenon, <1>1, <1>7 DEF Correct

LEMMA DroppedStep ==
    ASSUME IInv, Dropped
    PROVE  Correct
<1> DEFINE a == Without(call.before, call.peer)
<1>0. /\ call.op = "disconnect" /\ call' = NoCall /\ answer' = {}
      /\ m_index' = m_index /\ m_peerinfo' = m_peerinfo
      /\ call.peer \in Peer /\ m_index \in Index /\ Blank(m_index)
      /\ \A h \in TxHash : m_index[<<call.peer, h>>].state = "NOTHING"
  BY DEF Dropped, IInv, Calls, NoCall, Kept
<1>1. IInv' /\ NeverTwiceStep /\ Naive' = Naive /\ call'.op = "none"
  BY Zenon, <1>0, ReturnStep
<1>2. ASSUME NEW h \in TxHash PROVE Agrees(Rules!Cleaned(a), h)
  <2>1. CASE Agrees(call.before, h)
    <3>1. \A y \in Pair : y[2] = h /\ y[1] = call.peer => y = <<call.peer, h>>
      BY DEF Pair
    <3>2. \A y \in Pair : y[2] = h /\ y[1] = call.peer => Naive[y] = Nothing
      <4>1. \A y \in Pair : y[2] = h /\ y[1] = call.peer => m_index[y].state = "NOTHING"
        BY Zenon, <1>0, <3>1
      <4> QED
        BY Zenon, <1>0, <4>1, NaiveState DEF Kinds, Blank
    <3>3. \A y \in Pair : y[2] = h => a[y] = Naive[y]
      BY Zenon, <2>1, <3>2 DEF Without, Agrees
    <3>4. SaneOn(m_index, h)
      BY Zenon DEF IInv, Kept
    <3> HIDE DEF a
    <3> QED
      BY Zenon, <1>0, <3>3, <3>4, AlreadyClean DEF Agrees
  <2> QED
    BY Zenon, <1>0, <2>1 DEF IInv, Progress
<1>3. Rules!Cleaned(a) = Naive
  <2>1. \A y \in Pair : y[2] \in TxHash
    BY Zenon DEF Pair
  <2> HIDE DEF a
  <2> QED
    BY Zenon, <1>2, <2>1, CleanedFunction DEF Agrees
<1>4. a = [x \in Rules!Pair |-> IF x[1] = call.peer THEN Rules!Nothing ELSE call.before[x]]
  BY Zenon, RulesOperators DEF Without
<1> HIDE DEF a
<1>5. Rules!DisconnectedPeer(call.peer)
  BY Zenon, <1>0, <1>1, <1>3, <1>4 DEF Rules!DisconnectedPeer
<1>6. Rules!Next
  BY Zenon, <1>0, <1>5 DEF Rules!Next
<1> QED
  BY Zenon, <1>1, <1>6 DEF Correct

LEMMA PlainStep ==
    ASSUME IInv, call.op = "none", NEW h \in TxHash, NEW f, Legal(f, h), Modify(h, f),
           answer' = {}, UNCHANGED call
    PROVE  /\ IInv' /\ NeverTwiceStep
           /\ Naive' = [y \in Pair |-> IF y[2] = h THEN NaiveOf(f[y]) ELSE Naive[y]]
<1>1. Kept(m_index') /\ Counted(m_index', m_peerinfo')
  BY Zenon, ModifyKeeps DEF IInv
<1>2. Calls' /\ Progress'
  BY Zenon DEF IInv, Calls, Progress
<1>3. NeverTwiceStep
  BY Zenon, LegalOnward DEF IInv, Kept
<1>4. Naive' = [y \in Pair |-> Naive'[y]]
  BY Zenon, NaiveFunction DEF Naive
<1>5. \A y \in Pair : Naive'[y] = IF y[2] = h THEN NaiveOf(f[y]) ELSE Naive[y]
  BY Zenon, ModifyNaive
<1> QED
  BY Zenon, <1>1, <1>2, <1>3, <1>4, <1>5 DEF IInv

LEMMA ForgetTxHashStep ==
    ASSUME IInv, NEW h \in TxHash, NEW p \in Peer, ForgetTxHash(h)
    PROVE  Correct
<1>1. call.op = "none" /\ Modify(h, Erased) /\ answer' = {} /\ UNCHANGED call
  BY Zenon DEF ForgetTxHash
<1>2. Legal(Erased, h) /\ \A y \in Pair : NaiveOf(Erased[y]) = Nothing
  BY Zenon, ErasedLegal DEF IInv, Kept
<1>3. /\ IInv' /\ NeverTwiceStep
      /\ Naive' = [y \in Pair |-> IF y[2] = h THEN NaiveOf(Erased[y]) ELSE Naive[y]]
  BY Zenon, <1>1, <1>2, PlainStep
<1>4. Naive' = [y \in Rules!Pair |-> IF y[2] = h THEN Rules!Nothing ELSE Naive[y]]
  BY Zenon, <1>2, <1>3, RulesOperators
<1>5. Rules!ForgetTxHash(h)
  BY Zenon, <1>1, <1>4 DEF Rules!ForgetTxHash
<1> QED
  BY Zenon, <1>3, <1>5 DEF Rules!Next, Correct

LEMMA ReceivedInvStep ==
    ASSUME IInv, NEW h \in TxHash, NEW p \in Peer, NEW t \in Time, ReceivedInv(p, h, t)
    PROVE  Correct
<1> DEFINE x == <<p, h>>
<1>0. /\ x \in Pair /\ x[2] = h /\ x \in Announced /\ m_index[x].state = "NOTHING"
      /\ m_index \in Index /\ Blank(m_index) /\ SaneOn(m_index, x[2])
  BY Zenon DEF Pair, ReceivedInv, IInv, Kept
<1>1. call.op = "none" /\ Modify(h, Inved(x, t)) /\ answer' = {} /\ UNCHANGED call
  BY Zenon DEF ReceivedInv, Inved
<1>2. /\ Legal(Inved(x, t), h)
      /\ \A y \in Pair : NaiveOf(Inved(x, t)[y]) =
             IF y = x THEN [state |-> "CANDIDATE", time |-> t] ELSE Naive[y]
  BY <1>0, InvedLegal
<1>3. /\ IInv' /\ NeverTwiceStep
      /\ Naive' = [y \in Pair |-> IF y[2] = h THEN NaiveOf(Inved(x, t)[y]) ELSE Naive[y]]
  BY Zenon, <1>1, <1>2, PlainStep
<1>4. Naive[x].state = "NOTHING" /\ Naive = [y \in Pair |-> Naive[y]]
  BY Zenon, <1>0, NaiveState, NaiveFunction DEF Kinds
<1> HIDE DEF x
<1>5. Naive' = [y \in Pair |-> IF y = x THEN [state |-> "CANDIDATE", time |-> t] ELSE Naive[y]]
  BY Zenon, <1>0, <1>2, <1>3
<1>6. Naive' = [Naive EXCEPT ![x] = IF Naive[x].state = "NOTHING"
                                    THEN [state |-> "CANDIDATE", time |-> t] ELSE Naive[x]]
  BY Zenon, <1>4, <1>5
<1>7. Rules!ReceivedInv(p, h, t)
  BY Zenon, <1>0, <1>1, <1>6 DEF Rules!ReceivedInv, x
<1> QED
  BY Zenon, <1>3, <1>7 DEF Rules!Next, Correct

LEMMA RequestedTxStep ==
    ASSUME IInv, NEW h \in TxHash, NEW p \in Peer, NEW t \in Time, RequestedTx(p, h, t)
    PROVE  Correct
<1> DEFINE x == <<p, h>>
<1>0. /\ x \in Pair /\ x[2] = h /\ m_index[x].state \in Kinds
      /\ m_index \in Index /\ Blank(m_index) /\ SaneOn(m_index, x[2])
  BY Zenon DEF Pair, RequestedTx, IInv, Kept, Kinds
<1>1. call.op = "none" /\ Modify(h, Asked(x, t)) /\ answer' = {} /\ UNCHANGED call
  BY Zenon DEF RequestedTx, Asked
<1>2. /\ Legal(Asked(x, t), h)
      /\ \A y \in Pair : NaiveOf(Asked(x, t)[y]) =
             IF y = x THEN [state |-> "REQUESTED", time |-> t]
             ELSE IF Naive[y].state = "REQUESTED" THEN As(Naive[y], "COMPLETED")
             ELSE Naive[y]
  BY Zenon, <1>0, AskedLegal
<1>3. /\ IInv' /\ NeverTwiceStep
      /\ Naive' = [y \in Pair |-> IF y[2] = h THEN NaiveOf(Asked(x, t)[y]) ELSE Naive[y]]
  BY Zenon, <1>1, <1>2, PlainStep
<1>4. Naive[x].state = "CANDIDATE"
  BY Zenon, <1>0, NaiveState
<1> HIDE DEF x
<1>5. Naive' = [y \in Rules!Pair |->
                  IF y = x THEN [state |-> "REQUESTED", time |-> t]
                  ELSE IF y[2] = h /\ Naive[y].state = "REQUESTED"
                  THEN Rules!Completed(Naive[y]) ELSE Naive[y]]
  BY Zenon, <1>0, <1>2, <1>3, RulesOperators
<1>6. Rules!RequestedTx(p, h, t)
  BY Zenon, <1>1, <1>4, <1>5 DEF Rules!RequestedTx, x
<1> QED
  BY Zenon, <1>3, <1>6 DEF Rules!Next, Correct

LEMMA ReceivedResponseStep ==
    ASSUME IInv, NEW h \in TxHash, NEW p \in Peer, ReceivedResponse(p, h)
    PROVE  Correct
<1> DEFINE x == <<p, h>>
           a == [Naive EXCEPT ![x] = Rules!Completed(Naive[x])]
<1>0. /\ x \in Pair /\ x[2] = h /\ m_index[x].state # "NOTHING"
      /\ m_index \in Index /\ Blank(m_index) /\ \A k \in TxHash : SaneOn(m_index, k)
      /\ Naive = [y \in Pair |-> Naive[y]]
  BY Zenon, NaiveFunction DEF Pair, ReceivedResponse, IInv, Kept
<1>1. call.op = "none" /\ Modify(h, MadeCompleted(x)) /\ answer' = {} /\ UNCHANGED call
  BY Zenon DEF ReceivedResponse
<1> HIDE DEF x
<1>2. a[x] = As(Naive[x], "COMPLETED") /\ \A y \in Pair : y # x => a[y] = Naive[y]
  BY Zenon, <1>0, RulesOperators
<1> HIDE DEF a
<1>3. /\ Legal(MadeCompleted(x), h)
      /\ \A y \in Pair : y[2] = h => NaiveOf(MadeCompleted(x)[y]) = Rules!Cleaned(a)[y]
  BY Zenon, <1>0, <1>2, MadeCompletedLegal
<1>4. /\ IInv' /\ NeverTwiceStep
      /\ Naive' = [y \in Pair |-> IF y[2] = h THEN NaiveOf(MadeCompleted(x)[y]) ELSE Naive[y]]
  BY Zenon, <1>1, <1>3, PlainStep
<1>5. ASSUME NEW y \in Pair, y[2] # h PROVE Rules!Cleaned(a)[y] = Naive[y]
  <2>1. y[2] \in TxHash
    BY Zenon DEF Pair
  <2>2. \A z \in Pair : z[2] = y[2] => a[z] = Naive[z]
    BY Zenon, <1>0, <1>2, <1>5
  <2> QED
    BY Zenon, <1>0, <2>1, <2>2, AlreadyClean
<1>6. Naive' = Rules!Cleaned(a)
  <2>1. Rules!Cleaned(a) = [y \in Pair |-> Rules!Cleaned(a)[y]]
    BY Zenon, RulesOperators DEF Rules!Cleaned
  <2> QED
    BY Zenon, <1>3, <1>4, <1>5, <2>1
<1>7. Naive[x].state # "NOTHING"
  BY Zenon, <1>0, NaiveState
<1>8. Rules!ReceivedResponse(p, h)
  BY Zenon, <1>1, <1>6, <1>7 DEF Rules!ReceivedResponse, a, x
<1> QED
  BY Zenon, <1>4, <1>8 DEF Rules!Next, Correct

-----------------------------------------------------------------------------
LEMMA InitIInv == Init => IInv
<1> SUFFICES ASSUME Init PROVE IInv
  BY Zenon
<1>1. m_index = Erased /\ \A y \in Pair : m_index[y].state = "NOTHING"
  BY Zenon, NothingType DEF Init, Erased
<1>2. m_index \in Index /\ Blank(m_index)
  BY Zenon, <1>1, NothingType DEF Index, Erased, Blank
<1>3. \A h \in TxHash : SaneOn(m_index, h)
  BY Zenon, <1>1 DEF SaneOn, IsSelected
<1>4. ASSUME NEW p \in Peer, NEW states \in {State \ {"NOTHING"}, {"COMPLETED"}, {"REQUESTED"}}
      PROVE  NumbersIn(m_index, p, states) = 0
  <2>1. \A h \in TxHash : <<p, h>> \in Pair
    BY Zenon DEF Pair
  <2>2. {h \in TxHash : m_index[<<p, h>>].state \in states} = {}
    BY Zenon, <1>1, <2>1
  <2> QED
    BY Zenon, <2>2, FS_EmptySet DEF NumbersIn
<1>5. Counted(m_index, m_peerinfo)
  BY Zenon, <1>4 DEF Init, Counted
<1>6. Calls /\ Progress
  BY Zenon DEF Init, Calls, Progress, NoCall
<1> QED
  BY Zenon, <1>2, <1>3, <1>5, <1>6 DEF IInv, Kept

LEMMA NextCorrect == IInv /\ [Next]_vars => Correct
<1> SUFFICES ASSUME IInv, [Next]_vars PROVE Correct
  BY Zenon
<1>1. CASE Select
  BY Zenon, <1>1, SelectStep
<1>2. CASE Dropped
  BY Zenon, <1>2, DroppedStep
<1>3. CASE \E x \in Pair : PromoteOrExpire(x) \/ Demote(x) \/ Drop(x)
  BY Zenon, <1>3, LoopStep
<1>4. ASSUME NEW p \in Peer, DisconnectedPeer(p) PROVE Correct
  BY Zenon, <1>4, BeginStep, TxRequestAssumption DEF DisconnectedPeer
<1>5. ASSUME NEW p \in Peer, NEW now \in Time, GetRequestable(p, now) PROVE Correct
  BY Zenon, <1>5, BeginStep DEF GetRequestable
<1>6. ASSUME NEW p \in Peer, NEW h \in TxHash, ForgetTxHash(h) \/ ReceivedResponse(p, h)
      PROVE  Correct
  BY Zenon, <1>6, ForgetTxHashStep, ReceivedResponseStep
<1>7. ASSUME NEW p \in Peer, NEW h \in TxHash, NEW t \in Time,
             RequestedTx(p, h, t) \/ ReceivedInv(p, h, t)
      PROVE  Correct
  BY Zenon, <1>7, RequestedTxStep, ReceivedInvStep
<1>8. CASE UNCHANGED vars
  <2>1. IInv'
    BY Zenon, <1>8 DEF vars, IInv, Calls, Progress, Agrees, Naive
  <2>2. NeverTwiceStep
    BY Zenon, <1>8 DEF vars, NeverTwiceStep
  <2>3. UNCHANGED Rules!vars
    BY Zenon, <1>8 DEF vars, Rules!vars, Naive
  <2> QED
    BY Zenon, <2>1, <2>2, <2>3 DEF Correct
<1> QED
  BY Zenon, <1>1, <1>2, <1>3, <1>4, <1>5, <1>6, <1>7, <1>8 DEF Next

(* What the invariant says of TypeOK, CountsRight and Sanity. *)
LEMMA IInvImplies == IInv => TypeOK /\ CountsRight /\ Sanity
<1> SUFFICES ASSUME IInv PROVE TypeOK /\ CountsRight /\ Sanity
  BY Zenon
<1>1. CountsRight
  BY Zenon DEF IInv, Counted, CountsRight, Numbers, NumbersIn
<1>2. m_peerinfo \in [Peer -> [total : Nat, completed : Nat, requested : Nat]]
  BY Zenon, NumbersType DEF IInv, Counted
<1>3. TypeOK
  BY Zenon, <1>2 DEF IInv, Kept, Index, Calls, NaiveIndex, TypeOK
<1>4. Sanity
  BY Zenon, SanityOn DEF IInv, Kept
<1> QED
  BY Zenon, <1>1, <1>3, <1>4

(* TypeOK: the statistics never go below zero, whatever the calls. *)
THEOREM TrackerTypeCorrect == Spec => []TypeOK
  BY InitIInv, NextCorrect, IInvImplies, PTL DEF Spec, Correct

(* CountsRight: Count, CountInFlight and CountCandidates, by which the     *)
(* caller limits a peer, agree with the index after every Modify.          *)
THEOREM StatisticsAreRight == Spec => []CountsRight
  BY InitIInv, NextCorrect, IInvImplies, PTL DEF Spec, Correct

(* Sanity: SanityCheck's assertions hold after every step of every call.   *)
THEOREM IndexIsSane == Spec => []Sanity
  BY InitIInv, NextCorrect, IInvImplies, PTL DEF Spec, Correct

(* NeverTwice: a peer is asked at most once for what it announced.         *)
THEOREM NeverRequestsTwice == Spec => NeverTwice
  BY InitIInv, NextCorrect, PTL DEF Spec, Correct, NeverTwice, NeverTwiceStep

(* KeepsPromise: the tracker implements the rules of txrequest.h.          *)
THEOREM TrackerImplementsRules == Spec => KeepsPromise
<1>1. Init => Rules!Init
  <2> SUFFICES ASSUME Init PROVE Rules!Init
    BY Zenon
  <2>1. call.op = "none" /\ answer = {}
    BY Zenon DEF Init, NoCall
  <2>2. Naive = [x \in Rules!Pair |-> Rules!Nothing]
    BY Zenon, RulesOperators, NothingType DEF Init, Naive
  <2> QED
    BY Zenon, <2>1, <2>2 DEF Rules!Init
<1> QED
  BY <1>1, InitIInv, NextCorrect, PTL DEF Spec, Correct, KeepsPromise, Rules!Spec

-----------------------------------------------------------------------------
(* What the loops of SetTimePoint and of DisconnectedPeer have left to do. *)
Todo ==
    IF call.op = "promote" THEN Due \cup Early
    ELSE {x \in Pair : x[1] = call.peer /\ m_index[x].state # "NOTHING"}

(* A turn of a loop takes an announcement off what is left and puts none   *)
(* back, although Promoted, Changed and MadeCompleted also touch other     *)
(* announcements of the txhash; the call returns when nothing is left.     *)
LoopShrinks ==
    call.op # "none" =>
        \/ Todo = {} /\ call' = NoCall
        \/ call' = call /\ Todo' \subseteq Todo /\ Todo' # Todo

(* The ways in which the loops change an announcement that is not their    *)
(* own: it goes from READY to BEST or back, or it is erased.               *)
Aside(new, old) ==
    \/ new = old
    \/ new.state \in {"NOTHING", "COMPLETED"} /\ old.state # "NOTHING"
    \/ IsSelectable(new) /\ IsSelectable(old) /\ new.time = old.time

(* What PromoteCandidateReady does to the other announcements. *)
LEMMA PromotedAside ==
    ASSUME m_index \in Index, NEW x \in Pair
    PROVE  /\ IsSelectable(Promoted(x)[x]) /\ Promoted(x)[x].time = m_index[x].time
           /\ \A y \in Pair : y # x => Aside(Promoted(x)[y], m_index[y])
<1>1. \A ann, s : As(ann, s).state = s /\ As(ann, s).time = ann.time
  BY Zenon DEF As
<1>2. m_index = [y \in Pair |-> m_index[y]]
  BY Zenon DEF Index
<1>3. CASE ~BecomesBest(x)
  <2>1. Promoted(x) = [m_index EXCEPT ![x] = As(m_index[x], "CANDIDATE_READY")]
    BY Zenon, <1>3 DEF Promoted
  <2>2. /\ Promoted(x)[x] = As(m_index[x], "CANDIDATE_READY")
        /\ \A y \in Pair : y # x => Promoted(x)[y] = m_index[y]
    BY Zenon, <1>2, <2>1
  <2> QED
    BY <1>1, <2>2 DEF Aside, IsSelectable
<1>4. CASE BecomesBest(x)
  <2>1. /\ Promoted(x)[x] = As(m_index[x], "CANDIDATE_BEST")
        /\ \A y \in Pair : y # x => Promoted(x)[y] =
               IF y \in In(x[2], "CANDIDATE_BEST") THEN As(m_index[y], "CANDIDATE_READY")
               ELSE m_index[y]
    BY Zenon, <1>4 DEF Promoted
  <2>2. \A y \in In(x[2], "CANDIDATE_BEST") : m_index[y].state = "CANDIDATE_BEST"
    BY Zenon DEF In
  <2> QED
    BY <1>1, <2>1, <2>2 DEF Aside, IsSelectable
<1> QED
  BY Zenon, <1>3, <1>4

(* What ChangeAndReselect does to the other announcements. *)
LEMMA ChangedAside ==
    ASSUME m_index \in Index, NEW x \in Pair, NEW s
    PROVE  /\ Changed(x, s)[x] = As(m_index[x], s)
           /\ \A y \in Pair : y # x => Aside(Changed(x, s)[y], m_index[y])
<1>1. \A ann, t : As(ann, t).state = t /\ As(ann, t).time = ann.time
  BY Zenon DEF As
<1>2. /\ Changed(x, s)[x] = As(m_index[x], s)
      /\ \A y \in Pair : y # x => Changed(x, s)[y] =
             IF IsSelected(m_index[x]) /\ y \in BestReady(x[2])
             THEN As(m_index[y], "CANDIDATE_BEST") ELSE m_index[y]
  BY Zenon DEF Changed
<1>3. \A y \in BestReady(x[2]) : m_index[y].state = "CANDIDATE_READY"
  BY Zenon DEF BestReady, In
<1> QED
  BY <1>1, <1>2, <1>3 DEF Aside, IsSelectable

(* What MakeCompleted does to the other announcements. *)
LEMMA CompletedAside ==
    ASSUME m_index \in Index, Blank(m_index), NEW x \in Pair
    PROVE  /\ MadeCompleted(x)[x].state \in {"NOTHING", "COMPLETED"}
           /\ \A y \in Pair : y # x /\ y[2] = x[2] => Aside(MadeCompleted(x)[y], m_index[y])
<1>1. CASE m_index[x].state = "COMPLETED"
  BY Zenon, <1>1 DEF MadeCompleted, Aside
<1>2. CASE m_index[x].state # "COMPLETED" /\ IsOnlyNonCompleted(x)
  <2>1. \A y \in Pair : MadeCompleted(x)[y] = Nothing
    BY Zenon, <1>2 DEF MadeCompleted, Erased
  <2> QED
    BY Zenon, <2>1, NothingType DEF Aside, Blank
<1>3. CASE m_index[x].state # "COMPLETED" /\ ~IsOnlyNonCompleted(x)
  <2>1. MadeCompleted(x) = Changed(x, "COMPLETED")
    BY Zenon, <1>3 DEF MadeCompleted
  <2>2. As(m_index[x], "COMPLETED").state = "COMPLETED"
    BY Zenon DEF As
  <2> QED
    BY Zenon, <2>1, <2>2, ChangedAside
<1> QED
  BY Zenon, <1>1, <1>2, <1>3

(* Todo, announcement by announcement. *)
ToVisit(ann, now) ==
    (IsWaiting(ann) /\ ann.time <= now) \/ (IsSelectable(ann) /\ ann.time > now)

(* What is left, announcement by announcement. *)
LEMMA TodoOf ==
    ASSUME NEW x \in Pair
    PROVE  /\ call.op = "promote" => (x \in Todo <=> ToVisit(m_index[x], call.now))
           /\ call.op = "disconnect" =>
                  (x \in Todo <=> x[1] = call.peer /\ m_index[x].state # "NOTHING")
BY Zenon DEF Todo, Due, Early, ToVisit

(* A turn that only moves other announcements aside and settles its own.   *)
LEMMA TurnShrinks ==
    ASSUME NEW x \in Pair, NEW f, Modify(x[2], f), call' = call,
           call.op \in {"promote", "disconnect"}, x \in Todo,
           call.op = "promote" => ~ToVisit(f[x], call.now),
           call.op = "disconnect" => f[x].state = "NOTHING",
           \A y \in Pair : y # x /\ y[2] = x[2] => Aside(f[y], m_index[y])
    PROVE  LoopShrinks
<1>1. \A y \in Pair : m_index'[y] = IF y[2] = x[2] THEN f[y] ELSE m_index[y]
  BY Zenon DEF Modify
<1>2. \A y \in Pair : y # x => Aside(m_index'[y], m_index[y])
  BY Zenon, <1>1 DEF Aside
<1>3. \A y \in Pair :
          /\ call.op = "promote" => (y \in Todo' <=> ToVisit(m_index'[y], call.now))
          /\ call.op = "disconnect" =>
                 (y \in Todo' <=> y[1] = call.peer /\ m_index'[y].state # "NOTHING")
  BY Zenon DEF Todo, Due, Early, ToVisit
<1>4. Todo \subseteq Pair /\ Todo' \subseteq Pair
  BY Zenon DEF Todo, Due, Early
<1>5. x \notin Todo'
  BY Zenon, <1>1, <1>3
<1>6. ASSUME NEW y \in Pair, y # x, y \in Todo' PROVE y \in Todo
  <2>1. Aside(m_index'[y], m_index[y])
    BY Zenon, <1>2, <1>6
  <2>2. CASE call.op = "promote"
    <3>1. ToVisit(m_index'[y], call.now)
      BY Zenon, <1>3, <1>6, <2>2
    <3>2. ToVisit(m_index[y], call.now)
      BY Zenon, <2>1, <3>1 DEF Aside, ToVisit, IsWaiting, IsSelectable
    <3> QED
      BY Zenon, <2>2, <3>2, TodoOf
  <2>3. CASE call.op = "disconnect"
    BY Zenon, <1>3, <1>6, <2>1, <2>3, TodoOf DEF Aside, IsSelectable
  <2> QED
    BY Zenon, <2>2, <2>3
<1> QED
  BY Zenon, <1>4, <1>5, <1>6 DEF LoopShrinks

(* Times are numbers, wherever an announcement keeps one. *)
LEMMA Times ==
    ASSUME IInv, call.op = "promote", NEW x \in Pair
    PROVE  call.now \in Int /\ m_index[x].time \in Int
<1>1. call # NoCall
  BY DEF NoCall
<1>2. call.now \in Time
  BY Zenon, <1>1 DEF IInv, Calls
<1>3. m_index[x] \in Announcement(State)
  BY Zenon DEF IInv, Kept, Index
<1>4. m_index[x].time \in Time
  BY Zenon, <1>3 DEF Announcement
<1>5. \A t \in Time : t \in Int
  BY TxRequestAssumption
<1> QED
  BY <1>2, <1>4, <1>5, Zenon

(* A turn of either loop, and its return. *)
LEMMA LoopTurn ==
    ASSUME IInv, NEW x \in Pair, PromoteOrExpire(x) \/ Demote(x) \/ Drop(x)
    PROVE  LoopShrinks
<1>1. m_index \in Index /\ Blank(m_index)
  BY Zenon DEF IInv, Kept
<1>2. CASE PromoteOrExpire(x)
  <2>1. /\ call.op = "promote" /\ call' = call /\ x \in Due /\ x \in Todo
        /\ IsWaiting(m_index[x]) /\ m_index[x].time <= call.now
    BY Zenon, <1>2 DEF PromoteOrExpire, Due, Todo
  <2>2. CASE m_index[x].state = "REQUESTED"
    <3>1. Modify(x[2], MadeCompleted(x))
      BY Zenon, <1>2, <2>2 DEF PromoteOrExpire
    <3>2. ~ToVisit(MadeCompleted(x)[x], call.now)
      BY Zenon, <1>1, CompletedAside DEF ToVisit, IsWaiting, IsSelectable
    <3> QED
      BY Zenon, <1>1, <2>1, <3>1, <3>2, CompletedAside, TurnShrinks
  <2>3. CASE m_index[x].state # "REQUESTED"
    <3>1. Modify(x[2], Promoted(x))
      BY Zenon, <1>2, <2>3 DEF PromoteOrExpire
    <3>2. ~ToVisit(Promoted(x)[x], call.now)
      <4>1. call.now \in Int /\ m_index[x].time \in Int
        BY Zenon, <2>1, Times
      <4> QED
        BY <1>1, <2>1, <4>1, PromotedAside DEF ToVisit, IsWaiting, IsSelectable
    <3> QED
      BY Zenon, <1>1, <2>1, <3>1, <3>2, PromotedAside, TurnShrinks
  <2> QED
    BY Zenon, <2>2, <2>3
<1>3. CASE Demote(x)
  <2>1. /\ call.op = "promote" /\ call' = call /\ x \in Todo
        /\ m_index[x].time > call.now
        /\ Modify(x[2], Changed(x, "CANDIDATE_DELAYED"))
    BY Zenon, <1>3 DEF Demote, Early, Todo
  <2>2. call.now \in Int /\ m_index[x].time \in Int
    BY Zenon, <2>1, Times
  <2>3. /\ As(m_index[x], "CANDIDATE_DELAYED").state = "CANDIDATE_DELAYED"
        /\ As(m_index[x], "CANDIDATE_DELAYED").time = m_index[x].time
    BY Zenon DEF As
  <2>4. ~ToVisit(Changed(x, "CANDIDATE_DELAYED")[x], call.now)
    BY <1>1, <2>1, <2>2, <2>3, ChangedAside DEF ToVisit, IsWaiting, IsSelectable
  <2> QED
    BY Zenon, <1>1, <2>1, <2>4, ChangedAside, TurnShrinks
<1>4. CASE Drop(x)
  <2> DEFINE f == [MadeCompleted(x) EXCEPT ![x] = Nothing]
  <2>1. call.op = "disconnect" /\ call' = call /\ x \in Todo /\ Modify(x[2], f)
    BY Zenon, <1>4 DEF Drop, Todo
  <2>2. MadeCompleted(x) = [y \in Pair |-> MadeCompleted(x)[y]]
    BY Zenon, <1>1 DEF MadeCompleted, Erased, Changed, Index
  <2>3. f[x] = Nothing /\ \A y \in Pair : y # x => f[y] = MadeCompleted(x)[y]
    BY Zenon, <2>2
  <2> HIDE DEF f
  <2> QED
    BY <1>1, <2>1, <2>3, CompletedAside, NothingType, TurnShrinks
<1> QED
  BY Zenon, <1>2, <1>3, <1>4

(* LoopShrinks: SetTimePoint and DisconnectedPeer visit an announcement at *)
(* most once, so that a call takes at most as many turns as announcements  *)
(* were due, early or the peer's when it began.                            *)
THEOREM LoopsShrink == Spec => [][LoopShrinks]_vars
<1>1. IInv /\ [Next]_vars => [LoopShrinks]_vars
  <2> SUFFICES ASSUME IInv, Next, call.op # "none" PROVE LoopShrinks
    BY Zenon DEF LoopShrinks
  <2>1. CASE Select \/ Dropped
    <3>1. call' = NoCall
      BY Zenon, <2>1 DEF Select, Dropped
    <3>2. Todo = {}
      BY <2>1 DEF Select, Dropped, Todo, Pair
    <3> QED
      BY Zenon, <3>1, <3>2 DEF LoopShrinks
  <2>2. CASE \E x \in Pair : PromoteOrExpire(x) \/ Demote(x) \/ Drop(x)
    BY Zenon, <2>2, LoopTurn
  <2> QED
    BY Zenon, <2>1, <2>2 DEF Next, DisconnectedPeer, GetRequestable, Begin, ForgetTxHash,
                      ReceivedResponse, RequestedTx, ReceivedInv
<1> QED
  BY <1>1, InitIInv, NextCorrect, PTL DEF Spec, Correct

============================================================================
