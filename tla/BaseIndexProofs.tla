-------------------------- MODULE BaseIndexProofs --------------------------
(***************************************************************************)
(* What the index keeps of the chain, for any tree of blocks, any backlog  *)
(* of the queue and any number of restarts.  The records are overwritten   *)
(* by height, so that "the committed block has a record" is not inductive: *)
(* what is, is that each block below the committed one was copied by hash, *)
(* or is still below the state of the index, whose removal will copy it.   *)
(***************************************************************************)
EXTENDS BaseIndex, SequenceTheorems, WellFoundedInduction, TLAPS

Chain == Block \cup {None}

LEMMA ChainSeq == Block \subseteq Chain /\ None \in Chain /\ Chain \subseteq Seq(Label)
<1>1. None \in Seq(Label)
  BY Zenon, EmptySeq DEF None
<1> QED
  BY Zenon, <1>1, BlockAssumption DEF Chain

LEMMA ChainLen ==
    /\ \A b \in Chain : Len(b) \in Nat /\ (b = None <=> Len(b) = 0)
    /\ \A b \in Block : Len(b) >= 1 /\ b # None
<1>1. \A b \in Chain : Len(b) \in Nat /\ (b = None <=> Len(b) = 0)
  BY Zenon, ChainSeq, EmptySeq, LenProperties DEF None
<1>2. \A b \in Block : b # None
  BY Zenon, BlockAssumption
<1> QED
  BY <1>1, <1>2, ChainSeq

LEMMA AncestorSeq ==
    ASSUME NEW b \in Seq(Label), NEW n \in 0..Len(b)
    PROVE  /\ Ancestor(b, n) \in Seq(Label)
           /\ Len(Ancestor(b, n)) = n
           /\ \A i \in 1..n : Ancestor(b, n)[i] = b[i]
<1>1. n \in Int /\ Len(b) \in Nat /\ \A i \in 1..n : b[i] \in Label
  BY LenProperties, ElementOfSeq
<1>2. /\ SubSeq(b, 1, n) \in Seq(Label)
      /\ Len(SubSeq(b, 1, n)) = IF 1 <= n THEN n - 1 + 1 ELSE 0
      /\ \A i \in 1..n - 1 + 1 : SubSeq(b, 1, n)[i] = b[1 + i - 1]
  BY <1>1, SubSeqProperties
<1>3. Len(SubSeq(b, 1, n)) = n
  BY <1>1, <1>2
<1>4. ASSUME NEW i \in 1..n PROVE SubSeq(b, 1, n)[i] = b[i]
  BY <1>1, <1>2
<1> QED
  BY Zenon, <1>2, <1>3, <1>4 DEF Ancestor

LEMMA AncestorSelf == \A b \in Seq(Label) : Ancestor(b, Len(b)) = b
<1> TAKE b \in Seq(Label)
<1>1. Len(b) \in Nat /\ Len(b) \in 0..Len(b)
  BY LenProperties
<1>2. /\ Ancestor(b, Len(b)) \in Seq(Label) /\ Len(Ancestor(b, Len(b))) = Len(b)
      /\ \A i \in 1..Len(b) : Ancestor(b, Len(b))[i] = b[i]
  BY Zenon, <1>1, AncestorSeq
<1> QED
  BY Zenon, <1>2, SeqEqual

LEMMA ParentIsAncestor ==
    /\ \A b \in Block : Parent(b) = Ancestor(b, Len(b) - 1)
    /\ Parent(None) = None
<1>1. Parent(None) = None
  BY SubSeqEmpty DEF Parent, None
<1> QED
  BY Zenon, <1>1 DEF Parent, Ancestor

(* A block is above another when it starts with it. *)
LEMMA AboveSeq ==
    ASSUME NEW a \in Seq(Label), NEW b \in Seq(Label)
    PROVE  Above(b, a) <=> Len(a) <= Len(b) /\ \A i \in 1..Len(a) : a[i] = b[i]
<1>0. Len(a) \in Nat /\ Len(b) \in Nat
  BY Zenon, LenProperties
<1>1. CASE Len(a) <= Len(b)
  <2>1. /\ Ancestor(b, Len(a)) \in Seq(Label)
        /\ Len(Ancestor(b, Len(a))) = Len(a)
        /\ \A i \in 1..Len(a) : Ancestor(b, Len(a))[i] = b[i]
    BY <1>0, <1>1, AncestorSeq
  <2>2. (\A i \in 1..Len(a) : a[i] = b[i]) => Ancestor(b, Len(a)) = a
    BY Zenon, <2>1, SeqEqual
  <2> QED
    BY Zenon, <1>1, <2>1, <2>2 DEF Above
<1> QED
  BY Zenon, <1>0, <1>1 DEF Above

(* The blocks that exist are closed under ancestors: otherwise the highest *)
(* missing ancestor would be the parent of a block.                        *)
LEMMA AncestorBlock ==
    ASSUME NEW b \in Block, NEW n \in 1..Len(b)
    PROVE  Ancestor(b, n) \in Block
<1>0. b \in Seq(Label) /\ Len(b) \in Nat
  BY Zenon, ChainSeq, ChainLen
<1> DEFINE T == {k \in Nat : k < Len(b) /\ Ancestor(b, Len(b) - k) \notin Block}
<1> SUFFICES ASSUME T # {} PROVE FALSE
  <2>1. Len(b) - n \in Nat /\ Len(b) - n < Len(b) /\ Len(b) - (Len(b) - n) = n
    BY <1>0
  <2> QED
    BY Zenon, <2>1
<1>1. T \subseteq Nat
  BY Zenon
<1> HIDE DEF T
<1>2. PICK k \in T : \A m \in T : ~(<<m, k>> \in OpToRel(<, Nat))
  BY Zenon, <1>1, WFMin, NatLessThanWellFounded
<1>3. \A m \in T : ~(m < k)
  BY Zenon, <1>1, <1>2 DEF OpToRel
<1>4. k \in Nat /\ k < Len(b) /\ Ancestor(b, Len(b) - k) \notin Block
  BY Zenon DEF T
<1>5. k # 0
  <2>1. Ancestor(b, Len(b)) = b
    BY Zenon, <1>0, AncestorSelf
  <2> QED
    BY <1>0, <1>4, <2>1
<1> DEFINE c == Ancestor(b, Len(b) - (k - 1))
<1>6. c \in Block
  <2>1. k - 1 \in Nat /\ k - 1 < Len(b) /\ k - 1 < k
    BY <1>0, <1>4, <1>5
  <2> QED
    BY Zenon, <1>3, <2>1 DEF T
<1>7. Len(c) = Len(b) - k + 1 /\ \A i \in 1..Len(b) - k + 1 : c[i] = b[i]
  <2>1. Len(b) - (k - 1) \in 0..Len(b) /\ Len(b) - (k - 1) = Len(b) - k + 1
    BY <1>0, <1>4, <1>5
  <2> QED
    BY Zenon, <1>0, <2>1, AncestorSeq
<1> HIDE DEF c
<1>8. Parent(c) \in Block /\ Parent(c) = Ancestor(c, Len(b) - k)
  <2>1. Len(c) > 1 /\ Len(c) - 1 = Len(b) - k
    BY <1>0, <1>4, <1>7
  <2>2. Parent(c) \in Block
    BY Zenon, <1>6, <2>1, BlockAssumption
  <2> QED
    BY Zenon, <1>6, <2>1, <2>2, ParentIsAncestor
<1>9. Ancestor(c, Len(b) - k) = Ancestor(b, Len(b) - k)
  <2>1. c \in Seq(Label) /\ Len(b) - k \in 0..Len(c) /\ Len(b) - k \in 0..Len(b)
    BY <1>0, <1>4, <1>6, <1>7, ChainSeq
  <2>2. /\ Ancestor(c, Len(b) - k) \in Seq(Label) /\ Len(Ancestor(c, Len(b) - k)) = Len(b) - k
        /\ \A i \in 1..Len(b) - k : Ancestor(c, Len(b) - k)[i] = c[i]
    BY Zenon, <2>1, AncestorSeq
  <2>3. /\ Ancestor(b, Len(b) - k) \in Seq(Label) /\ Len(Ancestor(b, Len(b) - k)) = Len(b) - k
        /\ \A i \in 1..Len(b) - k : Ancestor(b, Len(b) - k)[i] = b[i]
    BY Zenon, <1>0, <2>1, AncestorSeq
  <2>4. \A i \in 1..Len(b) - k : c[i] = b[i]
    BY <1>0, <1>4, <1>7
  <2> QED
    BY Zenon, <2>2, <2>3, <2>4, SeqEqual
<1> QED
  BY Zenon, <1>4, <1>8, <1>9

-----------------------------------------------------------------------------
(* What the invariant needs of Above, Parent and Height. *)
LEMMA ParentChain ==
    ASSUME NEW b \in Block
    PROVE  /\ Parent(b) \in Chain
           /\ Len(Parent(b)) = Len(b) - 1
           /\ \A i \in 1..Len(b) - 1 : Parent(b)[i] = b[i]
           /\ Parent(b) = None <=> Len(b) = 1
<1>1. b \in Seq(Label) /\ Len(b) \in Nat /\ Len(b) >= 1
  BY Zenon, ChainSeq, ChainLen
<1>2. Len(b) - 1 \in 0..Len(b)
  BY <1>1
<1>3. Len(Parent(b)) = Len(b) - 1 /\ \A i \in 1..Len(b) - 1 : Parent(b)[i] = b[i]
  BY Zenon, <1>1, <1>2, AncestorSeq, ParentIsAncestor
<1>4. Parent(b) \in Seq(Label)
  BY Zenon, <1>1, <1>2, AncestorSeq, ParentIsAncestor
<1>5. Parent(b) = None <=> Len(b) = 1
  BY <1>1, <1>3, <1>4, EmptySeq DEF None
<1>6. Parent(b) \in Chain
  <2>1. CASE Len(b) = 1
    BY Zenon, <1>5, <2>1 DEF Chain
  <2>2. CASE Len(b) > 1
    <3>1. Parent(b) \in Block
      BY Zenon, <2>2, BlockAssumption
    <3> QED
      BY Zenon, <3>1, ChainSeq
  <2>3. \A n \in Nat : n >= 1 => n = 1 \/ n > 1
    OBVIOUS
  <2>4. Len(b) = 1 \/ Len(b) > 1
    BY Zenon, <1>1, <2>3
  <2> QED
    BY Zenon, <2>1, <2>2, <2>4
<1> QED
  BY Zenon, <1>3, <1>5, <1>6

LEMMA AboveRefl == \A b \in Chain : Above(b, b) /\ Above(b, None)
<1> TAKE b \in Chain
<1>1. b \in Seq(Label) /\ Len(b) \in Nat /\ None \in Seq(Label) /\ Len(None) = 0
  BY Zenon, ChainSeq, ChainLen
<1>2. Above(b, b) <=> Len(b) <= Len(b) /\ \A i \in 1..Len(b) : b[i] = b[i]
  BY Zenon, <1>1, AboveSeq
<1>3. Above(b, None) <=> Len(None) <= Len(b) /\ \A i \in 1..Len(None) : None[i] = b[i]
  BY Zenon, <1>1, AboveSeq
<1>4. 1..Len(None) = {}
  BY <1>1
<1> QED
  BY <1>1, <1>2, <1>3, <1>4

LEMMA AboveTrans ==
    ASSUME NEW a \in Chain, NEW b \in Chain, NEW c \in Chain, Above(c, b), Above(b, a)
    PROVE  Above(c, a)
<1>1. /\ a \in Seq(Label) /\ b \in Seq(Label) /\ c \in Seq(Label)
      /\ Len(a) \in Nat /\ Len(b) \in Nat /\ Len(c) \in Nat
  BY Zenon, ChainSeq, ChainLen
<1>2. Len(b) <= Len(c) /\ \A i \in 1..Len(b) : b[i] = c[i]
  BY Zenon, <1>1, AboveSeq
<1>3. Len(a) <= Len(b) /\ \A i \in 1..Len(a) : a[i] = b[i]
  BY Zenon, <1>1, AboveSeq
<1>4. Len(a) <= Len(c) /\ \A i \in 1..Len(a) : a[i] = c[i]
  BY <1>1, <1>2, <1>3
<1> QED
  BY Zenon, <1>1, <1>4, AboveSeq

LEMMA AboveAntisym ==
    ASSUME NEW a \in Chain, NEW b \in Chain, Above(a, b), Above(b, a)
    PROVE  a = b
<1>1. a \in Seq(Label) /\ b \in Seq(Label) /\ Len(a) \in Nat /\ Len(b) \in Nat
  BY Zenon, ChainSeq, ChainLen
<1>2. Len(a) = Len(b) /\ \A i \in 1..Len(a) : a[i] = b[i]
  BY <1>1, AboveSeq
<1> QED
  BY Zenon, <1>1, <1>2, SeqEqual

LEMMA AboveParent ==
    ASSUME NEW b \in Block
    PROVE  /\ Above(b, Parent(b))
           /\ \A a \in Chain : Above(b, a) /\ a # b => Above(Parent(b), a)
<1>1. b \in Seq(Label) /\ Len(b) \in Nat /\ Len(b) >= 1
  BY Zenon, ChainSeq, ChainLen
<1>2. /\ Parent(b) \in Seq(Label) /\ Len(Parent(b)) = Len(b) - 1
      /\ \A i \in 1..Len(b) - 1 : Parent(b)[i] = b[i]
  BY Zenon, ParentChain, ChainSeq
<1>3. Above(b, Parent(b))
  BY <1>1, <1>2, AboveSeq
<1>4. ASSUME NEW a \in Chain, Above(b, a), a # b PROVE Above(Parent(b), a)
  <2>1. a \in Seq(Label) /\ Len(a) \in Nat
    BY Zenon, ChainSeq, ChainLen
  <2>2. Len(a) <= Len(b) /\ \A i \in 1..Len(a) : a[i] = b[i]
    BY Zenon, <1>1, <1>4, <2>1, AboveSeq
  <2>3. Len(a) # Len(b)
    BY Zenon, <1>1, <1>4, <2>1, <2>2, SeqEqual
  <2>4. Len(a) <= Len(Parent(b)) /\ \A i \in 1..Len(a) : a[i] = Parent(b)[i]
    BY <1>1, <1>2, <2>1, <2>2, <2>3
  <2> QED
    BY Zenon, <1>2, <2>1, <2>4, AboveSeq
<1> QED
  BY Zenon, <1>3, <1>4

LEMMA AboveHeight ==
    /\ \A a \in Chain, b \in Chain : Above(b, a) => Height(a) <= Height(b)
    /\ \A b \in Block : Height(b) \in Heights /\ Height(b) \in Nat /\ Height(Parent(b)) = Height(b) - 1
    /\ \A b \in Chain : Height(b) \in Int
    /\ \A a \in Block : ~Above(None, a)
<1>1. \A b \in Chain : Height(b) \in Int
  BY ChainLen DEF Height
<1>2. ASSUME NEW b \in Block
      PROVE  Height(b) \in Heights /\ Height(b) \in Nat /\ Height(Parent(b)) = Height(b) - 1
  BY Zenon, ChainLen, ChainSeq, ParentChain DEF Height, Heights
<1>3. ASSUME NEW a \in Chain, NEW b \in Chain, Above(b, a) PROVE Height(a) <= Height(b)
  <2>1. Len(a) <= Len(b) /\ Len(a) \in Nat /\ Len(b) \in Nat
    BY Zenon, <1>3, ChainLen DEF Above
  <2> QED
    BY <2>1 DEF Height
<1>4. ASSUME NEW a \in Block PROVE ~Above(None, a)
  <2>1. Len(None) = 0 /\ Len(a) \in Nat /\ Len(a) >= 1
    BY Zenon, ChainLen, ChainSeq
  <2> QED
    BY <2>1 DEF Above
<1> QED
  BY Zenon, <1>1, <1>2, <1>3, <1>4

-----------------------------------------------------------------------------
(* The fork of two chains is the highest block below both. *)
LEMMA ForkExists ==
    ASSUME NEW a \in Chain, NEW b \in Chain
    PROVE  \E n \in 0..Len(a) :
               /\ FindFork(a, b) = Ancestor(a, n)
               /\ n <= Len(b) /\ Ancestor(a, n) = Ancestor(b, n)
               /\ n < Len(a) /\ n < Len(b) => a[n + 1] # b[n + 1]
<1>0. a \in Seq(Label) /\ b \in Seq(Label) /\ Len(a) \in Nat /\ Len(b) \in Nat
  BY Zenon, ChainSeq, ChainLen
<1> DEFINE Fork(n) == /\ n <= Len(b) /\ Ancestor(a, n) = Ancestor(b, n)
                      /\ n < Len(a) /\ n < Len(b) => a[n + 1] # b[n + 1]
<1> DEFINE T == {k \in Nat : /\ k <= Len(a) /\ Len(a) - k <= Len(b)
                             /\ Ancestor(a, Len(a) - k) = Ancestor(b, Len(a) - k)}
<1>1. T \subseteq Nat
  BY Zenon
<1>2. Len(a) \in T
  <2>1. Ancestor(a, 0) = None /\ Ancestor(b, 0) = None
    BY SubSeqEmpty DEF Ancestor, None
  <2>2. Len(a) - Len(a) = 0
    BY <1>0
  <2> QED
    BY <1>0, <2>1, <2>2
<1> HIDE DEF T
<1>3. PICK k \in T : \A m \in T : ~(<<m, k>> \in OpToRel(<, Nat))
  BY Zenon, <1>1, <1>2, WFMin, NatLessThanWellFounded
<1>4. \A m \in T : ~(m < k)
  BY Zenon, <1>1, <1>3 DEF OpToRel
<1> DEFINE n == Len(a) - k
<1>5. k \in Nat /\ n \in 0..Len(a) /\ n <= Len(b) /\ Ancestor(a, n) = Ancestor(b, n)
  BY <1>0 DEF T
<1> HIDE DEF n
<1>6. ASSUME n < Len(a), n < Len(b), a[n + 1] = b[n + 1] PROVE FALSE
  <2>1. n + 1 \in 0..Len(a) /\ n + 1 \in 0..Len(b) /\ n \in 0..Len(b)
    BY <1>0, <1>5, <1>6
  <2>2. /\ Ancestor(a, n + 1) \in Seq(Label) /\ Len(Ancestor(a, n + 1)) = n + 1
        /\ \A i \in 1..n + 1 : Ancestor(a, n + 1)[i] = a[i]
    BY Zenon, <1>0, <2>1, AncestorSeq
  <2>3. /\ Ancestor(b, n + 1) \in Seq(Label) /\ Len(Ancestor(b, n + 1)) = n + 1
        /\ \A i \in 1..n + 1 : Ancestor(b, n + 1)[i] = b[i]
    BY Zenon, <1>0, <2>1, AncestorSeq
  <2>4. \A i \in 1..n : a[i] = b[i]
    <3>1. \A i \in 1..n : Ancestor(a, n)[i] = a[i]
      BY Zenon, <1>0, <1>5, AncestorSeq
    <3>2. \A i \in 1..n : Ancestor(b, n)[i] = b[i]
      BY Zenon, <1>0, <2>1, AncestorSeq
    <3> QED
      BY Zenon, <1>5, <3>1, <3>2
  <2>5. \A i \in 1..n + 1 : a[i] = b[i]
    BY <1>0, <1>5, <1>6, <2>4
  <2>6. Ancestor(a, n + 1) = Ancestor(b, n + 1)
    BY Zenon, <2>2, <2>3, <2>5, SeqEqual
  <2>7. /\ k - 1 \in Nat /\ k - 1 < k /\ k - 1 <= Len(a)
        /\ Len(a) - (k - 1) = n + 1 /\ n + 1 <= Len(b)
    BY <1>0, <1>5, <1>6 DEF n
  <2>8. k - 1 \in T
    BY Zenon, <2>6, <2>7 DEF T
  <2> QED
    BY Zenon, <1>4, <2>7, <2>8
<1>7. \E m \in 0..Len(a) : Fork(m)
  BY Zenon, <1>5, <1>6
<1>8. FindFork(a, b) = Ancestor(a, CHOOSE m \in 0..Len(a) : Fork(m))
  BY Zenon DEF FindFork
<1>9. (CHOOSE m \in 0..Len(a) : Fork(m)) \in 0..Len(a) /\ Fork(CHOOSE m \in 0..Len(a) : Fork(m))
  BY <1>7, Zenon
<1> QED
  BY Zenon, <1>8, <1>9

(* The next block to index exists, and its parent is below the index. *)
LEMMA NextSyncBlockExists ==
    ASSUME NEW p \in Chain, tip \in Chain, NextSyncBlock(p) # None
    PROVE  NextSyncBlock(p) \in Block /\ Above(p, Parent(NextSyncBlock(p)))
<1>0. p \in Seq(Label) /\ tip \in Seq(Label) /\ Len(p) \in Nat /\ Len(tip) \in Nat
  BY Zenon, ChainSeq, ChainLen
<1>1. PICK n \in 0..Len(p) : /\ FindFork(p, tip) = Ancestor(p, n)
                             /\ n <= Len(tip) /\ Ancestor(p, n) = Ancestor(tip, n)
  BY Zenon, ForkExists
<1>2. Len(FindFork(p, tip)) = n
  BY Zenon, <1>0, <1>1, AncestorSeq
<1>3. FindFork(p, tip) # tip /\ NextSyncBlock(p) = Ancestor(tip, n + 1)
  BY Zenon, <1>2 DEF NextSyncBlock
<1>4. n # Len(tip)
  <2>1. Ancestor(tip, Len(tip)) = tip
    BY Zenon, <1>0, AncestorSelf
  <2> QED
    BY Zenon, <1>1, <1>3, <2>1
<1>5. n \in Nat /\ n + 1 \in 1..Len(tip) /\ n + 1 \in 0..Len(tip) /\ n \in 0..Len(tip)
  BY <1>0, <1>1, <1>4
<1>6. tip \in Block
  <2>1. Len(tip) # 0
    BY <1>0, <1>5
  <2> QED
    BY Zenon, <2>1, ChainLen DEF Chain
<1> DEFINE c == Ancestor(tip, n + 1)
<1>7. c \in Block
  BY Zenon, <1>5, <1>6, AncestorBlock
<1>8. Len(c) = n + 1 /\ \A i \in 1..n + 1 : c[i] = tip[i]
  BY Zenon, <1>0, <1>5, AncestorSeq
<1> HIDE DEF c
<1>9. Len(Parent(c)) = n /\ Parent(c) \in Seq(Label) /\ \A i \in 1..n : Parent(c)[i] = tip[i]
  <2>1. /\ Parent(c) \in Chain /\ Len(Parent(c)) = Len(c) - 1
        /\ \A i \in 1..Len(c) - 1 : Parent(c)[i] = c[i]
    BY Zenon, <1>7, ParentChain
  <2>2. Len(c) - 1 = n
    BY <1>5, <1>8
  <2> QED
    BY <1>5, <1>8, <2>1, <2>2, ChainSeq
<1>10. \A i \in 1..n : p[i] = tip[i]
  <2>1. \A i \in 1..n : Ancestor(p, n)[i] = p[i]
    BY Zenon, <1>0, <1>1, AncestorSeq
  <2>2. \A i \in 1..n : Ancestor(tip, n)[i] = tip[i]
    BY Zenon, <1>0, <1>5, AncestorSeq
  <2> QED
    BY Zenon, <1>1, <2>1, <2>2
<1>11. Len(Parent(c)) <= Len(p) /\ \A i \in 1..Len(Parent(c)) : Parent(c)[i] = p[i]
  BY <1>0, <1>1, <1>9, <1>10
<1>12. Above(p, Parent(c))
  BY Zenon, <1>0, <1>9, <1>11, AboveSeq
<1> QED
  BY Zenon, <1>3, <1>7, <1>12 DEF c

(* Without one, the tip is indexed. *)
LEMMA NextSyncBlockNone ==
    ASSUME NEW p \in Chain, tip \in Chain, NextSyncBlock(p) = None
    PROVE  Above(p, tip)
<1>0. p \in Seq(Label) /\ tip \in Seq(Label) /\ Len(p) \in Nat /\ Len(tip) \in Nat
  BY Zenon, ChainSeq, ChainLen
<1>1. PICK n \in 0..Len(p) : /\ FindFork(p, tip) = Ancestor(p, n)
                             /\ n <= Len(tip) /\ Ancestor(p, n) = Ancestor(tip, n)
  BY Zenon, ForkExists
<1>2. Len(FindFork(p, tip)) = n
  BY Zenon, <1>0, <1>1, AncestorSeq
<1>3. CASE FindFork(p, tip) = tip
  <2>1. n = Len(tip) /\ Ancestor(p, Len(tip)) = tip
    BY Zenon, <1>1, <1>2, <1>3
  <2> QED
    BY <1>0, <1>1, <2>1 DEF Above
<1>4. CASE FindFork(p, tip) # tip
  <2>1. Ancestor(tip, n + 1) = None
    BY Zenon, <1>2, <1>4 DEF NextSyncBlock
  <2>2. Ancestor(tip, Len(tip)) = tip
    BY Zenon, <1>0, AncestorSelf
  <2>3. n \in Nat /\ n + 1 \in 0..Len(tip)
    BY <1>0, <1>1, <1>4, <2>2
  <2>4. Len(Ancestor(tip, n + 1)) = n + 1 /\ Len(None) = 0
    BY Zenon, <1>0, <2>3, AncestorSeq, ChainLen, ChainSeq
  <2> QED
    BY <2>1, <2>3, <2>4
<1> QED
  BY Zenon, <1>3, <1>4

Note == [kind : {"connected", "flushed"}, block : Block]

LEMMA NotesType ==
    ASSUME NEW new \in Block, tip \in Chain
    PROVE  Notes(new) \in Seq(Note)
<1>0. /\ new \in Chain /\ tip \in Seq(Label)
      /\ Len(tip) \in Nat /\ Len(new) \in Nat
  BY Zenon, ChainSeq, ChainLen
<1>1. PICK m \in 0..Len(tip) : FindFork(tip, new) = Ancestor(tip, m) /\ m <= Len(new)
  BY Zenon, <1>0, ForkExists
<1>2. Len(FindFork(tip, new)) = m
  BY Zenon, <1>0, <1>1, AncestorSeq
<1>3. Notes(new) = [n \in 1..Len(new) - m |-> Connected(Ancestor(new, m + n))]
  BY Zenon, <1>2 DEF Notes
<1>4. Len(new) - m \in Nat
  BY <1>0, <1>1
<1>5. ASSUME NEW n \in 1..Len(new) - m PROVE Connected(Ancestor(new, m + n)) \in Note
  <2>1. m + n \in 1..Len(new)
    BY <1>0, <1>1
  <2>2. Ancestor(new, m + n) \in Block
    BY Zenon, <2>1, AncestorBlock
  <2> QED
    BY Zenon, <2>2 DEF Connected, Note
<1> QED
  BY <1>3, <1>4, <1>5, SeqDef

(* What ActivateBestChainStep does to the coins and the queue. *)
LEMMA FlushesToType ==
    ASSUME NEW new \in Block, tip \in Chain, NEW f \in FlushesTo(new), None \notin {f[1], f[2]}
    PROVE  f[1] \in Block /\ f[2] \in Block
<1>0. /\ new \in Chain /\ tip \in Seq(Label) /\ new \in Seq(Label)
      /\ Len(tip) \in Nat /\ Len(new) \in Nat
  BY Zenon, ChainSeq, ChainLen
<1>1. PICK m \in 0..Len(tip) : FindFork(tip, new) = Ancestor(tip, m) /\ m <= Len(new)
  BY Zenon, <1>0, ForkExists
<1>2. Len(FindFork(tip, new)) = m
  BY Zenon, <1>0, <1>1, AncestorSeq
<1>3. \/ \E n \in m + 1..Len(new) : f = <<Ancestor(new, n), Ancestor(new, n - 1)>>
      \/ \E n \in m + 1..Len(tip) : f = <<Ancestor(tip, n - 1), Ancestor(tip, n)>>
  BY Zenon, <1>2 DEF FlushesTo
<1>4. ASSUME NEW b \in Chain, NEW n \in m + 1..Len(b), Ancestor(b, n - 1) # None
      PROVE  Ancestor(b, n) \in Block /\ Ancestor(b, n - 1) \in Block
  <2>0. Len(b) \in Nat /\ n \in 1..Len(b)
    BY <1>1, ChainLen
  <2>1. b \in Block
    BY <2>0, ChainLen DEF Chain
  <2>2. n - 1 # 0
    BY <1>4, SubSeqEmpty DEF Ancestor, None
  <2>3. n - 1 \in 1..Len(b)
    BY <2>0, <2>2
  <2> QED
    BY Zenon, <2>0, <2>1, <2>3, AncestorBlock
<1> QED
  BY <1>0, <1>3, <1>4

(* The genesis block is announced without a flush. *)
LEMMA GenesisNotes ==
    ASSUME NEW new \in Block, tip = None, Height(new) = 0
    PROVE  /\ Notes(new) = <<Connected(new)>>
           /\ \A f \in FlushesTo(new) : f[2] = None
<1>0. /\ new \in Chain /\ None \in Chain /\ new \in Seq(Label) /\ None \in Seq(Label)
      /\ Len(None) = 0 /\ Len(new) = 1
  BY ChainSeq, ChainLen DEF Height
<1>1. PICK m \in 0..Len(None) : FindFork(None, new) = Ancestor(None, m)
  BY Zenon, <1>0, ForkExists
<1>2. Len(FindFork(None, new)) = 0
  BY <1>0, <1>1, AncestorSeq
<1>3. Ancestor(new, 1) = new
  BY Zenon, <1>0, AncestorSelf
<1>4. Notes(new) = [n \in 1..1 - 0 |-> Connected(Ancestor(new, 0 + n))]
  BY Zenon, <1>0, <1>2 DEF Notes
<1>5. Notes(new) = <<Connected(new)>>
  BY <1>3, <1>4
<1>6. FlushesTo(new) = {<<Ancestor(new, n), Ancestor(new, n - 1)>> : n \in 0 + 1..1} \cup
                       {<<Ancestor(tip, n - 1), Ancestor(tip, n)>> : n \in 0 + 1..0}
  BY Zenon, <1>0, <1>2 DEF FlushesTo
<1>7. Ancestor(new, 0) = None
  BY SubSeqEmpty DEF Ancestor, None
<1>8. \A f \in FlushesTo(new) : f[2] = None
  BY <1>6, <1>7
<1> QED
  BY Zenon, <1>5, <1>8

-----------------------------------------------------------------------------
Types ==
    /\ tip \in Chain /\ flushed \in Chain /\ best \in Chain /\ current \in Chain
    /\ queue \in Seq(Note)
    /\ sync \in [at : {"next", "check", "work", "done"}, pindex : Chain]
    /\ job \in [block : Chain, iter : Chain]
    /\ byHeight \in [Heights -> Chain] /\ byHash \subseteq Chain
    /\ committed \in [best : Chain, muhash : Chain]
    /\ mode \in {"up", "stopping", "down"}
    /\ synced \in BOOLEAN /\ failed \in BOOLEAN /\ starts \in Nat

(* Who may write the index, and where it is.  After a failure the best     *)
(* block may be above the state of the index, never beside it.             *)
Threads ==
    /\ job # NoJob =>
          /\ job.block \in Block
          /\ Above(job.iter, Parent(job.block))
          /\ Above(job.iter, current)
          /\ ~failed => job.iter = current
    /\ synced => sync.at = "done" /\ Above(best, current)
    /\ ~failed /\ synced /\ job = NoJob => best = current
    /\ ~synced => (sync.at = "work" <=> job # NoJob)
    /\ sync.at \in {"next", "check"} => sync.pindex = current
    /\ sync.at = "check" => best = current
    /\ mode = "down" => job = NoJob /\ current = None /\ sync.at = "done" /\ ~synced

(* The blocks below the state of the index have a record. *)
Indexed == \A a \in Block : Above(current, a) => Found(a)

Kept(a) == a \in byHash \/ (byHeight[Height(a)] = a /\ (Running => Above(current, a)))

(* A commit that CustomInit accepts has the records of its chain, kept by  *)
(* hash or safe until the index goes below them.                           *)
Committed ==
    /\ ~failed => committed.muhash = committed.best
    /\ committed.best = None => committed.muhash = None
    /\ committed.muhash = committed.best =>
          \A a \in Block : Above(committed.best, a) => Kept(a)

IInv == Types /\ Threads /\ Indexed /\ Committed

-----------------------------------------------------------------------------
LEMMA JobBlock ==
    ASSUME Types
    PROVE  job.block \in Block => job # NoJob
  BY ChainLen DEF Types, NoJob

LEMMA InitIInv == Init => IInv
<1> SUFFICES ASSUME Init PROVE IInv
  BY Zenon
<1>1. Types
  <2>1. tip \in Chain /\ flushed \in Chain /\ None \in Chain
    BY Zenon, ChainSeq DEF Init, Chain
  <2>2. queue \in Seq(Note)
    BY Zenon, EmptySeq DEF Init
  <2>3. sync \in [at : {"next", "check", "work", "done"}, pindex : Chain]
    BY Zenon, <2>1 DEF Init
  <2>4. job \in [block : Chain, iter : Chain]
    BY Zenon, <2>1 DEF Init, NoJob
  <2> QED
    BY Zenon, <2>1, <2>2, <2>3, <2>4 DEF Init, Types
<1>2. Above(best, current)
  BY Zenon, AboveRefl, ChainSeq DEF Init
<1>3. Threads
  BY Zenon, <1>2 DEF Init, Threads
<1>4. Indexed /\ Committed
  BY Zenon, AboveHeight DEF Init, Indexed, Committed
<1> QED
  BY Zenon, <1>1, <1>3, <1>4 DEF IInv

(* The thread that holds cs_main only changes the chain and the queue. *)
LEMMA NodeStep ==
    ASSUME IInv, UNCHANGED <<thread, index, committed, life>>, tip' \in Chain, flushed' \in Chain,
           queue' \in Seq(Note)
    PROVE  IInv'
<1>1. /\ Running' = Running /\ \A a : (Found(a)' <=> Found(a)) /\ (Kept(a)' <=> Kept(a))
  BY Zenon DEF thread, index, life, Running, Found, Kept
<1>2. Types'
  BY Zenon DEF IInv, Types, thread, index, life
<1>3. Threads'
  BY Zenon DEF IInv, Threads, thread, index, life
<1>4. Indexed' /\ Committed'
  BY Zenon, <1>1 DEF IInv, Indexed, Committed, index, life
<1> QED
  BY Zenon, <1>2, <1>3, <1>4 DEF IInv

LEMMA ActivateIInv ==
    ASSUME IInv, NEW new \in Block, ActivateBestChainStep(new)
    PROVE  IInv'
<1>1. tip \in Chain /\ flushed \in Chain /\ queue \in Seq(Note) /\ new \in Chain
  BY Zenon, ChainSeq DEF IInv, Types
<1>2. Notes(new) \in Seq(Note)
  BY Zenon, <1>1, NotesType
<1>3. CASE queue' = queue \o Notes(new) /\ UNCHANGED flushed
  <2>1. queue' \in Seq(Note) /\ flushed' \in Chain
    BY Zenon, <1>1, <1>2, <1>3, ConcatProperties
  <2> QED
    BY Zenon, <1>1, <2>1, NodeStep DEF ActivateBestChainStep
<1>4. ASSUME NEW f \in FlushesTo(new), None \notin {f[1], f[2]}, flushed' = f[1],
             queue' = Append(queue, Flushed(f[2])) \o Notes(new)
      PROVE  IInv'
  <2>1. f[1] \in Chain /\ f[2] \in Block
    BY Zenon, <1>1, <1>4, FlushesToType, ChainSeq
  <2>2. Flushed(f[2]) \in Note
    BY Zenon, <2>1 DEF Flushed, Note
  <2>3. Append(queue, Flushed(f[2])) \in Seq(Note)
    BY Zenon, <1>1, <2>2, AppendProperties
  <2>4. queue' \in Seq(Note)
    BY Zenon, <1>2, <1>4, <2>3, ConcatProperties
  <2> QED
    BY Zenon, <1>1, <1>4, <2>1, <2>4, NodeStep DEF ActivateBestChainStep
<1> QED
  BY Zenon, <1>3, <1>4 DEF ActivateBestChainStep

LEMMA FlushIInv ==
    ASSUME IInv, FlushStateToDisk
    PROVE  IInv'
<1>1. tip \in Block /\ tip \in Chain /\ queue \in Seq(Note)
  BY Zenon DEF IInv, Types, Chain, FlushStateToDisk
<1>2. Flushed(tip) \in Note
  BY Zenon, <1>1 DEF Flushed, Note
<1>3. queue' \in Seq(Note)
  BY Zenon, <1>1, <1>2, AppendProperties DEF FlushStateToDisk
<1> QED
  BY Zenon, <1>1, <1>3, NodeStep DEF FlushStateToDisk

-----------------------------------------------------------------------------
(* A commit of the block whose state the index has. *)
LEMMA CommitStep ==
    ASSUME IInv, NEW b \in Chain, Commit(b), b = current \/ failed,
           UNCHANGED <<index, mode, failed>>
    PROVE  Committed' /\ committed' \in [best : Chain, muhash : Chain]
<1>1. current \in Chain /\ committed \in [best : Chain, muhash : Chain]
  BY Zenon DEF IInv, Types
<1>2. Running' = Running /\ \A a : Kept(a)' <=> Kept(a)
  BY Zenon DEF index, Running, Kept
<1>3. CASE b = None
  <2>1. committed' = committed
    BY Zenon, <1>3 DEF Commit
  <2> QED
    BY Zenon, <1>1, <1>2, <2>1 DEF IInv, Committed
<1>4. CASE b # None
  <2>1. committed' = [best |-> b, muhash |-> current]
    BY Zenon, <1>4 DEF Commit
  <2>2. ASSUME b = current, NEW a \in Block, Above(b, a) PROVE Kept(a)
    BY Zenon, <2>2 DEF IInv, Indexed, Found, Kept
  <2> QED
    BY Zenon, <1>1, <1>2, <1>4, <2>1, <2>2 DEF Committed
<1> QED
  BY Zenon, <1>3, <1>4

LEMMA SameIndex ==
    ASSUME IInv, UNCHANGED index
    PROVE  Indexed'
  BY Zenon DEF IInv, Indexed, Found, index

LEMMA SameCommit ==
    ASSUME IInv, UNCHANGED <<index, mode, failed, committed>>
    PROVE  Committed'
<1>1. Running' = Running /\ \A a : Kept(a)' <=> Kept(a)
  BY Zenon DEF index, Running, Kept
<1> QED
  BY Zenon, <1>1 DEF IInv, Committed

(* The sync thread takes up the next block of the chain. *)
LEMMA NextBlockStep ==
    ASSUME IInv, sync.at \in {"next", "check"}, NextSyncBlock(sync.pindex) # None,
           NextBlock(NextSyncBlock(sync.pindex)), Running,
           UNCHANGED <<node, queue, best, synced, index, committed, life>>
    PROVE  IInv'
<1> DEFINE n == NextSyncBlock(sync.pindex)
<1>1. /\ tip \in Chain /\ sync \in [at : {"next", "check", "work", "done"}, pindex : Chain]
      /\ sync.pindex = current /\ current \in Chain /\ ~synced
  BY Zenon DEF IInv, Types, Threads
<1>2. n \in Block /\ Above(current, Parent(n))
  BY Zenon, <1>1, NextSyncBlockExists
<1> HIDE DEF n
<1>3. job' = [block |-> n, iter |-> current] /\ sync' = [sync EXCEPT !.at = "work"]
  BY Zenon, <1>1 DEF NextBlock, n
<1>4. n \in Chain /\ n # None /\ Above(current, current)
  BY Zenon, <1>1, <1>2, ChainSeq, ChainLen, AboveRefl
<1>5. job' # NoJob /\ job'.block = n /\ job'.iter = current /\ sync'.at = "work"
  BY Zenon, <1>1, <1>3, <1>4 DEF NoJob
<1>6. Types'
  <2>1. job' \in [block : Chain, iter : Chain]
    BY Zenon, <1>1, <1>3, <1>4
  <2>2. sync' \in [at : {"next", "check", "work", "done"}, pindex : Chain]
    BY Zenon, <1>1, <1>3
  <2> QED
    BY Zenon, <2>1, <2>2 DEF IInv, Types, node, index, life
<1>7. Threads'
  BY Zenon, <1>1, <1>2, <1>4, <1>5 DEF Threads, NoJob, index, life, Running
<1> QED
  BY Zenon, <1>6, <1>7, SameIndex, SameCommit DEF IInv, life

LEMMA SyncNextIInv ==
    ASSUME IInv, SyncNext
    PROVE  IInv'
<1>1. /\ sync \in [at : {"next", "check", "work", "done"}, pindex : Chain]
      /\ sync.pindex = current /\ current \in Chain /\ ~synced /\ sync.at = "next" /\ job = NoJob
  BY Zenon DEF IInv, Types, Threads, SyncNext
<1>2. CASE NextSyncBlock(sync.pindex) = None
  <2>1. /\ best' = current /\ Commit(current) /\ sync' = [sync EXCEPT !.at = "check"]
        /\ UNCHANGED <<node, queue, synced, index, life, job>>
    BY Zenon, <1>1, <1>2 DEF SyncNext
  <2>2. Committed' /\ committed' \in [best : Chain, muhash : Chain]
    BY Zenon, <1>1, <2>1, CommitStep DEF life
  <2>3. Types'
    BY Zenon, <1>1, <2>1, <2>2 DEF IInv, Types, node, index, life
  <2>4. Threads'
    BY Zenon, <1>1, <2>1 DEF IInv, Threads, NoJob, index, life
  <2> QED
    BY Zenon, <2>1, <2>2, <2>3, <2>4, SameIndex DEF IInv
<1>3. CASE NextSyncBlock(sync.pindex) # None
  BY Zenon, <1>1, <1>3, NextBlockStep DEF SyncNext, Running
<1> QED
  BY Zenon, <1>2, <1>3

LEMMA SyncCheckIInv ==
    ASSUME IInv, SyncCheck
    PROVE  IInv'
<1>1. /\ sync \in [at : {"next", "check", "work", "done"}, pindex : Chain] /\ best = current
      /\ sync.pindex = current /\ current \in Chain /\ ~synced /\ sync.at = "check" /\ job = NoJob
  BY Zenon DEF IInv, Types, Threads, SyncCheck
<1>2. CASE NextSyncBlock(sync.pindex) = None
  <2>1. /\ synced' = TRUE /\ sync' = [sync EXCEPT !.at = "done"]
        /\ UNCHANGED <<node, queue, best, index, committed, life, job>>
    BY Zenon, <1>1, <1>2 DEF SyncCheck
  <2>2. Types'
    BY Zenon, <1>1, <2>1 DEF IInv, Types, node, index, life
  <2>3. Above(best', current')
    BY Zenon, <1>1, <2>1, AboveRefl DEF index
  <2>4. Threads'
    BY Zenon, <1>1, <2>1, <2>3 DEF IInv, Threads, NoJob, index, life, SyncCheck, Running
  <2> QED
    BY Zenon, <2>1, <2>2, <2>4, SameIndex, SameCommit DEF IInv, life
<1>3. CASE NextSyncBlock(sync.pindex) # None
  BY Zenon, <1>1, <1>3, NextBlockStep DEF SyncCheck
<1> QED
  BY Zenon, <1>2, <1>3

LEMMA SyncInterruptedIInv ==
    ASSUME IInv, SyncInterrupted
    PROVE  IInv'
<1>1. /\ sync \in [at : {"next", "check", "work", "done"}, pindex : Chain]
      /\ sync.pindex = current /\ current \in Chain /\ ~synced /\ sync.at = "next" /\ job = NoJob
  BY Zenon DEF IInv, Types, Threads, SyncInterrupted
<1>2. /\ best' = current /\ Commit(current) /\ sync' = [sync EXCEPT !.at = "done"]
      /\ UNCHANGED <<node, queue, synced, index, life, job>>
  BY Zenon, <1>1 DEF SyncInterrupted
<1>3. Committed' /\ committed' \in [best : Chain, muhash : Chain]
  BY Zenon, <1>1, <1>2, CommitStep DEF life
<1>4. Types'
  BY Zenon, <1>1, <1>2, <1>3 DEF IInv, Types, node, index, life
<1>5. Threads'
  BY Zenon, <1>1, <1>2 DEF IInv, Threads, NoJob, index, life
<1> QED
  BY Zenon, <1>2, <1>3, <1>4, <1>5, SameIndex DEF IInv

-----------------------------------------------------------------------------
(* What Rewind and ProcessBlock work on. *)
LEMMA JobFacts ==
    ASSUME IInv, job # NoJob
    PROVE  /\ job.block \in Block /\ Parent(job.block) \in Chain /\ job.iter \in Chain
           /\ Above(job.iter, Parent(job.block)) /\ Above(job.iter, current)
           /\ job.iter # Parent(job.block) => job.iter \in Block
           /\ sync.at \notin {"next", "check"}
           /\ synced => sync.at = "done"
           /\ ~synced => sync.at = "work"
<1>1. /\ job.block \in Block /\ job.iter \in Chain
      /\ Above(job.iter, Parent(job.block)) /\ Above(job.iter, current)
      /\ synced => sync.at = "done"
      /\ ~synced => sync.at = "work"
  BY Zenon DEF IInv, Types, Threads
<1>2. Parent(job.block) \in Chain
  BY Zenon, <1>1, ParentChain
<1>3. ASSUME job.iter # Parent(job.block) PROVE job.iter \in Block
  <2>1. job.iter # None
    BY Zenon, <1>1, <1>2, <1>3, AboveHeight DEF Chain
  <2> QED
    BY Zenon, <1>1, <2>1 DEF Chain
<1>4. sync.at \notin {"next", "check"}
  BY Zenon, <1>1 DEF IInv, Types
<1> QED
  BY Zenon, <1>1, <1>2, <1>3, <1>4

LEMMA CustomRemoveIInv ==
    ASSUME IInv, CustomRemove
    PROVE  IInv'
<1> DEFINE c == job.iter
           p == Parent(c)
<1>1. /\ Running /\ job # NoJob /\ c # Parent(job.block) /\ current = c
      /\ byHash' = byHash \cup {byHeight[Height(c)]} /\ current' = p
      /\ UNCHANGED <<node, queue, synced, sync, byHeight, committed, life>>
  BY Zenon DEF CustomRemove, Removing, CopyHeightIndexToHashIndex
<1>2. /\ job.block \in Block /\ Parent(job.block) \in Chain /\ c \in Block /\ c \in Chain
      /\ Above(c, Parent(job.block)) /\ sync.at \notin {"next", "check"}
  BY Zenon, <1>1, JobFacts
<1>3. /\ p \in Chain /\ Above(c, p) /\ \A a \in Chain : Above(c, a) /\ a # c => Above(p, a)
      /\ Above(p, p)
  BY Zenon, <1>2, ParentChain, AboveParent, AboveRefl
<1>4. job \in [block : Chain, iter : Chain] /\ best \in Chain
  BY Zenon DEF IInv, Types
<1>5. /\ job' \in [block : Chain, iter : Chain] /\ job'.block = job.block /\ job'.iter = p
      /\ job' # NoJob
  <2>1. job' = [job EXCEPT !.iter = p]
    BY Zenon, <1>4 DEF CustomRemove
  <2>2. job' \in [block : Chain, iter : Chain] /\ job'.block = job.block /\ job'.iter = p
    BY Zenon, <1>3, <1>4, <2>1
  <2> QED
    BY <1>2, <2>2, ChainLen DEF NoJob
<1>6. best' = IF p = Parent(job.block) THEN p ELSE best
  BY Zenon, <1>5 DEF CustomRemove
<1>7. Running' = Running /\ \A a \in Block : (Found(a) => Found(a)') /\ (Kept(a) => Kept(a)')
  <2>1. Running' = Running
    BY Zenon, <1>1 DEF Running, life
  <2>2. ASSUME NEW a \in Block, Found(a) PROVE Found(a)'
    BY Zenon, <1>1, <2>2 DEF Found
  <2>3. ASSUME NEW a \in Block, Kept(a) PROVE Kept(a)'
    BY Zenon, <1>1, <1>3, <2>1, <2>3, ChainSeq DEF Kept
  <2> QED
    BY Zenon, <2>1, <2>2, <2>3
<1>8. Types'
  <2>1. byHeight[Height(c)] \in Chain
    BY Zenon, <1>2, AboveHeight DEF IInv, Types
  <2> QED
    BY Zenon, <1>1, <1>3, <1>4, <1>5, <1>6, <2>1 DEF IInv, Types, node, life
<1>9. Threads'
  <2>1. Above(p, Parent(job.block))
    BY Zenon, <1>1, <1>2, <1>3
  <2>2. synced => Above(best', p)
    <3>1. synced => Above(best, c)
      BY Zenon, <1>1 DEF IInv, Threads
    <3>2. synced => Above(best, p)
      BY Zenon, <1>2, <1>3, <1>4, <3>1, AboveTrans
    <3> QED
      BY Zenon, <1>3, <1>6, <3>2
  <2>3. sync' = sync /\ synced' = synced /\ mode' = mode /\ failed' = failed /\ NoJob' = NoJob /\ mode # "down"
    BY Zenon, <1>1 DEF life, NoJob, Running
  <2>4. (synced => sync.at = "done") /\ (~synced => sync.at = "work")
    BY Zenon, <1>1, JobFacts
  <2> HIDE DEF p, c
  <2> QED
    BY <1>1, <1>2, <1>3, <1>5, <2>1, <2>2, <2>3, <2>4 DEF Threads
<1>10. Indexed'
  <2> SUFFICES ASSUME NEW a \in Block, Above(p, a) PROVE Found(a)'
    BY Zenon, <1>1 DEF Indexed
  <2>1. Above(current, a)
    BY Zenon, <1>1, <1>2, <1>3, AboveTrans, ChainSeq
  <2> QED
    BY Zenon, <1>7, <2>1 DEF IInv, Indexed
<1>11. Committed'
  BY Zenon, <1>1, <1>7 DEF IInv, Committed, life
<1> QED
  BY Zenon, <1>8, <1>9, <1>10, <1>11 DEF IInv

LEMMA CustomAppendIInv ==
    ASSUME IInv, CustomAppend
    PROVE  IInv'
<1> DEFINE b == job.block
<1>1. /\ Running /\ job # NoJob /\ job.iter = Parent(b) /\ current' = b /\ job' = NoJob
      /\ byHeight' = [byHeight EXCEPT ![Height(b)] = b] /\ Processed(b)
      /\ Height(b) > 0 => current = Parent(b)
      /\ UNCHANGED <<node, queue, synced, byHash, life>>
  BY Zenon DEF CustomAppend, Appending
<1>2. /\ b \in Block /\ b \in Chain /\ Parent(b) \in Chain /\ Above(Parent(b), current)
      /\ synced => sync.at = "done"
  BY Zenon, <1>1, JobFacts, ChainSeq
<1>3. current \in Chain /\ byHeight \in [Heights -> Chain] /\ Height(b) \in Heights /\ Height(b) \in Nat
  BY Zenon, <1>2, AboveHeight DEF IInv, Types
<1>4. current = Parent(b)
  <2>1. CASE Height(b) = 0
    <3>1. Parent(b) = None
      BY Zenon, <1>2, <2>1, ChainLen, ParentChain DEF Height
    <3> QED
      BY Zenon, <1>2, <1>3, <3>1, AboveHeight DEF Chain
  <2> QED
    BY <1>1, <1>3, <2>1
<1>5. Above(b, current) /\ Above(b, b) /\ \A a \in Chain : Above(b, a) /\ a # b => Above(current, a)
  BY Zenon, <1>2, <1>4, AboveParent, AboveRefl
<1>6. ASSUME NEW a \in Block, Above(current, a)
      PROVE  byHeight'[Height(a)] = byHeight[Height(a)] /\ Above(b, a)
  <2>1. Height(a) <= Height(b) - 1 /\ Height(a) \in Int /\ Height(a) \in Heights
    BY Zenon, <1>2, <1>3, <1>4, <1>6, AboveHeight, ChainSeq
  <2>2. Height(a) # Height(b)
    BY <1>3, <2>1
  <2>3. Above(b, a)
    BY Zenon, <1>2, <1>3, <1>5, <1>6, AboveTrans, ChainSeq
  <2> QED
    BY Zenon, <1>1, <1>3, <2>1, <2>2, <2>3
<1> HIDE DEF b
<1>7. Running' = Running /\ mode # "down" /\ mode' = mode /\ failed' = failed /\ NoJob' = NoJob
  BY Zenon, <1>1 DEF Running, life, NoJob
<1>8. Indexed'
  <2> SUFFICES ASSUME NEW a \in Block, Above(b, a) PROVE Found(a)'
    BY Zenon, <1>1 DEF Indexed
  <2>1. CASE a = b
    BY Zenon, <1>1, <1>3, <2>1 DEF Found
  <2>2. CASE a # b
    <3>1. Above(current, a) /\ Found(a)
      BY Zenon, <1>5, <2>2, ChainSeq DEF IInv, Indexed
    <3> QED
      BY Zenon, <1>1, <1>6, <3>1 DEF Found
  <2> QED
    BY Zenon, <2>1, <2>2
<1>9. ASSUME NEW a \in Block, Kept(a) PROVE Kept(a)'
  BY Zenon, <1>1, <1>6, <1>7, <1>9 DEF Kept
<1>10. \/ committed' = committed
       \/ committed' = [best |-> b, muhash |-> b]
  BY Zenon, <1>1 DEF Processed
<1>11. Committed' /\ committed' \in [best : Chain, muhash : Chain]
  <2>1. CASE committed' = committed
    BY Zenon, <1>7, <1>9, <2>1 DEF IInv, Types, Committed
  <2>2. CASE committed' = [best |-> b, muhash |-> b]
    <3>1. ASSUME NEW a \in Block, Above(b, a) PROVE Kept(a)'
      BY Zenon, <1>1, <1>8, <3>1 DEF Indexed, Found, Kept
    <3> QED
      BY Zenon, <1>2, <2>2, <3>1, ChainLen DEF Committed
  <2> QED
    BY Zenon, <1>10, <2>1, <2>2
<1>12. /\ best' \in Chain /\ sync' \in [at : {"next", "check", "work", "done"}, pindex : Chain]
       /\ synced => best' = b /\ sync' = sync
       /\ ~synced => sync'.at = "next" /\ sync'.pindex = b
  BY <1>1, <1>2 DEF Processed, IInv, Types
<1>13. Types'
  <2>1. job' \in [block : Chain, iter : Chain] /\ byHeight' \in [Heights -> Chain]
    BY Zenon, <1>1, <1>2, <1>3, ChainSeq DEF NoJob
  <2> QED
    BY Zenon, <1>1, <1>2, <1>7, <1>11, <1>12, <2>1 DEF IInv, Types, node, life
<1>14. Threads'
  BY Zenon, <1>1, <1>2, <1>5, <1>7, <1>12 DEF Threads, IInv, Types
<1> QED
  BY Zenon, <1>8, <1>11, <1>13, <1>14 DEF IInv

LEMMA FatalIInv ==
    ASSUME IInv, Fatal
    PROVE  IInv'
<1>1. /\ Running /\ job # NoJob /\ job' = NoJob /\ mode' = "stopping" /\ failed' = TRUE
      /\ sync' = [sync EXCEPT !.at = "done"]
      /\ UNCHANGED <<node, queue, best, synced, current, byHeight, committed, starts>>
      /\ byHash' = IF Removing THEN CopyHeightIndexToHashIndex ELSE byHash
  BY Zenon DEF Fatal, Refused, Removing, Appending
<1>2. byHash \subseteq byHash' /\ byHash' \subseteq Chain
  <2>1. CASE Removing
    <3>1. job.iter \in Block
      BY Zenon, <1>1, <2>1, JobFacts DEF Removing
    <3>2. byHeight[Height(job.iter)] \in Chain
      BY Zenon, <3>1, AboveHeight DEF IInv, Types
    <3> QED
      BY Zenon, <1>1, <2>1, <3>2 DEF CopyHeightIndexToHashIndex, IInv, Types
  <2>2. CASE ~Removing
    BY Zenon, <1>1, <2>2 DEF IInv, Types
  <2> QED
    BY Zenon, <2>1, <2>2
<1>3. Types'
  BY Zenon, <1>1, <1>2, ChainSeq DEF IInv, Types, node, NoJob
<1>4. Threads'
  <2>1. sync'.at = "done"
    BY Zenon, <1>1 DEF IInv, Types
  <2>2. NoJob' = NoJob
    BY Zenon DEF NoJob
  <2> QED
    BY Zenon, <1>1, <2>1, <2>2 DEF IInv, Types, Threads
<1>5. Indexed'
  BY Zenon, <1>1, <1>2 DEF IInv, Indexed, Found
<1>6. \A a \in Block : Kept(a) => Kept(a)'
  BY Zenon, <1>1, <1>2 DEF Kept, Running
<1>7. Committed'
  BY Zenon, <1>1, <1>6 DEF IInv, Committed
<1> QED
  BY Zenon, <1>3, <1>4, <1>5, <1>7 DEF IInv

-----------------------------------------------------------------------------
LEMMA PopFacts ==
    ASSUME IInv, NEW kind, Pop(kind)
    PROVE  /\ Running /\ (synced => job = NoJob)
           /\ Head(queue) \in Note /\ Head(queue).block \in Block
           /\ queue' \in Seq(Note)
<1>1. queue \in Seq(Note) /\ queue # <<>> /\ queue' = Tail(queue)
  BY Zenon DEF IInv, Types, Pop
<1>2. Head(queue) \in Note /\ Tail(queue) \in Seq(Note)
  BY Zenon, <1>1, HeadTailProperties
<1> QED
  BY Zenon, <1>1, <1>2 DEF Pop, Note

LEMMA BlockConnectedIInv ==
    ASSUME IInv, BlockConnected
    PROVE  IInv'
<1> DEFINE b == Head(queue).block
<1>1. /\ UNCHANGED <<node, best, synced, sync, index, committed, starts>>
      /\ job' = IF synced /\ Above(best, Parent(b)) THEN [block |-> b, iter |-> best] ELSE job
      /\ \/ mode' = "stopping" /\ failed' = TRUE
         \/ UNCHANGED <<mode, failed>>
      /\ Pop("connected")
  BY Zenon DEF BlockConnected
<1>2. Running /\ (synced => job = NoJob) /\ b \in Block /\ b \in Chain /\ b # None /\ queue' \in Seq(Note)
  BY Zenon, <1>1, PopFacts, ChainSeq, ChainLen
<1> HIDE DEF b
<1>3. Running' /\ NoJob' = NoJob
  BY Zenon, <1>1, <1>2 DEF Running, NoJob
<1>4. Types'
  <2>1. job' \in [block : Chain, iter : Chain]
    BY Zenon, <1>1, <1>2 DEF IInv, Types
  <2>2. mode' \in {"up", "stopping", "down"} /\ failed' \in BOOLEAN
    BY Zenon, <1>1 DEF IInv, Types
  <2> QED
    BY Zenon, <1>1, <1>2, <2>1, <2>2 DEF IInv, Types, node, index
<1>5. Threads'
  <2>1. CASE synced /\ Above(best, Parent(b))
    <3>1. job' = [block |-> b, iter |-> best] /\ job' # NoJob
      BY Zenon, <1>1, <1>2, <2>1 DEF NoJob
    <3>2. sync.at = "done" /\ Above(best, current) /\ (~failed => best = current)
      BY Zenon, <1>2, <2>1 DEF IInv, Threads
    <3>3. ~failed' => ~failed
      BY Zenon, <1>1 DEF IInv, Types
    <3>4. mode' # "down" /\ current' = current
      BY Zenon, <1>1, <1>3 DEF Running, index
    <3> QED
      BY <1>1, <1>2, <1>3, <2>1, <3>1, <3>2, <3>3, <3>4 DEF Threads
  <2>2. CASE ~(synced /\ Above(best, Parent(b)))
    <3>1. job' = job
      BY Zenon, <1>1, <2>2
    <3>2. ~failed' => ~failed
      BY Zenon, <1>1 DEF IInv, Types
    <3>3. mode' # "down" /\ current' = current
      BY Zenon, <1>1, <1>3 DEF Running, index
    <3> QED
      BY Zenon, <1>1, <1>3, <3>1, <3>2, <3>3 DEF Threads, IInv
  <2> QED
    BY Zenon, <2>1, <2>2
<1>6. \A a : Kept(a) => Kept(a)'
  BY Zenon, <1>1, <1>2, <1>3 DEF Kept, index
<1>7. Committed'
  BY <1>1, <1>6 DEF IInv, Types, Committed
<1> QED
  BY Zenon, <1>1, <1>4, <1>5, <1>7, SameIndex DEF IInv

LEMMA ChainStateFlushedIInv ==
    ASSUME IInv, ChainStateFlushed
    PROVE  IInv'
<1>1. /\ UNCHANGED <<node, thread, index, life>> /\ Pop("flushed")
      /\ \/ synced /\ Commit(best)
         \/ UNCHANGED committed
  BY Zenon DEF ChainStateFlushed
<1>2. (synced => job = NoJob) /\ queue' \in Seq(Note)
  BY Zenon, <1>1, PopFacts
<1>3. Committed' /\ committed' \in [best : Chain, muhash : Chain]
  <2>1. CASE synced /\ Commit(best)
    <3>1. best \in Chain /\ (best = current \/ failed)
      BY Zenon, <1>2, <2>1 DEF IInv, Types, Threads
    <3> QED
      BY Zenon, <1>1, <2>1, <3>1, CommitStep DEF life
  <2>2. CASE UNCHANGED committed
    BY Zenon, <1>1, <2>2, SameCommit DEF life, IInv, Types
  <2> QED
    BY Zenon, <1>1, <2>1, <2>2
<1>4. Types'
  BY Zenon, <1>1, <1>2, <1>3 DEF IInv, Types, node, thread, index, life
<1>5. Threads'
  BY Zenon, <1>1 DEF IInv, Threads, NoJob, thread, index, life
<1> QED
  BY Zenon, <1>1, <1>3, <1>4, <1>5, SameIndex DEF IInv

-----------------------------------------------------------------------------
LEMMA StopRequestIInv ==
    ASSUME IInv, StopRequest
    PROVE  IInv'
<1>1. Running /\ Running' /\ mode' = "stopping"
  BY Zenon DEF StopRequest, Running
<1>2. \A a : Kept(a) => Kept(a)'
  BY Zenon, <1>1 DEF StopRequest, Kept, index
<1>3. Types'
  BY Zenon, <1>1 DEF StopRequest, IInv, Types, node, thread, index
<1>4. Threads'
  BY Zenon, <1>1 DEF StopRequest, IInv, Threads, NoJob, thread, index
<1>5. Committed'
  BY Zenon, <1>2 DEF StopRequest, IInv, Committed
<1>6. Indexed'
  BY Zenon, SameIndex DEF StopRequest
<1> QED
  BY Zenon, <1>3, <1>4, <1>5, <1>6 DEF IInv

LEMMA CrashIInv ==
    ASSUME IInv, Crash
    PROVE  IInv'
<1>1. Types'
  BY Zenon, ChainSeq, EmptySeq DEF Crash, IInv, Types, NoJob, node
<1>2. Threads'
  BY Zenon DEF Crash, Threads, NoJob
<1>3. Indexed'
  BY Zenon, AboveHeight DEF Crash, Indexed
<1>4. \A a : Kept(a) => Kept(a)'
  BY Zenon DEF Crash, Kept, Running
<1>5. Committed'
  BY Zenon, <1>4 DEF Crash, IInv, Committed
<1> QED
  BY Zenon, <1>1, <1>2, <1>3, <1>5 DEF IInv

LEMMA RestartIInv ==
    ASSUME IInv, Restart
    PROVE  IInv'
<1>1. committed \in [best : Chain, muhash : Chain] /\ committed.muhash = committed.best
  BY Zenon DEF IInv, Types, Committed, Restart, CustomInit
<1>2. /\ current' = committed.best /\ best' = committed.best /\ job = NoJob /\ job' = NoJob
      /\ byHeight' = byHeight /\ byHash' = byHash /\ committed' = committed /\ failed' = failed
      /\ mode' = "up" /\ ~Running
      /\ sync' = [at |-> IF synced' THEN "done" ELSE "next", pindex |-> committed.best]
  BY Zenon, <1>1 DEF Restart, IInv, Threads, Running
<1>3. Above(committed.best, committed.best)
  BY Zenon, <1>1, AboveRefl
<1>4. Types'
  <2>1. synced' \in BOOLEAN /\ starts' \in Nat /\ tip' \in Chain
    BY DEF Restart, IInv, Types
  <2> QED
    BY <1>1, <1>2, <2>1 DEF Restart, IInv, Types
<1>5. Threads'
  <2>1. synced' \in BOOLEAN
    BY Zenon DEF Restart
  <2> QED
    BY Zenon, <1>2, <1>3, <2>1 DEF Threads, NoJob
<1>6. ASSUME NEW a \in Block, Above(committed.best, a) PROVE Kept(a)
  BY Zenon, <1>1, <1>6 DEF IInv, Committed
<1>7. Indexed'
  BY Zenon, <1>2, <1>6 DEF Indexed, Found, Kept
<1>8. ASSUME NEW a \in Block, Above(committed.best, a) PROVE Kept(a)'
  BY Zenon, <1>2, <1>6, <1>8 DEF Kept
<1>9. Committed'
  BY Zenon, <1>1, <1>2, <1>8 DEF IInv, Committed
<1> QED
  BY Zenon, <1>4, <1>5, <1>7, <1>9 DEF IInv

LEMMA NextIInv == IInv /\ [Next]_vars => IInv'
<1> SUFFICES ASSUME IInv, [Next]_vars PROVE IInv'
  BY Zenon
<1>1. CASE UNCHANGED vars
  BY Zenon, <1>1, NodeStep DEF vars, node, IInv, Types
<1>2. CASE Sync
  BY Zenon, <1>2, SyncNextIInv, SyncCheckIInv, SyncInterruptedIInv DEF Sync
<1>3. CASE Work
  BY Zenon, <1>3, CustomRemoveIInv, CustomAppendIInv, FatalIInv DEF Work
<1>4. CASE ProcessQueue
  BY Zenon, <1>4, BlockConnectedIInv, ChainStateFlushedIInv DEF ProcessQueue
<1> QED
  BY Zenon, <1>1, <1>2, <1>3, <1>4, ActivateIInv, FlushIInv, StopRequestIInv, CrashIInv, RestartIInv DEF Next

LEMMA Invariance == Spec => []IInv
  BY InitIInv, NextIInv, PTL DEF Spec

-----------------------------------------------------------------------------
(* The first notification is the genesis block's. *)
GenesisFirst(q) ==
    \E n \in 1..Len(q) :
        /\ q[n].kind = "connected" /\ Height(q[n].block) = 0
        /\ \A m \in 1..n - 1 : q[m].kind # "connected"

(* Until the first restart no record of the chain of the index was         *)
(* overwritten, and the first notification is that of the genesis block.   *)
FirstLife ==
    starts = 0 =>
        /\ ~failed
        /\ \A a \in Block : Above(current, a) => byHeight[Height(a)] = a
        /\ Running => synced \/ tip # None
        /\ synced /\ tip = None => queue = <<>>
        /\ synced /\ tip # None /\ best = None /\ job = NoJob => GenesisFirst(queue)

LEMMA GenesisFirstConcat ==
    ASSUME NEW q \in Seq(Note), NEW r \in Seq(Note), GenesisFirst(q)
    PROVE  GenesisFirst(q \o r)
<1>1. PICK n \in 1..Len(q) : /\ q[n].kind = "connected" /\ Height(q[n].block) = 0
                             /\ \A m \in 1..n - 1 : q[m].kind # "connected"
  BY Zenon DEF GenesisFirst
<1>2. Len(q) \in Nat /\ Len(r) \in Nat
  BY Zenon, LenProperties
<1>3. Len(q \o r) = Len(q) + Len(r) /\ \A i \in 1..Len(q) : (q \o r)[i] = q[i]
  BY <1>2, ConcatProperties
<1>4. n \in 1..Len(q \o r) /\ \A m \in 1..n - 1 : m \in 1..Len(q)
  BY <1>2, <1>3
<1> QED
  BY <1>1, <1>3, <1>4 DEF GenesisFirst

LEMMA GenesisFirstTail ==
    ASSUME NEW q \in Seq(Note), q # <<>>, GenesisFirst(q)
    PROVE  /\ Head(q).kind = "connected" => Height(Head(q).block) = 0
           /\ Head(q).kind # "connected" => GenesisFirst(Tail(q))
<1>1. PICK n \in 1..Len(q) : /\ q[n].kind = "connected" /\ Height(q[n].block) = 0
                             /\ \A m \in 1..n - 1 : q[m].kind # "connected"
  BY Zenon DEF GenesisFirst
<1>2. Len(q) \in Nat /\ Head(q) = q[1]
  BY LenProperties
<1>3. Len(Tail(q)) = Len(q) - 1 /\ \A i \in 1..Len(q) - 1 : Tail(q)[i] = q[i + 1]
  BY Zenon, HeadTailProperties
<1>4. CASE n = 1
  BY Zenon, <1>1, <1>2, <1>4
<1>5. CASE n # 1
  <2>1. Head(q).kind # "connected"
    BY <1>1, <1>2, <1>5
  <2>2. n - 1 \in 1..Len(Tail(q)) /\ Tail(q)[n - 1] = q[n]
    BY <1>2, <1>3, <1>5
  <2>3. ASSUME NEW m \in 1..n - 1 - 1 PROVE Tail(q)[m].kind # "connected"
    <3>1. m \in 1..Len(q) - 1 /\ m + 1 \in 1..n - 1
      BY <1>2
    <3> QED
      BY Zenon, <1>1, <1>3, <3>1
  <2> QED
    BY Zenon, <1>1, <2>1, <2>2, <2>3 DEF GenesisFirst
<1> QED
  BY Zenon, <1>4, <1>5

LEMMA InitFirstLife == Init => FirstLife
  BY Zenon, AboveHeight DEF Init, FirstLife

(* In the first life neither thread gives up. *)
LEMMA FatalNotFirst ==
    ASSUME IInv, FirstLife, starts = 0
    PROVE  ~Refused
<1>0. ~failed
  BY Zenon DEF FirstLife
<1>1. ASSUME Removing PROVE RevertBlock(job.iter)
  <2>1. job.iter \in Block /\ job.iter = current /\ job # NoJob
    BY Zenon, <1>0, <1>1, JobFacts DEF Removing, IInv, Threads
  <2>2. ASSUME Height(job.iter) # 0 PROVE byHeight[Height(job.iter) - 1] = Parent(job.iter)
    <3>1. Parent(job.iter) # None
      BY Zenon, <2>1, <2>2, ParentChain, ChainLen DEF Height
    <3>2. Parent(job.iter) \in Block
      BY Zenon, <2>1, <3>1, ParentChain DEF Chain
    <3>3. Above(current, Parent(job.iter)) /\ Height(Parent(job.iter)) = Height(job.iter) - 1
      BY Zenon, <2>1, AboveParent, AboveHeight
    <3> QED
      BY Zenon, <3>2, <3>3 DEF FirstLife
  <2> QED
    BY Zenon, <2>2 DEF RevertBlock
<1>2. ASSUME Appending PROVE current = Parent(job.block)
  BY Zenon, <1>0, <1>2 DEF Appending, IInv, Threads
<1> QED
  BY Zenon, <1>1, <1>2 DEF Refused

(* Steps that leave the index and the flags alone. *)
LEMMA FirstLifeIndex ==
    ASSUME FirstLife, UNCHANGED <<index, failed, starts>>
    PROVE  starts' = 0 =>
               /\ starts = 0 /\ ~failed'
               /\ \A a \in Block : Above(current', a) => byHeight'[Height(a)] = a
  BY Zenon DEF FirstLife, index

LEMMA ActivateFirstLife ==
    ASSUME IInv, FirstLife, NEW new \in Block, ActivateBestChainStep(new)
    PROVE  FirstLife'
<1>1. tip' = new /\ new # None /\ UNCHANGED <<thread, index, committed, life>>
  BY Zenon, ChainLen DEF ActivateBestChainStep
<1>2. tip \in Chain /\ queue \in Seq(Note) /\ Notes(new) \in Seq(Note)
  BY Zenon, NotesType DEF IInv, Types
<1>3. ASSUME starts = 0, synced, best = None, job = NoJob PROVE GenesisFirst(queue')
  <2>1. CASE tip = None
    <3>1. queue = <<>> /\ Height(new) = 0
      BY Zenon, <1>3, <2>1 DEF FirstLife, ActivateBestChainStep
    <3>2. Notes(new) = <<Connected(new)>> /\ \A f \in FlushesTo(new) : f[2] = None
      BY Zenon, <2>1, <3>1, GenesisNotes
    <3>3. queue' = queue \o Notes(new)
      BY Zenon, <3>2 DEF ActivateBestChainStep
    <3>4. queue' = <<Connected(new)>>
      BY Zenon, <1>2, <3>1, <3>2, <3>3, ConcatEmptySeq
    <3>5. Len(queue') = 1 /\ queue'[1] = Connected(new)
      BY Zenon, <3>4
    <3>6. 1 \in 1..Len(queue') /\ 1..1 - 1 = {}
      BY <3>5
    <3> QED
      BY <3>1, <3>5, <3>6 DEF GenesisFirst, Connected
  <2>2. CASE tip # None
    <3>1. GenesisFirst(queue)
      BY Zenon, <1>3, <2>2 DEF FirstLife
    <3>2. CASE queue' = queue \o Notes(new)
      BY Zenon, <1>2, <3>1, <3>2, GenesisFirstConcat
    <3>3. ASSUME NEW f \in FlushesTo(new), None \notin {f[1], f[2]},
                 queue' = Append(queue, Flushed(f[2])) \o Notes(new)
          PROVE  GenesisFirst(queue')
      <4>1. f[2] \in Block
        BY Zenon, <1>2, <3>3, FlushesToType
      <4>2. Flushed(f[2]) \in Note
        BY Zenon, <4>1 DEF Flushed, Note
      <4>3. <<Flushed(f[2])>> \in Seq(Note) /\ Append(queue, Flushed(f[2])) = queue \o <<Flushed(f[2])>>
        BY <1>2, <4>2, AppendIsConcat
      <4>4. GenesisFirst(Append(queue, Flushed(f[2]))) /\ Append(queue, Flushed(f[2])) \in Seq(Note)
        BY Zenon, <1>2, <3>1, <4>2, <4>3, GenesisFirstConcat, AppendProperties
      <4> QED
        BY Zenon, <1>2, <3>3, <4>4, GenesisFirstConcat
    <3> QED
      BY Zenon, <3>2, <3>3 DEF ActivateBestChainStep
  <2> QED
    BY Zenon, <2>1, <2>2
<1>4. synced' = synced /\ best' = best /\ job' = job /\ NoJob' = NoJob /\ starts' = starts /\ failed' = failed
  BY Zenon, <1>1 DEF thread, life, NoJob
<1> QED
  BY Zenon, <1>1, <1>3, <1>4, FirstLifeIndex DEF FirstLife

LEMMA FlushFirstLife ==
    ASSUME IInv, FirstLife, FlushStateToDisk
    PROVE  FirstLife'
<1>1. tip \in Block /\ tip # None /\ queue \in Seq(Note) /\ queue' = Append(queue, Flushed(tip))
  BY Zenon DEF IInv, Types, Chain, FlushStateToDisk
<1>2. Flushed(tip) \in Note
  BY Zenon, <1>1 DEF Flushed, Note
<1>3. <<Flushed(tip)>> \in Seq(Note) /\ queue' = queue \o <<Flushed(tip)>>
  BY <1>1, <1>2, AppendIsConcat
<1>4. GenesisFirst(queue) => GenesisFirst(queue')
  BY Zenon, <1>1, <1>3, GenesisFirstConcat
<1>5. /\ tip' = tip /\ synced' = synced /\ best' = best /\ job' = job /\ NoJob' = NoJob
      /\ starts' = starts /\ failed' = failed /\ mode' = mode /\ UNCHANGED index
  BY Zenon DEF FlushStateToDisk, thread, life, NoJob
<1>6. Running' = Running
  BY Zenon, <1>5 DEF Running
<1> QED
  BY Zenon, <1>1, <1>4, <1>5, <1>6, FirstLifeIndex DEF FirstLife

LEMMA SyncFirstLife ==
    ASSUME IInv, FirstLife, Sync
    PROVE  FirstLife'
<1>1. /\ UNCHANGED <<node, queue, index, life>> /\ ~synced /\ NoJob' = NoJob
      /\ tip \in Chain /\ Running' = Running /\ Running
  BY Zenon DEF Sync, SyncNext, SyncCheck, SyncInterrupted, IInv, Types, Threads, Running, life, NoJob
<1>2. ASSUME starts = 0, synced' PROVE tip # None /\ best' # None
  <2>1. SyncCheck /\ NextSyncBlock(sync.pindex) = None /\ best' = best
    BY Zenon, <1>1, <1>2 DEF Sync, SyncNext, SyncCheck, SyncInterrupted
  <2>2. sync.pindex = current /\ best = current /\ current \in Chain
    BY Zenon, <2>1 DEF SyncCheck, IInv, Types, Threads
  <2>3. tip # None
    BY Zenon, <1>1, <1>2 DEF FirstLife
  <2>4. Above(best, tip)
    BY Zenon, <1>1, <2>1, <2>2, NextSyncBlockNone
  <2>5. tip \in Block
    BY Zenon, <1>1, <2>3 DEF Chain
  <2> QED
    BY Zenon, <2>1, <2>3, <2>4, <2>5, AboveHeight
<1>3. starts' = starts /\ failed' = failed /\ tip' = tip
  BY Zenon, <1>1 DEF life, node
<1> QED
  BY Zenon, <1>1, <1>2, <1>3, FirstLifeIndex DEF FirstLife

LEMMA WorkFirstLife ==
    ASSUME IInv, FirstLife, Work
    PROVE  FirstLife'
<1>1. job # NoJob /\ NoJob' = NoJob /\ starts' = starts /\ tip' = tip /\ queue' = queue /\ synced' = synced
  BY Zenon DEF Work, CustomRemove, CustomAppend, Fatal, Refused, Removing, Appending, NoJob, node, life
<1> SUFFICES ASSUME starts = 0 PROVE FirstLife'
  BY Zenon, <1>1 DEF FirstLife
<1>2. CASE CustomRemove
  <2>1. /\ job.iter # Parent(job.block) /\ current = job.iter /\ current' = Parent(current)
        /\ UNCHANGED <<byHeight, life>> /\ Running
    BY Zenon, <1>2 DEF CustomRemove, Removing
  <2>2. job.block \in Block /\ current \in Block
    BY Zenon, <1>1, <2>1, JobFacts
  <2>3. ASSUME NEW a \in Block, Above(current', a) PROVE byHeight'[Height(a)] = a
    <3>1. Above(current, a)
      BY Zenon, <2>1, <2>2, <2>3, AboveParent, ParentChain, AboveTrans, ChainSeq
    <3> QED
      BY Zenon, <2>1, <3>1 DEF FirstLife
  <2>4. job' # NoJob
    BY Zenon, <1>2, <2>2, ChainLen DEF CustomRemove, NoJob, IInv, Types
  <2>5. Running' = Running /\ failed' = failed
    BY Zenon, <2>1 DEF Running, life
  <2> QED
    BY Zenon, <1>1, <2>3, <2>4, <2>5 DEF FirstLife
<1>3. CASE CustomAppend
  <2> DEFINE b == job.block
  <2>1. /\ job.iter = Parent(b) /\ current' = b /\ Processed(b) /\ UNCHANGED life
        /\ byHeight' = [byHeight EXCEPT ![Height(b)] = b]
    BY Zenon, <1>3 DEF CustomAppend, Appending
  <2>2. b \in Block /\ b # None /\ current = Parent(b) /\ Height(b) \in Heights /\ Height(b) \in Nat
    BY Zenon, <1>1, <2>1, JobFacts, ChainLen, AboveHeight DEF FirstLife, IInv, Threads
  <2>3. byHeight \in [Heights -> Chain] /\ current \in Chain
    BY Zenon DEF IInv, Types
  <2> HIDE DEF b
  <2>4. ASSUME NEW a \in Block, Above(b, a) PROVE byHeight'[Height(a)] = a
    <3>1. CASE a = b
      BY Zenon, <2>1, <2>2, <2>3, <3>1
    <3>2. CASE a # b
      <4>1. Above(current, a) /\ a \in Chain
        BY Zenon, <2>2, <2>4, <3>2, AboveParent, ChainSeq
      <4>2. Height(a) <= Height(b) - 1 /\ Height(a) \in Int /\ Height(a) \in Heights
        BY Zenon, <2>2, <2>3, <4>1, AboveHeight
      <4>3. Height(a) # Height(b)
        BY <2>2, <4>2
      <4> QED
        BY Zenon, <2>1, <2>3, <4>1, <4>2, <4>3 DEF FirstLife
    <3> QED
      BY Zenon, <3>1, <3>2
  <2>5. synced => best' # None
    BY Zenon, <2>1, <2>2 DEF Processed
  <2>6. Running' = Running /\ failed' = failed
    BY Zenon, <2>1 DEF Running, life
  <2> QED
    BY Zenon, <1>1, <2>1, <2>4, <2>5, <2>6 DEF FirstLife
<1>4. ~Fatal
  BY Zenon, FatalNotFirst DEF Fatal
<1> QED
  BY Zenon, <1>2, <1>3, <1>4 DEF Work

LEMMA QueueFirstLife ==
    ASSUME IInv, FirstLife, ProcessQueue
    PROVE  FirstLife'
<1>1. /\ UNCHANGED <<node, best, synced, sync, index, starts>> /\ NoJob' = NoJob /\ queue \in Seq(Note)
      /\ queue # <<>> /\ queue' = Tail(queue) /\ (synced => job = NoJob) /\ Running
  BY Zenon DEF ProcessQueue, BlockConnected, ChainStateFlushed, Pop, NoJob, thread, life, IInv, Types
<1> SUFFICES ASSUME starts = 0 PROVE FirstLife'
  BY Zenon, <1>1 DEF FirstLife
<1>2. /\ synced => tip # None
      /\ synced /\ best = None => GenesisFirst(queue)
      /\ ~failed
  BY Zenon, <1>1 DEF FirstLife
<1>3. CASE BlockConnected
  <2> DEFINE b == Head(queue).block
  <2>1. b \in Block /\ Head(queue).kind = "connected"
    BY Zenon, <1>3, PopFacts DEF BlockConnected, Pop
  <2>2. synced /\ best = None => Height(b) = 0
    BY Zenon, <1>1, <1>2, <2>1, GenesisFirstTail
  <2>3. UNCHANGED <<mode, failed>>
    BY <1>3, <2>2 DEF BlockConnected
  <2>4. ASSUME synced, best = None PROVE job' # NoJob
    <3>1. Parent(b) = None
      BY Zenon, <2>1, <2>2, <2>4, ParentChain, ChainLen, ChainSeq DEF Height
    <3>2. Above(best, Parent(b))
      BY Zenon, <2>4, <3>1, AboveRefl, ChainSeq
    <3>3. job' = [block |-> b, iter |-> best]
      BY Zenon, <1>3, <2>4, <3>2 DEF BlockConnected
    <3> QED
      BY Zenon, <2>1, <3>3, ChainLen DEF NoJob
  <2>5. tip' = tip /\ Running' = Running
    BY Zenon, <1>1, <2>3 DEF node, Running
  <2> QED
    BY Zenon, <1>1, <1>2, <2>3, <2>4, <2>5, FirstLifeIndex DEF FirstLife
<1>4. CASE ChainStateFlushed
  <2>1. Head(queue).kind # "connected" /\ UNCHANGED <<mode, failed, job>>
    BY Zenon, <1>4 DEF ChainStateFlushed, Pop, thread, life
  <2>2. synced /\ best = None => GenesisFirst(queue')
    BY Zenon, <1>1, <1>2, <2>1, GenesisFirstTail
  <2>3. tip' = tip /\ Running' = Running
    BY Zenon, <1>1, <2>1 DEF node, Running
  <2> QED
    BY Zenon, <1>1, <1>2, <2>1, <2>2, <2>3, FirstLifeIndex DEF FirstLife
<1> QED
  BY Zenon, <1>3, <1>4 DEF ProcessQueue

LEMMA LifeFirstLife ==
    ASSUME IInv, FirstLife, StopRequest \/ Crash \/ Restart \/ UNCHANGED vars
    PROVE  FirstLife'
<1>1. CASE StopRequest
  BY Zenon, <1>1, FirstLifeIndex DEF StopRequest, FirstLife, Running, node, thread, NoJob
<1>2. CASE Crash
  BY Zenon, <1>2, AboveHeight DEF Crash, FirstLife, Running
<1>3. CASE Restart
  BY <1>3 DEF Restart, FirstLife, IInv, Types
<1>4. CASE UNCHANGED vars
  BY Zenon, <1>4, FirstLifeIndex DEF vars, FirstLife, Running, node, thread, life, NoJob
<1> QED
  BY Zenon, <1>1, <1>2, <1>3, <1>4

LEMMA NextFirstLife == IInv /\ FirstLife /\ [Next]_vars => FirstLife'
  BY Zenon, ActivateFirstLife, FlushFirstLife, SyncFirstLife, WorkFirstLife, QueueFirstLife, LifeFirstLife DEF Next

-----------------------------------------------------------------------------
(* The heights below a block that was indexed hold a record, be it another *)
(* block's.                                                                *)
Filled(b) == \A a \in Block : Above(b, a) => byHeight[Height(a)] # None

NoHoles ==
    /\ byHash \subseteq Block
    /\ Filled(current) /\ Filled(committed.best)
    /\ job # NoJob => Filled(job.iter)
    /\ synced => Filled(best)

LEMMA InitNoHoles == Init => NoHoles
  BY AboveHeight DEF Init, NoHoles, Filled

LEMMA CopiedBlock ==
    ASSUME IInv, NEW c \in Block, Filled(c)
    PROVE  byHeight[Height(c)] \in Block
<1>1. byHeight[Height(c)] \in Chain
  BY Zenon, AboveHeight DEF IInv, Types
<1>2. byHeight[Height(c)] # None
  BY Zenon, AboveRefl, ChainSeq DEF Filled
<1> QED
  BY Zenon, <1>1, <1>2 DEF Chain

LEMMA FilledBelow ==
    ASSUME NEW c \in Chain, NEW p \in Chain, Above(c, p), Filled(c)
    PROVE  Filled(p)
  BY Zenon, AboveTrans, ChainSeq DEF Filled

LEMMA NextNoHoles == IInv /\ NoHoles /\ [Next]_vars => NoHoles'
<1> SUFFICES ASSUME IInv, NoHoles, [Next]_vars PROVE NoHoles'
  BY Zenon
<1>0. NoJob' = NoJob
  BY Zenon DEF NoJob
<1>2. ASSUME UNCHANGED <<thread, index, committed>> PROVE NoHoles'
  BY Zenon, <1>0, <1>2 DEF NoHoles, Filled, thread, index
<1>3. CASE Sync
  <2>1. UNCHANGED <<byHeight, byHash, current>> /\ sync.pindex = current /\ ~synced
    BY Zenon, <1>3 DEF Sync, SyncNext, SyncCheck, SyncInterrupted, index, IInv, Threads
  <2>2. committed'.best \in {committed.best, current}
    BY <1>3, <2>1 DEF Sync, SyncNext, SyncCheck, SyncInterrupted, Commit
  <2>3. job' # NoJob => job' = job \/ job'.iter = current
    BY <1>3, <2>1 DEF Sync, SyncNext, SyncCheck, SyncInterrupted, NextBlock
  <2>4. synced' => best' = current
    BY Zenon, <1>3, <2>1 DEF Sync, SyncNext, SyncCheck, SyncInterrupted, IInv, Threads
  <2> QED
    BY Zenon, <1>0, <2>1, <2>2, <2>3, <2>4 DEF NoHoles, Filled
<1>4. CASE CustomRemove
  <2> DEFINE c == job.iter
  <2>1. /\ job # NoJob /\ c # Parent(job.block) /\ current' = Parent(c)
        /\ byHash' = byHash \cup {byHeight[Height(c)]}
        /\ UNCHANGED <<synced, byHeight, committed>>
    BY Zenon, <1>4 DEF CustomRemove, Removing, CopyHeightIndexToHashIndex
  <2>2. c \in Block /\ c \in Chain /\ Parent(c) \in Chain /\ Above(c, Parent(c))
    BY Zenon, <2>1, JobFacts, ParentChain, AboveParent, ChainSeq
  <2>3. Filled(c) /\ Filled(Parent(c))
    BY Zenon, <2>1, <2>2, FilledBelow DEF NoHoles
  <2>4. byHeight[Height(c)] \in Block
    BY Zenon, <2>2, <2>3, CopiedBlock
  <2>5. job'.iter = Parent(c) /\ best' \in {best, Parent(c)}
    BY Zenon, <1>4 DEF CustomRemove, IInv, Types
  <2> HIDE DEF c
  <2> QED
    BY Zenon, <2>1, <2>3, <2>4, <2>5 DEF NoHoles, Filled
<1>5. CASE CustomAppend
  <2> DEFINE b == job.block
  <2>1. /\ job # NoJob /\ job.iter = Parent(b) /\ current' = b /\ job' = NoJob
        /\ byHeight' = [byHeight EXCEPT ![Height(b)] = b] /\ Processed(b)
        /\ UNCHANGED <<synced, byHash>>
    BY Zenon, <1>5 DEF CustomAppend, Appending
  <2>2. b \in Block /\ b # None /\ Filled(Parent(b)) /\ byHeight \in [Heights -> Chain]
    BY Zenon, <2>1, JobFacts, ChainLen DEF NoHoles, IInv, Types
  <2> HIDE DEF b
  <2>3. ASSUME NEW a \in Block PROVE byHeight'[Height(a)] \in {byHeight[Height(a)], b}
    BY Zenon, <2>1, <2>2, AboveHeight
  <2>4. ASSUME NEW x, Filled(x), NEW a \in Block, Above(x, a) PROVE byHeight'[Height(a)] # None
    BY Zenon, <2>2, <2>3, <2>4 DEF Filled
  <2>5. ASSUME NEW a \in Block, Above(b, a) PROVE byHeight'[Height(a)] # None
    <3>1. CASE a = b
      BY Zenon, <2>1, <2>2, <3>1, AboveHeight
    <3>2. CASE a # b
      BY Zenon, <2>2, <2>4, <2>5, <3>2, AboveParent, ChainSeq
    <3> QED
      BY Zenon, <3>1, <3>2
  <2>6. committed' = committed \/ committed'.best = b
    BY <2>1 DEF Processed
  <2>7. synced => best' = b
    BY Zenon, <2>1 DEF Processed
  <2>8. Filled(committed.best)
    BY Zenon DEF NoHoles
  <2>9. \A a \in Block : Above(committed.best, a) => byHeight'[Height(a)] # None
    BY Zenon, <2>4, <2>8
  <2> QED
    BY Zenon, <1>0, <2>1, <2>5, <2>6, <2>7, <2>9 DEF NoHoles, Filled
<1>6. CASE Fatal
  <2>1. job # NoJob /\ job' = NoJob /\ UNCHANGED <<synced, best, current, byHeight, committed>>
    BY Zenon, <1>6 DEF Fatal, Refused, Removing, Appending
  <2>2. byHash' \subseteq Block
    <3>1. CASE Removing
      <4>1. job.iter \in Block
        BY Zenon, <2>1, <3>1, JobFacts DEF Removing
      <4>2. byHeight[Height(job.iter)] \in Block
        BY Zenon, <2>1, <4>1, CopiedBlock DEF NoHoles
      <4> QED
        BY Zenon, <1>6, <3>1, <4>2 DEF Fatal, CopyHeightIndexToHashIndex, NoHoles
    <3>2. CASE ~Removing
      BY Zenon, <1>6, <3>2 DEF Fatal, NoHoles
    <3> QED
      BY Zenon, <3>1, <3>2
  <2> QED
    BY Zenon, <1>0, <2>1, <2>2 DEF NoHoles, Filled
<1>7. CASE ProcessQueue
  <2>1. UNCHANGED <<best, synced, index>>
    BY Zenon, <1>7 DEF ProcessQueue, BlockConnected, ChainStateFlushed, thread
  <2>2. job' = job \/ (synced /\ job'.iter = best)
    BY <1>7 DEF ProcessQueue, BlockConnected, ChainStateFlushed, thread
  <2>3. committed' = committed \/ (synced /\ committed'.best = best)
    BY <1>7 DEF ProcessQueue, BlockConnected, ChainStateFlushed, Commit
  <2> QED
    BY Zenon, <1>0, <2>1, <2>2, <2>3 DEF NoHoles, Filled, index
<1>8. CASE Crash
  BY Zenon, <1>0, <1>8, AboveHeight DEF Crash, NoHoles, Filled
<1>9. CASE Restart
  <2>1. committed.muhash = committed.best
    BY Zenon, <1>9 DEF IInv, Committed, Restart, CustomInit
  <2> QED
    BY Zenon, <1>0, <1>9, <2>1 DEF Restart, NoHoles, Filled
<1>10. CASE StopRequest \/ FlushStateToDisk \/ UNCHANGED vars
  BY Zenon, <1>2, <1>10 DEF StopRequest, FlushStateToDisk, vars
<1>11. ASSUME NEW new \in Block, ActivateBestChainStep(new) PROVE NoHoles'
  BY Zenon, <1>2, <1>11 DEF ActivateBestChainStep
<1> QED
  BY Zenon, <1>3, <1>4, <1>5, <1>6, <1>7, <1>8, <1>9, <1>10, <1>11 DEF Next, Work

-----------------------------------------------------------------------------
(* The notifications that are still to come lead to the tip: the parent of *)
(* each block is below the block announced before it, and the tip is below *)
(* the last one.                                                           *)
Announced(q) == {n \in 1..Len(q) : q[n].kind = "connected"}

Linked(q, t) ==
    /\ \A i, j \in Announced(q) :
          i < j /\ (\A k \in Announced(q) : k <= i \/ j <= k) => Above(q[i].block, Parent(q[j].block))
    /\ \A i \in Announced(q) : (\A k \in Announced(q) : k <= i) => Above(q[i].block, t)

(* Where the index is, or will be when the work in hand is done. *)
Upcoming == IF job = NoJob THEN best ELSE job.block

(* The index meets one of them, or already has the tip. *)
Reaches(b, q, t) == Above(b, t) \/ \E i \in Announced(q) : Above(b, Parent(q[i].block))

Delivery ==
    /\ Linked(queue, tip)
    /\ Running /\ ~failed /\ synced => Reaches(Upcoming, queue, tip)
    /\ ~Running => queue = <<>>

LEMMA MinExists ==
    ASSUME NEW T, T \subseteq Nat, T # {}
    PROVE  \E n \in T : \A m \in T : n <= m
<1>1. PICK n \in T : \A m \in T : ~(<<m, n>> \in OpToRel(<, Nat))
  BY Zenon, WFMin, NatLessThanWellFounded
<1>2. \A m \in T : ~(m < n)
  BY Zenon, <1>1 DEF OpToRel
<1> QED
  BY <1>2

LEMMA MaxExists ==
    ASSUME NEW n \in Nat, NEW T, T \subseteq 1..n, T # {}
    PROVE  \E i \in T : \A m \in T : m <= i
<1> DEFINE U == {n - m : m \in T}
<1>0. \A m \in T : n - m \in Nat
  OBVIOUS
<1>1. U \subseteq Nat /\ U # {}
  BY Zenon, <1>0
<1> HIDE DEF U
<1>2. PICK u \in U : \A m \in U : u <= m
  BY Zenon, <1>1, MinExists
<1>3. PICK i \in T : u = n - i
  BY Zenon DEF U
<1>4. ASSUME NEW m \in T PROVE m <= i
  <2>1. n - m \in U
    BY Zenon DEF U
  <2>2. n - i <= n - m /\ i \in Nat /\ m \in Nat
    BY <1>2, <1>3, <2>1
  <2> QED
    BY <2>2
<1> QED
  BY Zenon, <1>4

LEMMA AnnouncedType ==
    ASSUME NEW q \in Seq(Note)
    PROVE  /\ Len(q) \in Nat /\ Announced(q) \subseteq 1..Len(q) /\ Announced(q) \subseteq Nat
           /\ \A n \in Announced(q) : /\ q[n] \in Note /\ q[n].block \in Block
                                      /\ q[n].block \in Chain /\ Parent(q[n].block) \in Chain
                                      /\ q[n] = Connected(q[n].block)
<1>1. Len(q) \in Nat /\ Announced(q) \subseteq 1..Len(q) /\ Announced(q) \subseteq Nat
  BY LenProperties DEF Announced
<1>2. ASSUME NEW n \in Announced(q)
      PROVE  /\ q[n] \in Note /\ q[n].block \in Block
             /\ q[n].block \in Chain /\ Parent(q[n].block) \in Chain
             /\ q[n] = Connected(q[n].block)
  <2>1. q[n] \in Note
    BY Zenon, <1>1, ElementOfSeq
  <2>2. q[n].block \in Block /\ q[n].kind = "connected"
    BY Zenon, <2>1 DEF Note, Announced
  <2>3. q[n] = Connected(q[n].block)
    BY Zenon, <2>1, <2>2 DEF Note, Connected
  <2> QED
    BY Zenon, <2>1, <2>2, <2>3, ChainSeq, ParentChain
<1> QED
  BY Zenon, <1>1, <1>2

(* An index that reaches the tip has it, or will be told of it. *)
LEMMA ReachesTip ==
    ASSUME NEW q \in Seq(Note), NEW t \in Chain, NEW b \in Chain, Linked(q, t), Reaches(b, q, t)
    PROVE  Above(b, t) \/ \E n \in 1..Len(q) : q[n] = Connected(t)
<1> SUFFICES ASSUME NEW s \in Announced(q), Above(b, Parent(q[s].block))
             PROVE  Above(b, t) \/ \E n \in 1..Len(q) : q[n] = Connected(t)
  BY Zenon DEF Reaches
<1>0. Len(q) \in Nat /\ Announced(q) \subseteq 1..Len(q) /\ Announced(q) \subseteq Nat
  BY Zenon, AnnouncedType
<1> DEFINE T == {n \in Announced(q) : s <= n /\ Above(q[n].block, t)}
<1>1. T # {}
  <2>1. PICK m \in Announced(q) : \A k \in Announced(q) : k <= m
    BY Zenon, <1>0, MaxExists
  <2>2. Above(q[m].block, t) /\ s <= m
    BY Zenon, <2>1 DEF Linked
  <2> QED
    BY Zenon, <2>2
<1>2. PICK m \in T : \A k \in T : m <= k
  BY Zenon, <1>0, <1>1, MinExists
<1>3. m \in Announced(q) /\ s <= m /\ Above(q[m].block, t) /\ m \in Nat /\ s \in Nat
  BY Zenon, <1>0
<1>4. ASSUME q[m].block # t PROVE Above(b, t)
  <2>1. Above(Parent(q[m].block), t) /\ Parent(q[m].block) \in Chain
    BY Zenon, <1>3, <1>4, AnnouncedType, AboveParent
  <2>2. CASE m = s
    BY Zenon, <2>1, <2>2, AboveTrans
  <2>3. CASE m # s
    <3> DEFINE P == {n \in Announced(q) : n < m}
    <3>1. s \in P /\ P \subseteq 1..Len(q)
      BY <1>0, <1>3, <2>3
    <3>2. PICK p \in P : \A k \in P : k <= p
      BY Zenon, <1>0, <3>1, MaxExists
    <3>3. p \in Announced(q) /\ p \in Nat /\ p < m /\ s <= p
      BY Zenon, <1>0, <3>1, <3>2
    <3>4. \A k \in Announced(q) : k <= p \/ m <= k
      BY <1>0, <1>3, <3>2
    <3>5. Above(q[p].block, Parent(q[m].block))
      BY Zenon, <1>3, <3>3, <3>4 DEF Linked
    <3>6. Above(q[p].block, t)
      BY Zenon, <2>1, <3>3, <3>5, AboveTrans, AnnouncedType
    <3>7. p \in T
      BY Zenon, <3>3, <3>6
    <3> QED
      BY <1>2, <1>3, <3>3, <3>7
  <2> QED
    BY Zenon, <2>2, <2>3
<1>5. ASSUME q[m].block = t PROVE \E n \in 1..Len(q) : q[n] = Connected(t)
  BY Zenon, <1>0, <1>3, <1>5, AnnouncedType
<1> QED
  BY Zenon, <1>4, <1>5

-----------------------------------------------------------------------------
(* What a step of ActivateBestChain announces leads from its old tip to    *)
(* its new one.                                                            *)
Path(r, t, new) ==
    /\ \A i \in 1..Len(r) : r[i].kind = "connected"
    /\ Len(r) = 0 => Above(t, new)
    /\ Len(r) > 0 => Above(t, Parent(r[1].block)) /\ r[Len(r)].block = new
    /\ \A i \in 1..Len(r) - 1 : Parent(r[i + 1].block) = r[i].block

LEMMA AboveAncestor ==
    ASSUME NEW b \in Chain, NEW n \in 0..Len(b)
    PROVE  Above(b, Ancestor(b, n))
<1>1. b \in Seq(Label) /\ Len(b) \in Nat
  BY Zenon, ChainSeq, ChainLen
<1>2. Len(Ancestor(b, n)) = n
  BY Zenon, <1>1, AncestorSeq
<1> QED
  BY <1>1, <1>2 DEF Above

LEMMA ParentOfAncestor ==
    ASSUME NEW b \in Block, NEW n \in 1..Len(b)
    PROVE  Parent(Ancestor(b, n)) = Ancestor(b, n - 1)
<1> DEFINE c == Ancestor(b, n)
<1>1. b \in Seq(Label) /\ Len(b) \in Nat /\ n \in 0..Len(b) /\ n - 1 \in 0..Len(b)
  BY ChainSeq, ChainLen
<1>2. c \in Block /\ Len(c) = n /\ \A i \in 1..n : c[i] = b[i]
  BY Zenon, <1>1, AncestorBlock, AncestorSeq
<1> HIDE DEF c
<1>3. /\ Parent(c) \in Seq(Label) /\ Len(Parent(c)) = n - 1
      /\ \A i \in 1..n - 1 : Parent(c)[i] = c[i]
  BY Zenon, <1>2, ParentChain, ChainSeq
<1>4. /\ Ancestor(b, n - 1) \in Seq(Label) /\ Len(Ancestor(b, n - 1)) = n - 1
      /\ \A i \in 1..n - 1 : Ancestor(b, n - 1)[i] = b[i]
  BY Zenon, <1>1, AncestorSeq
<1>5. \A i \in 1..n - 1 : i \in 1..n
  BY <1>1
<1>6. \A i \in 1..n - 1 : Parent(c)[i] = Ancestor(b, n - 1)[i]
  BY Zenon, <1>2, <1>3, <1>4, <1>5
<1>7. Parent(c) = Ancestor(b, n - 1)
  BY Zenon, <1>3, <1>4, <1>6, SeqEqual
<1> QED
  BY Zenon, <1>7 DEF c

LEMMA NotesPath ==
    ASSUME NEW new \in Block, tip \in Chain
    PROVE  Path(Notes(new), tip, new)
<1>0. /\ new \in Chain /\ tip \in Seq(Label) /\ new \in Seq(Label)
      /\ Len(tip) \in Nat /\ Len(new) \in Nat
  BY Zenon, ChainSeq, ChainLen
<1>1. PICK m \in 0..Len(tip) : /\ FindFork(tip, new) = Ancestor(tip, m) /\ m <= Len(new)
                               /\ Ancestor(tip, m) = Ancestor(new, m)
  BY Zenon, <1>0, ForkExists
<1>2. Len(FindFork(tip, new)) = m
  BY Zenon, <1>0, <1>1, AncestorSeq
<1> DEFINE r == Notes(new)
<1>3. r = [n \in 1..Len(new) - m |-> Connected(Ancestor(new, m + n))]
  BY Zenon, <1>2 DEF Notes
<1>4. Len(new) - m \in Nat /\ m \in Nat
  BY <1>0, <1>1
<1>5. r \in Seq(Note) /\ Len(r) = Len(new) - m
  <2>1. r \in Seq(Note)
    BY Zenon, NotesType
  <2> HIDE DEF r
  <2>2. DOMAIN r = 1..Len(new) - m
    BY Zenon, <1>3
  <2>3. Len(r) \in Nat /\ DOMAIN r = 1..Len(r)
    BY Zenon, <2>1, LenProperties
  <2>4. \A a, b \in Nat : 1..a = 1..b => a = b
    <3> SUFFICES ASSUME NEW a \in Nat, NEW b \in Nat, 1..a = 1..b PROVE a = b
      BY Zenon
    <3>1. (a > 0 => a \in 1..b) /\ (b > 0 => b \in 1..a)
      OBVIOUS
    <3> QED
      BY <3>1
  <2> QED
    BY Zenon, <1>4, <2>1, <2>2, <2>3, <2>4
<1> HIDE DEF r
<1>6. ASSUME NEW n \in 1..Len(r) PROVE r[n].kind = "connected" /\ r[n].block = Ancestor(new, m + n)
  <2>1. r[n] = Connected(Ancestor(new, m + n))
    BY Zenon, <1>3, <1>5
  <2> QED
    BY <2>1 DEF Connected
<1>7. ASSUME NEW n \in 1..Len(r) PROVE Parent(r[n].block) = Ancestor(new, m + n - 1)
  <2>1. m + n \in 1..Len(new)
    BY <1>0, <1>4, <1>5
  <2> QED
    BY <1>6, <2>1, ParentOfAncestor
<1>8. Ancestor(new, Len(new)) = new /\ Above(tip, Ancestor(tip, m))
  BY Zenon, <1>0, AncestorSelf, AboveAncestor
<1>9. ASSUME Len(r) = 0 PROVE Above(tip, new)
  <2>1. m = Len(new)
    BY <1>0, <1>4, <1>5, <1>9
  <2> QED
    BY Zenon, <1>1, <1>8, <2>1
<1>10. ASSUME Len(r) > 0 PROVE Above(tip, Parent(r[1].block)) /\ r[Len(r)].block = new
  <2>1. 1 \in 1..Len(r) /\ Len(r) \in 1..Len(r) /\ m + 1 - 1 = m /\ m + Len(r) = Len(new)
    BY <1>0, <1>4, <1>5, <1>10
  <2>2. Parent(r[1].block) = Ancestor(new, m)
    BY Zenon, <1>7, <2>1
  <2> QED
    BY Zenon, <1>1, <1>6, <1>8, <2>1, <2>2
<1>11. ASSUME NEW i \in 1..Len(r) - 1 PROVE Parent(r[i + 1].block) = r[i].block
  <2>1. i \in 1..Len(r) /\ i + 1 \in 1..Len(r) /\ m + (i + 1) - 1 = m + i
    BY <1>4, <1>5
  <2>2. Parent(r[i + 1].block) = Ancestor(new, m + (i + 1) - 1)
    BY Zenon, <1>7, <2>1
  <2> QED
    BY Zenon, <1>6, <2>1, <2>2
<1> QED
  BY Zenon, <1>6, <1>9, <1>10, <1>11 DEF Path, r

LEMMA AnnouncedConcat ==
    ASSUME NEW q \in Seq(Note), NEW r \in Seq(Note), NEW t, NEW new, Path(r, t, new)
    PROVE  /\ \A i \in 1..Len(q) : (q \o r)[i] = q[i]
           /\ \A i \in 1..Len(r) : (q \o r)[Len(q) + i] = r[i]
           /\ Announced(q) \subseteq Announced(q \o r)
           /\ \A i \in 1..Len(r) : Len(q) + i \in Announced(q \o r)
           /\ \A n \in Announced(q \o r) : n \in Announced(q) \/ \E i \in 1..Len(r) : n = Len(q) + i
<1>1. Len(q) \in Nat /\ Len(r) \in Nat /\ Len(q \o r) = Len(q) + Len(r)
  BY Zenon, LenProperties, ConcatProperties
<1>2. \A i \in 1..Len(q) + Len(r) : (q \o r)[i] = IF i <= Len(q) THEN q[i] ELSE r[i - Len(q)]
  BY Zenon, ConcatProperties
<1>3. \A i \in 1..Len(q) : (q \o r)[i] = q[i]
  BY <1>1, <1>2
<1>4. ASSUME NEW i \in 1..Len(r) PROVE (q \o r)[Len(q) + i] = r[i]
  <2>1. Len(q) + i \in 1..Len(q) + Len(r) /\ ~(Len(q) + i <= Len(q)) /\ Len(q) + i - Len(q) = i
    BY <1>1
  <2> QED
    BY <1>2, <2>1
<1>5. ASSUME NEW i \in Announced(q) PROVE i \in Announced(q \o r)
  <2>1. i \in 1..Len(q) /\ i \in 1..Len(q \o r) /\ q[i].kind = "connected"
    BY <1>1 DEF Announced
  <2> QED
    BY Zenon, <1>3, <2>1 DEF Announced
<1>6. ASSUME NEW i \in 1..Len(r) PROVE Len(q) + i \in Announced(q \o r)
  <2>1. Len(q) + i \in 1..Len(q \o r) /\ r[i].kind = "connected"
    BY <1>1 DEF Path
  <2> QED
    BY Zenon, <1>4, <2>1 DEF Announced
<1>7. ASSUME NEW n \in Announced(q \o r)
      PROVE  n \in Announced(q) \/ \E i \in 1..Len(r) : n = Len(q) + i
  <2>1. n \in 1..Len(q) + Len(r) /\ (q \o r)[n].kind = "connected"
    BY Zenon, <1>1 DEF Announced
  <2>2. CASE n <= Len(q)
    BY <1>1, <1>3, <2>1, <2>2 DEF Announced
  <2>3. CASE ~(n <= Len(q))
    <3>1. n - Len(q) \in 1..Len(r) /\ n = Len(q) + (n - Len(q))
      BY <1>1, <2>1, <2>3
    <3> QED
      BY Zenon, <3>1
  <2> QED
    BY Zenon, <2>2, <2>3
<1> QED
  BY Zenon, <1>3, <1>4, <1>5, <1>6, <1>7

LEMMA LinkedConcat ==
    ASSUME NEW q \in Seq(Note), NEW r \in Seq(Note), NEW t \in Chain, NEW new \in Block,
           Linked(q, t), Path(r, t, new)
    PROVE  Linked(q \o r, new)
<1> DEFINE s == q \o r
<1>0. /\ Len(q) \in Nat /\ Len(r) \in Nat /\ new \in Chain /\ s \in Seq(Note)
      /\ Announced(q) \subseteq 1..Len(q) /\ Announced(s) \subseteq Nat
  BY Zenon, LenProperties, ConcatProperties, AnnouncedType, ChainSeq
<1>1. /\ \A i \in 1..Len(q) : s[i] = q[i]
      /\ \A i \in 1..Len(r) : s[Len(q) + i] = r[i]
      /\ Announced(q) \subseteq Announced(s)
      /\ \A i \in 1..Len(r) : Len(q) + i \in Announced(s)
      /\ \A n \in Announced(s) : n \in Announced(q) \/ \E i \in 1..Len(r) : n = Len(q) + i
  BY Zenon, AnnouncedConcat
<1>2. \A i \in Announced(s) : s[i].block \in Chain /\ Parent(s[i].block) \in Chain
  BY Zenon, <1>0, AnnouncedType
<1> HIDE DEF s
<1>3. ASSUME NEW i \in Announced(s), \A k \in Announced(s) : k <= i PROVE Above(s[i].block, new)
  <2>1. CASE Len(r) = 0
    <3>1. i \in Announced(q) /\ s[i] = q[i]
      BY <1>0, <1>1, <2>1
    <3>2. Above(s[i].block, t) /\ Above(t, new)
      BY Zenon, <1>1, <1>3, <2>1, <3>1 DEF Linked, Path
    <3> QED
      BY Zenon, <1>0, <1>2, <3>2, AboveTrans
  <2>2. CASE Len(r) > 0
    <3>1. Len(r) \in 1..Len(r) /\ Len(q) + Len(r) <= i
      BY <1>0, <1>1, <1>3, <2>2
    <3>2. i = Len(q) + Len(r)
      <4>1. CASE i \in Announced(q)
        BY <1>0, <2>2, <3>1, <4>1
      <4>2. ASSUME NEW v \in 1..Len(r), i = Len(q) + v PROVE i = Len(q) + Len(r)
        BY <1>0, <3>1, <4>2
      <4> QED
        BY Zenon, <1>1, <4>1, <4>2
    <3>3. s[i].block = new
      BY Zenon, <1>1, <2>2, <3>1, <3>2 DEF Path
    <3> QED
      BY Zenon, <1>0, <3>3, AboveRefl
  <2> QED
    BY <1>0, <2>1, <2>2
<1>4. ASSUME NEW i \in Announced(s), NEW j \in Announced(s), i < j,
             \A k \in Announced(s) : k <= i \/ j <= k
      PROVE  Above(s[i].block, Parent(s[j].block))
  <2>1. CASE j \in Announced(q)
    <3>1. i \in Announced(q)
      BY <1>0, <1>1, <1>4, <2>1
    <3>2. s[i] = q[i] /\ s[j] = q[j]
      BY Zenon, <1>0, <1>1, <2>1, <3>1
    <3> QED
      BY Zenon, <1>1, <1>4, <2>1, <3>1, <3>2 DEF Linked
  <2>2. ASSUME NEW v \in 1..Len(r), j = Len(q) + v, i \in Announced(q)
        PROVE  Above(s[i].block, Parent(s[j].block))
    <3>1. 1 \in 1..Len(r) /\ i <= Len(q)
      BY <1>0, <2>2
    <3>2. j <= Len(q) + 1
      BY <1>0, <1>1, <1>4, <3>1
    <3>3. v = 1
      BY <1>0, <2>2, <3>2
    <3>4. \A k \in Announced(q) : k <= i
      BY <1>0, <1>1, <1>4, <2>2
    <3>5. Above(q[i].block, t) /\ Above(t, Parent(r[1].block))
      <4>1. Above(q[i].block, t)
        BY Zenon, <1>0, <2>2, <3>4 DEF Linked
      <4>2. Len(r) > 0
        BY <1>0, <3>1
      <4> QED BY Zenon, <1>0, <4>1, <4>2 DEF Path
    <3>6. s[i] = q[i] /\ s[j] = r[1]
      BY Zenon, <1>0, <1>1, <2>2, <3>1, <3>3
    <3> QED
      BY Zenon, <1>2, <3>5, <3>6, AboveTrans
  <2>3. ASSUME NEW u \in 1..Len(r), NEW v \in 1..Len(r), i = Len(q) + u, j = Len(q) + v
        PROVE  Above(s[i].block, Parent(s[j].block))
    <3>1. u + 1 \in 1..Len(r) /\ u \in 1..Len(r) - 1
      BY <1>0, <1>4, <2>3
    <3>2. j <= Len(q) + (u + 1)
      BY <1>0, <1>1, <1>4, <2>3, <3>1
    <3>3. v = u + 1
      BY <1>0, <1>4, <2>3, <3>2
    <3>4. Parent(s[j].block) = s[i].block
      BY Zenon, <1>1, <2>3, <3>1, <3>3 DEF Path
    <3> QED
      BY Zenon, <1>2, <3>4, AboveRefl
  <2> QED
    BY Zenon, <1>1, <2>1, <2>2, <2>3
<1> QED
  BY Zenon, <1>3, <1>4 DEF Linked, s

LEMMA ReachesConcat ==
    ASSUME NEW q \in Seq(Note), NEW r \in Seq(Note), NEW t \in Chain, NEW new \in Block, NEW b \in Chain,
           Path(r, t, new), Reaches(b, q, t)
    PROVE  Reaches(b, q \o r, new)
<1>0. Len(q) \in Nat /\ Len(r) \in Nat /\ new \in Chain /\ Announced(q) \subseteq 1..Len(q)
  BY Zenon, LenProperties, AnnouncedType, ChainSeq
<1>1. /\ \A i \in 1..Len(q) : (q \o r)[i] = q[i]
      /\ \A i \in 1..Len(r) : (q \o r)[Len(q) + i] = r[i]
      /\ Announced(q) \subseteq Announced(q \o r)
      /\ \A i \in 1..Len(r) : Len(q) + i \in Announced(q \o r)
  BY Zenon, AnnouncedConcat
<1>2. ASSUME NEW i \in Announced(q), Above(b, Parent(q[i].block)) PROVE Reaches(b, q \o r, new)
  BY Zenon, <1>0, <1>1, <1>2 DEF Reaches
<1>3. CASE Above(b, t) /\ Len(r) = 0
  BY Zenon, <1>0, <1>3, AboveTrans DEF Reaches, Path
<1>4. CASE Above(b, t) /\ Len(r) > 0
  <2>1. 1 \in 1..Len(r) /\ Above(t, Parent(r[1].block))
    BY <1>0, <1>4 DEF Path
  <2>2. r[1].block \in Block
    <3>1. r[1] \in Note
      BY Zenon, <2>1, ElementOfSeq
    <3> QED
      BY Zenon, <3>1 DEF Note
  <2>3. Parent(r[1].block) \in Chain
    BY Zenon, <2>2, ParentChain
  <2>4. Above(b, Parent(r[1].block))
    BY Zenon, <1>4, <2>1, <2>3, AboveTrans
  <2> QED
    BY Zenon, <1>1, <2>1, <2>4 DEF Reaches
<1>5. Len(r) = 0 \/ Len(r) > 0
  BY <1>0
<1>6. Above(b, t) \/ \E i \in Announced(q) : Above(b, Parent(q[i].block))
  BY Zenon DEF Reaches
<1> QED
  BY Zenon, <1>2, <1>3, <1>4, <1>5, <1>6

(* The notification of a flush changes nothing of this. *)
LEMMA FlushedLinked ==
    ASSUME NEW q \in Seq(Note), NEW t \in Chain, NEW c \in Block, Linked(q, t)
    PROVE  /\ Append(q, Flushed(c)) \in Seq(Note)
           /\ Linked(Append(q, Flushed(c)), t)
           /\ \A b : Reaches(b, q, t) => Reaches(b, Append(q, Flushed(c)), t)
<1> DEFINE s == Append(q, Flushed(c))
<1>1. Flushed(c) \in Note /\ Flushed(c).kind = "flushed"
  BY Zenon DEF Flushed, Note
<1>2. /\ s \in Seq(Note) /\ Len(s) = Len(q) + 1 /\ Len(q) \in Nat
      /\ \A i \in 1..Len(q) : s[i] = q[i]
      /\ s[Len(q) + 1] = Flushed(c)
  BY <1>1, AppendProperties, LenProperties
<1> HIDE DEF s
<1>3. ASSUME NEW n PROVE n \in Announced(s) <=> n \in Announced(q)
  <2>1. CASE n \in 1..Len(q)
    BY <1>2, <2>1 DEF Announced
  <2>2. CASE n = Len(q) + 1
    BY Zenon, <1>1, <1>2, <2>2 DEF Announced
  <2>3. n \in 1..Len(s) <=> n \in 1..Len(q) \/ n = Len(q) + 1
    BY <1>2
  <2> QED
    BY Zenon, <1>2, <2>1, <2>2, <2>3 DEF Announced
<1>4. Announced(s) = Announced(q) /\ Announced(q) \subseteq 1..Len(q)
  BY Zenon, <1>3, AnnouncedType
<1>5. \A i \in Announced(q) : s[i] = q[i]
  BY Zenon, <1>2, <1>4
<1>6. Linked(s, t)
  BY <1>4, <1>5 DEF Linked
<1>7. \A b : Reaches(b, q, t) => Reaches(b, s, t)
  BY Zenon, <1>4, <1>5 DEF Reaches
<1> QED
  BY Zenon, <1>2, <1>6, <1>7 DEF s

(* What the first notification does. *)
LEMMA TailAnnounced ==
    ASSUME NEW q \in Seq(Note), q # <<>>
    PROVE  /\ \A i \in Announced(Tail(q)) : i + 1 \in Announced(q) /\ Tail(q)[i] = q[i + 1]
           /\ \A i \in Announced(q) : i # 1 => i - 1 \in Announced(Tail(q)) /\ Tail(q)[i - 1] = q[i]
           /\ 1 \in Announced(q) <=> Head(q).kind = "connected"
<1>1. /\ Len(q) \in Nat /\ Len(Tail(q)) = Len(q) - 1
      /\ \A i \in 1..Len(q) - 1 : Tail(q)[i] = q[i + 1]
  BY Zenon, LenProperties, HeadTailProperties
<1>2. Len(q) >= 1 /\ Head(q) = q[1]
  BY <1>1, EmptySeq
<1>3. ASSUME NEW i \in Announced(Tail(q)) PROVE i + 1 \in Announced(q) /\ Tail(q)[i] = q[i + 1]
  <2>1. i \in 1..Len(q) - 1 /\ i + 1 \in 1..Len(q) /\ Tail(q)[i].kind = "connected"
    BY <1>1 DEF Announced
  <2> QED
    BY Zenon, <1>1, <2>1 DEF Announced
<1>4. ASSUME NEW i \in Announced(q), i # 1
      PROVE  i - 1 \in Announced(Tail(q)) /\ Tail(q)[i - 1] = q[i]
  <2>1. i - 1 \in 1..Len(q) - 1 /\ i - 1 + 1 = i /\ q[i].kind = "connected"
    BY <1>1, <1>4 DEF Announced
  <2>2. Tail(q)[i - 1] = q[i]
    BY Zenon, <1>1, <2>1
  <2> QED
    BY Zenon, <1>1, <2>1, <2>2 DEF Announced
<1>5. 1 \in Announced(q) <=> Head(q).kind = "connected"
  BY <1>1, <1>2 DEF Announced
<1> QED
  BY Zenon, <1>3, <1>4, <1>5

LEMMA LinkedTail ==
    ASSUME NEW q \in Seq(Note), NEW t, q # <<>>, Linked(q, t)
    PROVE  Linked(Tail(q), t)
<1>1. Tail(q) \in Seq(Note) /\ Announced(q) \subseteq Nat /\ Announced(Tail(q)) \subseteq Nat
  BY Zenon, HeadTailProperties, AnnouncedType
<1>2. /\ Announced(q) \subseteq 1..Len(q) /\ Announced(Tail(q)) \subseteq 1..Len(Tail(q))
      /\ Len(q) \in Nat /\ Len(Tail(q)) \in Nat
  BY Zenon, <1>1, AnnouncedType
<1>3. ASSUME NEW i \in Announced(Tail(q)), NEW j \in Announced(Tail(q)), i < j,
             \A k \in Announced(Tail(q)) : k <= i \/ j <= k
      PROVE  Above(Tail(q)[i].block, Parent(Tail(q)[j].block))
  <2>1. /\ i + 1 \in Announced(q) /\ Tail(q)[i] = q[i + 1] /\ i \in 1..Len(Tail(q))
        /\ j + 1 \in Announced(q) /\ Tail(q)[j] = q[j + 1] /\ j \in 1..Len(Tail(q))
    BY Zenon, <1>2, TailAnnounced
  <2>2. i + 1 < j + 1
    BY <1>2, <1>3, <2>1
  <2>3. ASSUME NEW k \in Announced(q) PROVE k <= i + 1 \/ j + 1 <= k
    <3>1. CASE k = 1
      BY <1>2, <2>1, <3>1
    <3>2. CASE k # 1
      <4>1. k - 1 \in Announced(Tail(q)) /\ k \in Nat
        BY Zenon, <1>1, <3>2, TailAnnounced
      <4>2. k - 1 <= i \/ j <= k - 1
        BY Zenon, <1>3, <4>1
      <4> QED
        BY <1>2, <2>1, <4>1, <4>2
    <3> QED
      BY Zenon, <3>1, <3>2
  <2> QED
    BY Zenon, <2>1, <2>2, <2>3 DEF Linked
<1>4. ASSUME NEW i \in Announced(Tail(q)), \A k \in Announced(Tail(q)) : k <= i
      PROVE  Above(Tail(q)[i].block, t)
  <2>1. i + 1 \in Announced(q) /\ Tail(q)[i] = q[i + 1] /\ i \in 1..Len(Tail(q))
    BY Zenon, <1>2, TailAnnounced
  <2>2. ASSUME NEW k \in Announced(q) PROVE k <= i + 1
    <3>1. CASE k = 1
      BY <1>2, <2>1, <3>1
    <3>2. CASE k # 1
      <4>1. k - 1 \in Announced(Tail(q)) /\ k \in Nat
        BY Zenon, <1>1, <3>2, TailAnnounced
      <4>2. k - 1 <= i
        BY Zenon, <1>4, <4>1
      <4> QED
        BY <1>2, <2>1, <4>1, <4>2
    <3> QED
      BY Zenon, <3>1, <3>2
  <2> QED
    BY Zenon, <2>1, <2>2 DEF Linked
<1> QED
  BY Zenon, <1>3, <1>4 DEF Linked

LEMMA ReachesTail ==
    ASSUME NEW q \in Seq(Note), NEW t, NEW b, q # <<>>, Linked(q, t), Reaches(b, q, t)
    PROVE  /\ Head(q).kind # "connected" \/ ~Above(b, Parent(Head(q).block)) => Reaches(b, Tail(q), t)
           /\ Head(q).kind = "connected" => Reaches(Head(q).block, Tail(q), t)
<1>0. Announced(q) \subseteq Nat /\ Head(q) = q[1]
  BY AnnouncedType
<1>1. ASSUME Head(q).kind # "connected" \/ ~Above(b, Parent(Head(q).block)) PROVE Reaches(b, Tail(q), t)
  <2>1. ASSUME NEW i \in Announced(q), Above(b, Parent(q[i].block)) PROVE Reaches(b, Tail(q), t)
    <3>1. i # 1
      BY Zenon, <1>0, <1>1, <2>1, TailAnnounced
    <3> QED
      BY Zenon, <2>1, <3>1, TailAnnounced DEF Reaches
  <2> QED
    BY Zenon, <2>1 DEF Reaches
<1>2. ASSUME Head(q).kind = "connected" PROVE Reaches(Head(q).block, Tail(q), t)
  <2>0. 1 \in Announced(q)
    BY Zenon, <1>2, TailAnnounced
  <2> DEFINE T == {n \in Announced(q) : n > 1}
  <2>1. CASE T = {}
    <3>1. \A k \in Announced(q) : k <= 1
      BY <1>0, <2>1
    <3> QED
      BY Zenon, <1>0, <2>0, <3>1 DEF Linked, Reaches
  <2>2. CASE T # {}
    <3>1. PICK j \in T : \A k \in T : j <= k
      BY Zenon, <1>0, <2>2, MinExists
    <3>2. j \in Announced(q) /\ 1 < j /\ j # 1
      BY <1>0, <3>1
    <3>3. ASSUME NEW k \in Announced(q) PROVE k <= 1 \/ j <= k
      BY <1>0, <3>1
    <3>4. Above(q[1].block, Parent(q[j].block))
      BY Zenon, <2>0, <3>2, <3>3 DEF Linked
    <3> QED
      BY Zenon, <1>0, <3>2, <3>4, TailAnnounced DEF Reaches
  <2> QED
    BY Zenon, <2>1, <2>2
<1> QED
  BY Zenon, <1>1, <1>2

-----------------------------------------------------------------------------
LEMMA InitDelivery == Init => Delivery
<1> SUFFICES ASSUME Init PROVE Delivery
  BY Zenon
<1>1. Announced(queue) = {} /\ Running
  BY DEF Init, Announced, Running
<1>2. synced => Above(Upcoming, tip)
  BY Zenon, AboveRefl, ChainSeq DEF Init, Upcoming
<1> QED
  BY Zenon, <1>1, <1>2 DEF Delivery, Linked, Reaches

LEMMA UpcomingChain == IInv => Upcoming \in Chain
  BY Zenon DEF IInv, Types, Upcoming

LEMMA ActivateDelivery ==
    ASSUME IInv, Delivery, NEW new \in Block, ActivateBestChainStep(new)
    PROVE  Delivery'
<1>1. /\ tip \in Chain /\ queue \in Seq(Note) /\ Upcoming \in Chain /\ Notes(new) \in Seq(Note)
      /\ Path(Notes(new), tip, new)
  BY Zenon, UpcomingChain, NotesType, NotesPath DEF IInv, Types
<1>2. tip' = new /\ Running /\ Running' /\ failed' = failed /\ synced' = synced /\ Upcoming' = Upcoming
  BY Zenon DEF ActivateBestChainStep, Running, life, thread, Upcoming, NoJob
<1>3. ASSUME NEW q \in Seq(Note), queue' = q \o Notes(new), Linked(q, tip),
             Reaches(Upcoming, queue, tip) => Reaches(Upcoming, q, tip)
      PROVE  Delivery'
  <2>1. Linked(queue', new)
    BY Zenon, <1>1, <1>3, LinkedConcat
  <2>2. Reaches(Upcoming, queue, tip) => Reaches(Upcoming, queue', new)
    BY Zenon, <1>1, <1>3, ReachesConcat
  <2> QED
    BY Zenon, <1>2, <2>1, <2>2 DEF Delivery
<1>4. CASE queue' = queue \o Notes(new)
  BY Zenon, <1>1, <1>3, <1>4 DEF Delivery
<1>5. ASSUME NEW f \in FlushesTo(new), None \notin {f[1], f[2]},
             queue' = Append(queue, Flushed(f[2])) \o Notes(new)
      PROVE  Delivery'
  <2>1. f[2] \in Block
    BY Zenon, <1>1, <1>5, FlushesToType
  <2>2. /\ Append(queue, Flushed(f[2])) \in Seq(Note) /\ Linked(Append(queue, Flushed(f[2])), tip)
        /\ Reaches(Upcoming, queue, tip) => Reaches(Upcoming, Append(queue, Flushed(f[2])), tip)
    BY Zenon, <1>1, <2>1, FlushedLinked DEF Delivery
  <2> QED
    BY Zenon, <1>3, <1>5, <2>2
<1> QED
  BY Zenon, <1>4, <1>5 DEF ActivateBestChainStep

LEMMA FlushDelivery ==
    ASSUME IInv, Delivery, FlushStateToDisk
    PROVE  Delivery'
<1>1. tip \in Block /\ tip \in Chain /\ queue \in Seq(Note) /\ queue' = Append(queue, Flushed(tip))
  BY Zenon DEF IInv, Types, Chain, FlushStateToDisk
<1>2. Linked(queue', tip) /\ (Reaches(Upcoming, queue, tip) => Reaches(Upcoming, queue', tip))
  BY Zenon, <1>1, FlushedLinked DEF Delivery
<1>3. /\ tip' = tip /\ Running /\ Running' /\ failed' = failed /\ synced' = synced
      /\ Upcoming' = Upcoming
  BY Zenon DEF FlushStateToDisk, Running, life, thread, Upcoming, NoJob
<1> QED
  BY Zenon, <1>2, <1>3 DEF Delivery

(* m_synced is set when there is no block to index, with cs_main held. *)
LEMMA SyncDelivery ==
    ASSUME IInv, Delivery, Sync
    PROVE  Delivery'
<1>1. /\ tip' = tip /\ queue' = queue /\ Running /\ Running' /\ ~synced /\ tip \in Chain
  BY Zenon DEF Sync, SyncNext, SyncCheck, SyncInterrupted, node, Running, life, IInv, Types, Threads
<1>2. ASSUME synced' PROVE Above(Upcoming', tip)
  <2>1. SyncCheck /\ NextSyncBlock(sync.pindex) = None /\ best' = best /\ job' = job
    BY Zenon, <1>1, <1>2 DEF Sync, SyncNext, SyncCheck, SyncInterrupted
  <2>2. sync.pindex = current /\ best = current /\ current \in Chain /\ job = NoJob
    BY Zenon, <1>1, <2>1 DEF SyncCheck, IInv, Types, Threads
  <2>3. Above(best, tip)
    BY Zenon, <1>1, <2>1, <2>2, NextSyncBlockNone
  <2> QED
    BY Zenon, <2>1, <2>2, <2>3 DEF Upcoming, NoJob
<1> QED
  BY Zenon, <1>1, <1>2 DEF Delivery, Reaches

LEMMA WorkDelivery ==
    ASSUME IInv, Delivery, Work
    PROVE  Delivery'
<1>1. /\ tip' = tip /\ queue' = queue /\ Running /\ synced' = synced /\ job # NoJob /\ NoJob' = NoJob
      /\ job.block \in Block
  BY Zenon, JobFacts DEF Work, CustomRemove, CustomAppend, Fatal, Refused, Removing, Appending, node, NoJob
<1>2. CASE CustomRemove
  <2>1. job'.block = job.block /\ mode' = mode /\ failed' = failed
    BY Zenon, <1>2 DEF CustomRemove, IInv, Types, life
  <2>2. job' # NoJob
    BY <1>1, <2>1, ChainLen DEF NoJob
  <2>3. Upcoming' = Upcoming /\ Running'
    BY Zenon, <1>1, <2>1, <2>2 DEF Upcoming, Running
  <2> QED
    BY Zenon, <1>1, <2>1, <2>3 DEF Delivery
<1>3. CASE CustomAppend
  <2>1. job' = NoJob /\ (synced => best' = job.block) /\ mode' = mode /\ failed' = failed
    BY Zenon, <1>3 DEF CustomAppend, Processed, life
  <2>2. (synced => Upcoming' = Upcoming) /\ Running'
    BY Zenon, <1>1, <2>1 DEF Upcoming, Running
  <2> QED
    BY Zenon, <1>1, <2>1, <2>2 DEF Delivery
<1>4. CASE Fatal
  BY Zenon, <1>1, <1>4 DEF Fatal, Delivery, Running
<1> QED
  BY Zenon, <1>2, <1>3, <1>4 DEF Work

LEMMA QueueDelivery ==
    ASSUME IInv, Delivery, ProcessQueue
    PROVE  Delivery'
<1>1. /\ tip' = tip /\ synced' = synced /\ best' = best /\ Running /\ queue \in Seq(Note)
      /\ queue # <<>> /\ queue' = Tail(queue) /\ (synced => job = NoJob) /\ NoJob' = NoJob
  BY Zenon DEF ProcessQueue, BlockConnected, ChainStateFlushed, Pop, node, thread, IInv, Types, NoJob
<1>2. Linked(queue', tip)
  BY Zenon, <1>1, LinkedTail DEF Delivery
<1>3. Running' /\ (~failed' => ~failed)
  BY Zenon, <1>1 DEF ProcessQueue, BlockConnected, ChainStateFlushed, Running, life, IInv, Types
<1>4. ASSUME synced, ~failed' PROVE Reaches(Upcoming', queue', tip)
  <2> DEFINE b == Head(queue).block
  <2>1. Upcoming = best /\ Reaches(best, queue, tip)
    BY Zenon, <1>1, <1>3, <1>4 DEF Upcoming, Delivery
  <2>2. /\ Head(queue).kind # "connected" \/ ~Above(best, Parent(b)) => Reaches(best, queue', tip)
        /\ Head(queue).kind = "connected" => Reaches(b, queue', tip)
    BY Zenon, <1>1, <2>1, ReachesTail DEF Delivery
  <2>3. CASE BlockConnected /\ Above(best, Parent(b))
    <3>1. job' = [block |-> b, iter |-> best] /\ Head(queue).kind = "connected" /\ b \in Block
      BY Zenon, <1>4, <2>3, PopFacts DEF BlockConnected, Pop
    <3>2. Upcoming' = b
      BY Zenon, <1>1, <3>1, ChainLen DEF Upcoming, NoJob
    <3> QED
      BY Zenon, <2>2, <3>1, <3>2
  <2>4. CASE BlockConnected /\ ~Above(best, Parent(b))
    <3>1. job' = NoJob
      BY Zenon, <1>1, <1>4, <2>4 DEF BlockConnected
    <3> QED
      BY Zenon, <1>1, <2>2, <2>4, <3>1 DEF Upcoming
  <2>5. CASE ChainStateFlushed
    <3>1. job' = NoJob /\ Head(queue).kind = "flushed"
      BY Zenon, <1>1, <1>4, <2>5 DEF ChainStateFlushed, Pop, thread
    <3> QED
      BY Zenon, <1>1, <2>2, <3>1 DEF Upcoming
  <2> QED
    BY Zenon, <2>3, <2>4, <2>5 DEF ProcessQueue
<1> QED
  BY Zenon, <1>1, <1>2, <1>3, <1>4 DEF Delivery

LEMMA LifeDelivery ==
    ASSUME IInv, Delivery, StopRequest \/ Crash \/ Restart \/ UNCHANGED vars
    PROVE  Delivery'
<1>1. CASE StopRequest
  BY Zenon, <1>1 DEF StopRequest, Delivery, Running, Upcoming, NoJob, node, thread
<1>2. ASSUME queue' = <<>> PROVE \A t : Linked(queue', t)
  BY <1>2 DEF Linked, Announced
<1>3. CASE Crash
  BY Zenon, <1>2, <1>3 DEF Crash, Delivery, Running
<1>4. CASE Restart
  <2>1. queue' = <<>> /\ job' = NoJob /\ Running'
    BY Zenon, <1>4 DEF Restart, Delivery, Running, IInv, Threads
  <2>2. synced' => best' = tip' /\ tip' \in Chain
    BY Zenon, <1>4 DEF Restart, IInv, Types
  <2>3. synced' => Above(Upcoming', tip')
    BY Zenon, <2>1, <2>2, AboveRefl DEF Upcoming, NoJob
  <2> QED
    BY Zenon, <1>2, <2>1, <2>3 DEF Delivery, Reaches
<1>5. CASE UNCHANGED vars
  BY Zenon, <1>5 DEF vars, Delivery, Running, Upcoming, NoJob, node, thread, life
<1> QED
  BY Zenon, <1>1, <1>3, <1>4, <1>5

LEMMA NextDelivery == IInv /\ Delivery /\ [Next]_vars => Delivery'
  BY Zenon, ActivateDelivery, FlushDelivery, SyncDelivery, WorkDelivery, QueueDelivery, LifeDelivery DEF Next

-----------------------------------------------------------------------------
LEMMA FirstLifeInvariance == Spec => []FirstLife
<1>1. IInv /\ IInv' /\ FirstLife /\ [Next]_vars => FirstLife'
  BY Zenon, NextFirstLife
<1> QED
  BY <1>1, Invariance, InitFirstLife, PTL DEF Spec

LEMMA NoHolesInvariance == Spec => []NoHoles
<1>1. IInv /\ IInv' /\ NoHoles /\ [Next]_vars => NoHoles'
  BY Zenon, NextNoHoles
<1> QED
  BY <1>1, Invariance, InitNoHoles, PTL DEF Spec

LEMMA DeliveryInvariance == Spec => []Delivery
<1>1. IInv /\ IInv' /\ Delivery /\ [Next]_vars => Delivery'
  BY Zenon, NextDelivery
<1> QED
  BY <1>1, Invariance, InitDelivery, PTL DEF Spec

(* Every block that the threads, the queue and the records of the index    *)
(* refer to exists; in particular CopyHeightIndexToHashIndex never copies  *)
(* a height that holds no record.                                          *)
THEOREM IndexTypeCorrect == Spec => []TypeOK
<1>1. IInv /\ NoHoles => TypeOK
  <2> SUFFICES ASSUME IInv, NoHoles PROVE TypeOK
    BY Zenon
  <2>1. ASSUME NEW n \in 1..Len(queue) PROVE queue[n].block \in Block
    <3>1. queue[n] \in Note
      BY Zenon, ElementOfSeq DEF IInv, Types
    <3> QED
      BY Zenon, <3>1 DEF Note
  <2> QED
    BY Zenon, <2>1 DEF IInv, Types, NoHoles, TypeOK, Chain
<1> QED
  BY <1>1, Invariance, NoHolesInvariance, PTL

(* At any moment CustomInit would accept what Commit last wrote: the state *)
(* is that of the best block, and its record has survived every later      *)
(* CustomRemove and CustomAppend.                                          *)
THEOREM CommitIsRecoverable == Spec => []CommitRecoverable
<1>1. IInv => CommitRecoverable
  <2> SUFFICES ASSUME IInv, ~failed, committed.best # None
               PROVE  committed.muhash = committed.best /\ Found(committed.best)
    BY Zenon DEF CommitRecoverable
  <2>1. committed.muhash = committed.best /\ committed.best \in Block
    BY Zenon DEF IInv, Types, Committed, Chain
  <2>2. Above(committed.best, committed.best)
    BY Zenon, <2>1, AboveRefl, ChainSeq
  <2>3. Kept(committed.best)
    BY Zenon, <2>1, <2>2 DEF IInv, Committed
  <2> QED
    BY Zenon, <2>1, <2>3 DEF Kept, Found
<1> QED
  BY <1>1, Invariance, PTL

(* LookUpStats finds a record for each block of the chain up to the state  *)
(* of the index, whatever was reorganised, committed or lost in a crash.   *)
THEOREM ChainIsIndexed == Spec => []ChainIndexed
<1>1. IInv => ChainIndexed
  <2> SUFFICES ASSUME IInv, NEW n \in 1..Len(current) PROVE Found(Ancestor(current, n))
    BY Zenon DEF ChainIndexed
  <2>1. current \in Chain /\ Len(current) \in Nat
    BY Zenon, ChainLen DEF IInv, Types
  <2>2. current \in Block
    BY <2>1, ChainLen DEF Chain
  <2>3. Ancestor(current, n) \in Block /\ n \in 0..Len(current)
    BY <2>1, <2>2, AncestorBlock
  <2>4. Above(current, Ancestor(current, n))
    BY Zenon, <2>1, <2>3, AboveAncestor
  <2> QED
    BY Zenon, <2>3, <2>4 DEF IInv, Indexed
<1> QED
  BY <1>1, Invariance, PTL

(* Before a restart neither the sync thread nor BlockConnected calls       *)
(* FatalErrorf, whatever the backlog of the queue.                         *)
THEOREM FirstLifeNeverAborts == Spec => []NoAbort
<1>1. FirstLife => NoAbort
  BY Zenon DEF FirstLife, NoAbort
<1> QED
  BY <1>1, FirstLifeInvariance, PTL

(* Once m_synced is set the tip is indexed, is being indexed, or its       *)
(* BlockConnected is in the queue, although the queue may begin with the   *)
(* backlog of a branch that was left long ago.                             *)
THEOREM NoBlockIsMissed == Spec => []NoBlockMissed
<1>1. IInv /\ Delivery => NoBlockMissed
  <2> SUFFICES ASSUME IInv, Delivery, Running, ~failed, synced, tip # None
               PROVE  \/ Above(best, tip)
                      \/ job.block = tip
                      \/ \E n \in 1..Len(queue) : queue[n] = Connected(tip)
    BY Zenon DEF NoBlockMissed
  <2>1. tip \in Chain /\ queue \in Seq(Note) /\ Upcoming \in Chain /\ best \in Chain
    BY Zenon, UpcomingChain DEF IInv, Types
  <2>2. Above(Upcoming, tip) \/ \E n \in 1..Len(queue) : queue[n] = Connected(tip)
    BY Zenon, <2>1, ReachesTip DEF Delivery
  <2>3. CASE Above(Upcoming, tip) /\ job = NoJob
    BY Zenon, <2>3 DEF Upcoming
  <2>4. CASE Above(Upcoming, tip) /\ job # NoJob /\ job.block # tip
    <3>1. /\ job.block \in Block /\ Parent(job.block) \in Chain
          /\ Above(job.iter, Parent(job.block)) /\ job.iter = current /\ current \in Chain
      BY Zenon, <2>4, JobFacts DEF IInv, Types, Threads
    <3>2. Above(Parent(job.block), tip)
      BY Zenon, <2>1, <2>4, <3>1, AboveParent DEF Upcoming
    <3>3. Above(best, current)
      BY Zenon DEF IInv, Threads
    <3>4. Above(current, tip)
      BY Zenon, <2>1, <3>1, <3>2, AboveTrans
    <3> QED
      BY Zenon, <2>1, <3>1, <3>3, <3>4, AboveTrans
  <2> QED
    BY Zenon, <2>2, <2>3, <2>4
<1> QED
  BY <1>1, Invariance, DeliveryInvariance, PTL

=============================================================================
