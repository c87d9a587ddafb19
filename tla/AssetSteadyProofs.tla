--------------------------- MODULE AssetSteadyProofs --------------------------
(***************************************************************************)
(* Proofs about the steady node (SteadySpec): lookups answer with the      *)
(* ledger of the chain, the marker of the databases can be trusted,        *)
(* supplies stay well formed, and the store implements AssetLedger.        *)
(*                                                                         *)
(* RInv of AssetReorgProofs says that the layers hold at least the assets  *)
(* of the chain.  Without reorganisations they hold exactly its ledger,    *)
(* and the disk holds earlier tips of the same chain.                      *)
(***************************************************************************)
EXTENDS AssetReorgProofs

-----------------------------------------------------------------------------
(* The inductive invariant *)

(* Between blocks, and inside one, the layers answer with the ledger. *)
Exact ==
    /\ mode \in {"run", "stopping"} => Layered(EmptyCache, passets, db) = LedgerOf(chain)
    /\ pending # <<>> => Layered(local, passets, db) = LedgerOf(pending)

(* c is an earlier tip of the chain d. *)
EarlierTip(c, d) ==
    \E n \in 1..Len(d) :
        /\ n < Len(d) => d[n + 1].tx = Coinbase
        /\ c = SubSeq(d, 1, n)

(* What a restart loads. *)
CoinsTip == IF coinsDB = <<>> THEN Genesis ELSE coinsDB

(* A marker that equals the chain leaves nothing to write, so no dump can  *)
(* tear the databases that it vouches for.                                 *)
Markers ==
    /\ MarkerSound
    /\ mode \in {"run", "stopping"} =>
           /\ Len(marker) <= Len(chain)
           /\ marker = chain => passets = EmptyCache
    /\ mode \in {"import", "reindex"} => marker = <<>>
    /\ flush # "idle" => coinsDB = chain
    /\ coinsDB = <<>> => db = EmptyLedger /\ marker = <<>>
    /\ EarlierTip(CoinsTip, chain)

SupplyOK(led) ==
    \A n \in Names : led.meta[n] # None =>
        /\ led.meta[n].amount <= MaxMoney
        /\ CheckAmountWithUnits(led.meta[n].amount, led.meta[n].units)

(* No asset is lost, shrinks, loses decimal places or changes once closed. *)
Grows(old, new) ==
    \A n \in Names : old[n] # None =>
        /\ new[n] # None
        /\ new[n].amount >= old[n].amount
        /\ new[n].units >= old[n].units
        /\ old[n].reissuable \/ new[n] = old[n]

Supplies ==
    /\ \A i \in 1..Len(chain) : SupplyOK(chain[i].led)
    /\ pending # <<>> => SupplyOK(LedgerOf(pending))
    /\ \A i \in 1..Len(pending) : SupplyOK(pending[i].led)
    /\ pending # <<>> => Grows(LedgerOf(chain).meta, LedgerOf(pending).meta)

Steady == Exact /\ Markers /\ Supplies

SInv == RInv /\ Steady

-----------------------------------------------------------------------------
(* Amounts and units *)

(* A multiple of a power of ten is one of the power below it. *)
LEMMA PowersNext ==
    ASSUME NEW x \in Nat
    PROVE  /\ x % 10^1 = 0 => x % 10^0 = 0
           /\ x % 10^2 = 0 => x % 10^1 = 0
           /\ x % 10^3 = 0 => x % 10^2 = 0
           /\ x % 10^4 = 0 => x % 10^3 = 0
           /\ x % 10^5 = 0 => x % 10^4 = 0
           /\ x % 10^6 = 0 => x % 10^5 = 0
           /\ x % 10^7 = 0 => x % 10^6 = 0
           /\ x % 10^8 = 0 => x % 10^7 = 0
<1>1. x % 10^1 = 0 => x % 10^0 = 0
  <2>1. x % 10 = 0 => x % 1 = 0
    OBVIOUS
  <2>2. 10^1 = 10 /\ 10^0 = 1
    OBVIOUS
  <2> QED BY Zenon, <2>1, <2>2
<1>2. x % 10^2 = 0 => x % 10^1 = 0
  <2>1. x % 100 = 0 => x % 10 = 0
    OBVIOUS
  <2>2. 10^2 = 100 /\ 10^1 = 10
    OBVIOUS
  <2> QED BY Zenon, <2>1, <2>2
<1>3. x % 10^3 = 0 => x % 10^2 = 0
  <2>1. x % 1000 = 0 => x % 100 = 0
    OBVIOUS
  <2>2. 10^3 = 1000 /\ 10^2 = 100
    OBVIOUS
  <2> QED BY <2>1, <2>2
<1>4. x % 10^4 = 0 => x % 10^3 = 0
  <2>1. x % 10000 = 0 => x % 1000 = 0
    OBVIOUS
  <2>2. 10^4 = 10000 /\ 10^3 = 1000
    OBVIOUS
  <2> QED BY <2>1, <2>2
<1>5. x % 10^5 = 0 => x % 10^4 = 0
  <2>1. x % 100000 = 0 => x % 10000 = 0
    OBVIOUS
  <2>2. 10^5 = 100000 /\ 10^4 = 10000
    OBVIOUS
  <2> QED BY <2>1, <2>2
<1>6. x % 10^6 = 0 => x % 10^5 = 0
  <2>1. x % 1000000 = 0 => x % 100000 = 0
    OBVIOUS
  <2>2. 10^6 = 1000000 /\ 10^5 = 100000
    OBVIOUS
  <2> QED BY <2>1, <2>2
<1>7. x % 10^7 = 0 => x % 10^6 = 0
  <2>1. x % 10000000 = 0 => x % 1000000 = 0
    OBVIOUS
  <2>2. 10^7 = 10000000 /\ 10^6 = 1000000
    OBVIOUS
  <2> QED BY <2>1, <2>2
<1>8. x % 10^8 = 0 => x % 10^7 = 0
  <2>1. x % 100000000 = 0 => x % 10000000 = 0
    OBVIOUS
  <2>2. 10^8 = 100000000 /\ 10^7 = 10000000
    OBVIOUS
  <2> QED BY <2>1, <2>2
<1> QED BY Zenon, <1>1, <1>2, <1>3, <1>4, <1>5, <1>6, <1>7, <1>8

(* The same for an exponent that is not a literal. *)
LEMMA PowersDown ==
    ASSUME NEW x \in Nat, NEW k \in 0..7, x % 10^(k + 1) = 0
    PROVE  x % 10^k = 0
<1>0. k \in {0, 1, 2, 3, 4, 5, 6, 7}
  OBVIOUS
<1>1. CASE k = 0
  <2>1. k + 1 = 1
    BY <1>1
  <2>2. x % 10^1 = 0 => x % 10^0 = 0
    BY PowersNext
  <2> QED BY <1>1, <2>1, <2>2
<1>2. CASE k = 1
  <2>1. k + 1 = 2
    BY <1>2
  <2>2. x % 10^2 = 0 => x % 10^1 = 0
    BY PowersNext
  <2> QED BY <1>2, <2>1, <2>2
<1>3. CASE k = 2
  <2>1. k + 1 = 3
    BY <1>3
  <2>2. x % 10^3 = 0 => x % 10^2 = 0
    BY PowersNext
  <2> QED BY <1>3, <2>1, <2>2
<1>4. CASE k = 3
  <2>1. k + 1 = 4
    BY <1>4
  <2>2. x % 10^4 = 0 => x % 10^3 = 0
    BY PowersNext
  <2> QED BY <1>4, <2>1, <2>2
<1>5. CASE k = 4
  <2>1. k + 1 = 5
    BY <1>5
  <2>2. x % 10^5 = 0 => x % 10^4 = 0
    BY PowersNext
  <2> QED BY <1>5, <2>1, <2>2
<1>6. CASE k = 5
  <2>1. k + 1 = 6
    BY <1>6
  <2>2. x % 10^6 = 0 => x % 10^5 = 0
    BY PowersNext
  <2> QED BY <1>6, <2>1, <2>2
<1>7. CASE k = 6
  <2>1. k + 1 = 7
    BY <1>7
  <2>2. x % 10^7 = 0 => x % 10^6 = 0
    BY PowersNext
  <2> QED BY <1>7, <2>1, <2>2
<1>8. CASE k = 7
  <2>1. k + 1 = 8
    BY <1>8
  <2>2. x % 10^8 = 0 => x % 10^7 = 0
    BY PowersNext
  <2> QED BY <1>8, <2>1, <2>2
<1> QED BY <1>0, <1>1, <1>2, <1>3, <1>4, <1>5, <1>6, <1>7, <1>8

(* So is it of every lower power. *)
LEMMA PowersDivide ==
    ASSUME NEW x \in Nat, NEW i \in 0..8, NEW j \in 0..i, x % 10^i = 0
    PROVE  x % 10^j = 0
<1> DEFINE T == {m \in Nat : m <= i /\ ~(x % 10^(i - m) = 0)}
<1> SUFFICES ASSUME T # {} PROVE FALSE
  <2>1. i - j \in Nat /\ i - j <= i /\ i - (i - j) = j
    OBVIOUS
  <2> QED BY <2>1, Zenon
<1>1. T \subseteq Nat
  OBVIOUS
<1> HIDE DEF T
<1>2. PICK m \in T : \A k \in T : ~(<<k, m>> \in OpToRel(<, Nat))
  BY <1>1, WFMin, NatLessThanWellFounded
<1>3. \A k \in T : ~(k < m)
  BY <1>1, <1>2 DEF OpToRel
<1>4. m \in Nat /\ m <= i /\ ~(x % 10^(i - m) = 0)
  BY Zenon DEF T
<1>5. m # 0
  <2>1. i - 0 = i
    OBVIOUS
  <2> QED BY <1>4, <2>1, Zenon
<1>6. /\ m - 1 \in Nat /\ m - 1 <= i /\ m - 1 < m
      /\ i - m \in 0..7 /\ i - (m - 1) = (i - m) + 1
  BY <1>4, <1>5
<1>7. x % 10^((i - m) + 1) = 0
  BY <1>3, <1>6, Zenon DEF T
<1> QED BY <1>4, <1>6, <1>7, PowersDown, Zenon

(* Sums of multiples are multiples. *)
LEMMA SumDivides ==
    ASSUME NEW x \in Nat, NEW y \in Nat, NEW a \in Nat \ {0}, x % a = 0, y % a = 0
    PROVE  (x + y) % a = 0
<1>1. PICK p \in Int : x = a * p
  <2>1. x = a * (x \div a) /\ x \div a \in Int
    OBVIOUS
  <2> QED BY <2>1
<1>2. PICK q \in Int : y = a * q
  <2>1. y = a * (y \div a) /\ y \div a \in Int
    OBVIOUS
  <2> QED BY <2>1
<1>3. p + q \in Int /\ x + y = a * (p + q)
  BY <1>1, <1>2
<1>4. ASSUME NEW r \in Int PROVE (a * r) % a = 0
  OBVIOUS
<1> QED BY <1>3, <1>4, Zenon

(* The powers that units stand for are positive. *)
LEMMA PowersPositive ==
    ASSUME NEW i \in 0..8
    PROVE  10^i \in Nat \ {0}
<1>1. i \in {0, 1, 2, 3, 4, 5, 6, 7, 8}
  OBVIOUS
<1>2. /\ 10^0 \in Nat \ {0} /\ 10^1 \in Nat \ {0} /\ 10^2 \in Nat \ {0}
      /\ 10^3 \in Nat \ {0} /\ 10^4 \in Nat \ {0} /\ 10^5 \in Nat \ {0}
      /\ 10^6 \in Nat \ {0} /\ 10^7 \in Nat \ {0} /\ 10^8 \in Nat \ {0}
  OBVIOUS
<1> QED BY <1>1, <1>2

(* A supply of whole units plus a reissue of whole units is one of whole   *)
(* units, also when the reissue adds decimal places.                       *)
LEMMA WholeUnits ==
    ASSUME NEW x \in Nat, NEW y \in Nat, NEW u \in 0..MaxUnit, NEW v \in 0..MaxUnit, u <= v,
           CheckAmountWithUnits(x, u), CheckAmountWithUnits(y, u)
    PROVE  CheckAmountWithUnits(x + y, v)
<1> DEFINE i == MaxUnit - u
           j == MaxUnit - v
<1>1. i \in 0..8 /\ j \in 0..8 /\ j \in 0..i
  BY ConstantsAssumption, UnitAssumption
<1>2. x % 10^i = 0 /\ y % 10^i = 0
  BY DEF CheckAmountWithUnits
<1> HIDE DEF i, j
<1>3. x % 10^j = 0 /\ y % 10^j = 0
  BY <1>1, <1>2, PowersDivide
<1>4. 10^j \in Nat \ {0}
  BY <1>1, PowersPositive
<1>5. (x + y) % 10^j = 0
  BY <1>3, <1>4, SumDivides
<1> QED BY <1>5 DEF CheckAmountWithUnits, j

-----------------------------------------------------------------------------
(* What the rules let a transaction do to the ledger they are checked on *)

(* A reissue that the rules allow adds to an asset that may be added to. *)
LEMMA ReissueGrows ==
    ASSUME NEW led \in Ledger, NEW tip, NEW tx \in Txs, tx.op = "reissue",
           CheckTxAssets(LedgerSeen(led, tip), tx), SupplyOK(led)
    PROVE  LET prev == led.meta[tx.name]
               new == Reissued(prev, tx)
           IN  /\ prev \in Meta /\ new \in Meta /\ prev.reissuable
               /\ new.amount >= prev.amount /\ new.units >= prev.units
               /\ new.amount <= MaxMoney
               /\ CheckAmountWithUnits(new.amount, new.units)
<1> DEFINE prev == led.meta[tx.name]
           new == Reissued(prev, tx)
<1>1. /\ prev # None /\ prev.reissuable
      /\ prev.amount + tx.amount <= MaxMoney
      /\ CheckAmountWithUnits(tx.amount, prev.units)
      /\ tx.units >= prev.units \/ tx.units = -1
  BY DEF CheckTxAssets, ContextualCheckReissueAsset, LedgerSeen
<1>2. tx.name \in Names /\ tx \in ReissueTx
  BY TxLemma
<1>3. prev \in Meta
  BY <1>1, <1>2 DEF Ledger, MetaMap
<1>4. /\ prev.amount \in Nat /\ prev.units \in 0..MaxUnit
      /\ tx.amount \in Nat /\ tx.units \in -1..MaxUnit
  BY <1>2, <1>3 DEF Meta, ReissueTx
<1>5. /\ new.amount = prev.amount + tx.amount
      /\ new.units = IF tx.units = -1 THEN prev.units ELSE tx.units
      /\ new \in Meta
  BY <1>2, <1>3, ReissuedLemma DEF Reissued
<1>6. CheckAmountWithUnits(prev.amount, prev.units)
  BY <1>1, <1>2 DEF SupplyOK
<1> HIDE DEF prev, new
<1>7. new.units \in 0..MaxUnit /\ prev.units <= new.units
  BY <1>1, <1>4, <1>5, ConstantsAssumption
<1>8. CheckAmountWithUnits(prev.amount + tx.amount, new.units)
  BY <1>1, <1>4, <1>6, <1>7, WholeUnits
<1>9. new.amount >= prev.amount /\ new.amount <= MaxMoney /\ new.units >= prev.units
  BY <1>1, <1>4, <1>5, <1>7, ConstantsAssumption
<1> QED BY <1>1, <1>3, <1>5, <1>8, <1>9 DEF prev, new

(* An issue that the rules allow is of a new name. *)
LEMMA IssueFits ==
    ASSUME NEW led \in Ledger, NEW tip, NEW tx \in Txs, tx.op = "issue",
           CheckTxAssets(LedgerSeen(led, tip), tx)
    PROVE  /\ led.meta[tx.name] = None
           /\ tx.meta.amount <= MaxMoney
           /\ CheckAmountWithUnits(tx.meta.amount, tx.meta.units)
<1>1. tx.name \in Names
  BY TxLemma
<1> QED BY <1>1, ConstantsAssumption DEF CheckTxAssets, ContextualCheckNewAsset, LedgerSeen

(* A transaction that its checks accept keeps supplies well formed. *)
LEMMA ApplyGrows ==
    ASSUME NEW led \in Ledger, NEW tip, NEW tx \in Txs,
           CheckTxAssets(LedgerSeen(led, tip), tx), SupplyOK(led)
    PROVE  SupplyOK(ApplyTx(led, tx)) /\ Grows(led.meta, ApplyTx(led, tx).meta)
<1> DEFINE new == ApplyTx(led, tx)
<1>1. /\ new \in Ledger /\ tx.name \in Names
      /\ \A n \in Names : new.meta[n] =
             IF n = tx.name /\ tx.op = "issue" THEN tx.meta
             ELSE IF n = tx.name /\ tx.op = "reissue" /\ led.meta[n] # None
             THEN Reissued(led.meta[n], tx) ELSE led.meta[n]
  BY ApplyKeeps, TxLemma
<1> HIDE DEF new
<1>2. \A n \in Names : led.meta[n] # None =>
        led.meta[n].amount \in Nat /\ led.meta[n].units \in 0..MaxUnit
  BY DEF Ledger, MetaMap, Meta
<1> SUFFICES ASSUME NEW n \in Names
             PROVE  /\ new.meta[n] # None =>
                           /\ new.meta[n].amount <= MaxMoney
                           /\ CheckAmountWithUnits(new.meta[n].amount, new.meta[n].units)
                    /\ led.meta[n] # None =>
                           /\ new.meta[n] # None
                           /\ new.meta[n].amount >= led.meta[n].amount
                           /\ new.meta[n].units >= led.meta[n].units
                           /\ led.meta[n].reissuable \/ new.meta[n] = led.meta[n]
  BY DEF SupplyOK, Grows, new
<1>3. CASE n = tx.name /\ tx.op = "issue"
  <2>1. new.meta[n] = tx.meta
    BY <1>1, <1>3
  <2> QED BY <1>3, <2>1, IssueFits
<1>4. CASE n = tx.name /\ tx.op = "reissue"
  <2>1. led.meta[n] \in Meta /\ led.meta[n] # None
    BY <1>4, ReissueGrows, NoneAssumption
  <2>2. new.meta[n] = Reissued(led.meta[n], tx)
    BY <1>1, <1>4, <2>1
  <2> QED BY <1>4, <2>2, ReissueGrows, NoneAssumption
<1>5. CASE ~(n = tx.name /\ tx.op \in {"issue", "reissue"})
  <2>1. new.meta[n] = led.meta[n]
    BY <1>1, <1>5
  <2>2. led.meta[n] # None => led.meta[n].amount >= led.meta[n].amount /\ led.meta[n].units >= led.meta[n].units
    BY <1>2
  <2> QED BY <2>1, <2>2 DEF SupplyOK
<1> QED BY <1>3, <1>4, <1>5

(* Growing is a preorder. *)
LEMMA GrowsReflexive ==
    ASSUME NEW a \in MetaMap
    PROVE  Grows(a, a)
<1>1. \A n \in Names : a[n] # None => a[n].amount \in Nat /\ a[n].units \in 0..MaxUnit
  BY DEF MetaMap, Meta
<1>2. \A n \in Names : a[n] # None => a[n].amount >= a[n].amount /\ a[n].units >= a[n].units
  BY <1>1
<1> QED BY <1>2 DEF Grows

(* So the blocks of a chain compose. *)
LEMMA GrowsTransitive ==
    ASSUME NEW a \in MetaMap, NEW b \in MetaMap, NEW c \in MetaMap, Grows(a, b), Grows(b, c)
    PROVE  Grows(a, c)
<1> SUFFICES ASSUME NEW n \in Names, a[n] # None
             PROVE  /\ c[n] # None
                    /\ c[n].amount >= a[n].amount
                    /\ c[n].units >= a[n].units
                    /\ a[n].reissuable \/ c[n] = a[n]
  BY DEF Grows
<1>1. /\ b[n] # None /\ b[n].amount >= a[n].amount /\ b[n].units >= a[n].units
      /\ a[n].reissuable \/ b[n] = a[n]
  BY DEF Grows
<1>2. /\ c[n] # None /\ c[n].amount >= b[n].amount /\ c[n].units >= b[n].units
      /\ b[n].reissuable \/ c[n] = b[n]
  BY <1>1 DEF Grows
<1>3. /\ a[n].amount \in Nat /\ b[n].amount \in Nat /\ c[n].amount \in Nat
      /\ a[n].units \in 0..MaxUnit /\ b[n].units \in 0..MaxUnit /\ c[n].units \in 0..MaxUnit
  BY <1>1, <1>2 DEF MetaMap, Meta
<1>4. c[n].amount >= a[n].amount /\ c[n].units >= a[n].units
  BY <1>1, <1>2, <1>3, ConstantsAssumption
<1> QED BY <1>1, <1>2, <1>4

-----------------------------------------------------------------------------
(* Earlier tips *)

(* A chain is a tip of itself. *)
LEMMA EarlierSelf ==
    ASSUME NEW c \in Chain, Len(c) > 0
    PROVE  EarlierTip(c, c)
<1>1. Len(c) \in 1..Len(c)
  BY ChainLemma
<1>2. SubSeq(c, 1, Len(c)) = c
  BY SubSeqFull DEF Chain
<1>3. ~(Len(c) < Len(c))
  BY <1>1
<1> QED BY <1>1, <1>2, <1>3 DEF EarlierTip

(* A new block leaves the earlier tips where they are. *)
LEMMA EarlierConcat ==
    ASSUME NEW c, NEW d \in Chain, NEW b \in Chain, b # <<>>, b[1].tx = Coinbase, EarlierTip(c, d)
    PROVE  EarlierTip(c, d \o b)
<1>1. PICK n \in 1..Len(d) : (n < Len(d) => d[n + 1].tx = Coinbase) /\ c = SubSeq(d, 1, n)
  BY DEF EarlierTip
<1> DEFINE s == d \o b
<1>2. /\ Len(d) \in Nat /\ Len(b) \in Nat /\ Len(b) > 0
      /\ d \in Seq(Entry) /\ b \in Seq(Entry)
  BY ChainLemma DEF Chain
<1>3. /\ Len(s) = Len(d) + Len(b) /\ s \in Seq(Entry)
      /\ \A i \in 1..Len(d) : s[i] = d[i]
      /\ s[Len(d) + 1] = b[1]
  BY <1>2
<1> HIDE DEF s
<1>4. n \in 1..Len(s)
  BY <1>2, <1>3
<1>5. s[n + 1].tx = Coinbase
  <2>1. CASE n = Len(d)
    BY <1>3, <2>1
  <2>2. CASE n # Len(d)
    <3>1. n < Len(d) /\ n + 1 \in 1..Len(d)
      BY <1>2, <2>2
    <3> QED BY <1>1, <1>3, <3>1
  <2> QED BY <2>1, <2>2
<1>6. SubSeq(s, 1, n) = SubSeq(d, 1, n)
  <2>1. /\ SubSeq(s, 1, n) \in Seq(Entry) /\ Len(SubSeq(s, 1, n)) = n
        /\ \A i \in 1..n : SubSeq(s, 1, n)[i] = s[i]
    BY <1>3, <1>4, SubSeqProperties
  <2>2. /\ SubSeq(d, 1, n) \in Seq(Entry) /\ Len(SubSeq(d, 1, n)) = n
        /\ \A i \in 1..n : SubSeq(d, 1, n)[i] = d[i]
    BY <1>2, SubSeqProperties
  <2>3. \A i \in 1..n : i \in 1..Len(d)
    BY <1>2
  <2>4. \A i \in 1..n : SubSeq(s, 1, n)[i] = SubSeq(d, 1, n)[i]
    BY <1>3, <2>1, <2>2, <2>3
  <2> QED BY <2>1, <2>2, <2>4, SeqEqual
<1> QED BY <1>1, <1>4, <1>5, <1>6 DEF EarlierTip, s

-----------------------------------------------------------------------------
(* The steps *)

(* A transaction is checked with what the ledger says. *)
LEMMA SeenIsLedger ==
    ASSUME SInv, pending # <<>>
    PROVE  SeenBy(local) = LedgerSeen(LedgerOf(pending), LedgerOf(chain))
<1>1. /\ TypeOK /\ LruCoherent /\ Backed(local, passets, db)
      /\ local \in Cache /\ passets \in Cache /\ db \in Ledger /\ EmptyCache \in Cache
      /\ mode = "run"
  BY EmptyType DEF SInv, RInv, LruInv, Store, Phases, TypeOK
<1>2. /\ Layered(EmptyCache, passets, db) = LedgerOf(chain)
      /\ Layered(local, passets, db) = LedgerOf(pending)
  BY <1>1 DEF SInv, Steady, Exact
<1>3. \A n \in Names : /\ GetAssetMetaDataIfExists(local, n) = LedgerOf(pending).meta[n]
                       /\ CheckIfAssetExists(local, n) <=> LedgerOf(pending).meta[n] # None
  BY <1>1, <1>2, LookupLayered, LayeredAnswers, NameIffMeta
<1>4. /\ \A k \in Key : CheckForAddressRestriction(k) <=> k \in LedgerOf(chain).frozen
      /\ \A n \in Names : CheckForGlobalRestriction(n) <=> n \in LedgerOf(chain).global
  BY <1>1, <1>2, RestrictionLayered, LayeredAnswers
<1>5. /\ LedgerOf(pending) \in Ledger /\ LedgerOf(chain) \in Ledger
  BY <1>1, <1>2, LayeredType
<1>6. LedgerOf(pending).meta = [n \in Names |-> LedgerOf(pending).meta[n]]
  BY <1>5 DEF Ledger, MetaMap
<1>7. /\ LedgerOf(chain).frozen = {k \in Key : k \in LedgerOf(chain).frozen}
      /\ LedgerOf(chain).global = {n \in Names : n \in LedgerOf(chain).global}
  BY <1>5 DEF Ledger
<1>8. /\ SeenBy(local).meta = LedgerOf(pending).meta
      /\ SeenBy(local).exists = {n \in Names : LedgerOf(pending).meta[n] # None}
      /\ SeenBy(local).frozen = LedgerOf(chain).frozen
      /\ SeenBy(local).global = LedgerOf(chain).global
  BY <1>3, <1>4, <1>6, <1>7 DEF SeenBy
<1> QED BY <1>8 DEF SeenBy, LedgerSeen

(* The LRU caches are not part of the invariant. *)
LEMMA SteadyUnchanged ==
    ASSUME Steady, UNCHANGED <<chain, pending, local, passets, db, marker, coinsDB, mode, flush>>
    PROVE  Steady'
BY DEF Steady, Exact, Markers, MarkerSound, CoinsTip, Supplies

(* The coinbase changes no asset. *)
LEMMA SteadyBegin ==
    ASSUME SInv, mode = "run", BeginBlock
    PROVE  Steady'
<1> DEFINE led == LedgerOf(chain)
<1>0. /\ pending' = <<[tx |-> Coinbase, led |-> led]>> /\ local' = EmptyCache
      /\ UNCHANGED <<chain, passets, db, marker, coinsDB, mode, flush>>
  BY DEF BeginBlock, disk
<1>1. led \in Ledger /\ Len(chain) \in 1..Len(chain)
  BY LedgerOfType, ChainLemma DEF SInv, RInv, LruInv, TypeOK
<1>2. SupplyOK(led) /\ Layered(EmptyCache, passets, db) = led
  BY <1>1 DEF SInv, Steady, Exact, Supplies, LedgerOf
<1> HIDE DEF led
<1>3. LedgerOf(pending') = led /\ Len(pending') = 1 /\ pending'[1].led = led /\ pending' # <<>>
  BY <1>0, <1>1 DEF LedgerOf
<1>4. Grows(led.meta, led.meta)
  BY <1>1, GrowsReflexive DEF Ledger
<1>5. Exact'
  BY <1>0, <1>2, <1>3 DEF SInv, Steady, Exact
<1>6. Markers'
  BY <1>0 DEF SInv, Steady, Markers, MarkerSound, CoinsTip
<1>7. Supplies'
  BY <1>0, <1>2, <1>3, <1>4 DEF SInv, Steady, Supplies, led
<1> QED BY <1>5, <1>6, <1>7 DEF Steady

(* The caches follow the ledger through every transaction of a block. *)
LEMMA SteadyConnect ==
    ASSUME SInv, NEW tx \in Txs, ConnectTx(tx)
    PROVE  Steady'
<1> DEFINE led == LedgerOf(pending)
           e == [tx |-> tx, led |-> ApplyTx(led, tx)]
<1>0. /\ pending # <<>> /\ CheckTxAssets(SeenBy(local), tx)
      /\ local' = Mutate(local, tx) /\ pending' = Append(pending, e)
      /\ UNCHANGED <<chain, passets, db, marker, coinsDB, mode, flush>>
  BY DEF ConnectTx, disk
<1>1. /\ TypeOK /\ LruCoherent /\ Backed(local, passets, db) /\ RInv
      /\ local \in Cache /\ passets \in Cache /\ db \in Ledger
      /\ pending \in Chain /\ chain \in Chain /\ chain # <<>>
      /\ Layered(local, passets, db) = led
  BY <1>0, ChainLemma DEF SInv, RInv, LruInv, Store, TypeOK, Steady, Exact
<1>2. led \in Ledger /\ LedgerOf(chain) \in Ledger /\ ApplyTx(led, tx) \in Ledger
  BY <1>0, <1>1, LedgerOfType, ApplyTxType
<1>3. e \in Entry /\ e.led = ApplyTx(led, tx)
  BY <1>2 DEF Entry
<1>4. CheckTxAssets(LedgerSeen(led, LedgerOf(chain)), tx)
  BY <1>0, SeenIsLedger
<1>5. tx.op = "issue" => MetaAt(local, passets, db, tx.name) = None
  BY <1>0, <1>1, IssueIsNew
<1>6. SupplyOK(led) /\ Grows(LedgerOf(chain).meta, led.meta)
  BY <1>0 DEF SInv, Steady, Supplies
<1> HIDE DEF led, e
<1>7. Layered(local', passets, db) = ApplyTx(led, tx)
  BY <1>0, <1>1, <1>5, MutateLayered
<1>8. SupplyOK(ApplyTx(led, tx)) /\ Grows(led.meta, ApplyTx(led, tx).meta)
  BY <1>2, <1>4, <1>6, ApplyGrows
<1>9. Grows(LedgerOf(chain).meta, ApplyTx(led, tx).meta)
  BY <1>2, <1>6, <1>8, GrowsTransitive DEF Ledger
<1>10. /\ Len(pending) \in Nat /\ Len(pending') = Len(pending) + 1
       /\ pending'[Len(pending) + 1] = e
       /\ \A i \in 1..Len(pending) : pending'[i] = pending[i]
  BY <1>0, <1>1, <1>3, AppendProperties DEF Chain
<1>11. LedgerOf(pending') = ApplyTx(led, tx)
  BY <1>3, <1>10 DEF LedgerOf
<1>12. \A i \in 1..Len(pending') : SupplyOK(pending'[i].led)
  <2> TAKE i \in 1..Len(pending')
  <2>1. CASE i = Len(pending) + 1
    BY <1>3, <1>8, <1>10, <2>1
  <2>2. CASE i # Len(pending) + 1
    <3>1. i \in 1..Len(pending)
      BY <1>10, <2>2
    <3> QED BY <1>10, <3>1 DEF SInv, Steady, Supplies
  <2> QED BY <2>1, <2>2
<1>13. Exact'
  BY <1>0, <1>7, <1>11 DEF SInv, Steady, Exact
<1>14. Markers'
  BY <1>0 DEF SInv, Steady, Markers, MarkerSound, CoinsTip
<1>15. Supplies'
  BY <1>0, <1>8, <1>9, <1>11, <1>12 DEF SInv, Steady, Supplies
<1> QED BY <1>13, <1>14, <1>15 DEF Steady

(* An invalid block leaves the layers below it alone. *)
LEMMA SteadyReject ==
    ASSUME SInv, NEW tx \in Txs, RejectBlock(tx)
    PROVE  Steady'
<1>0. /\ pending' = <<>> /\ local' = EmptyCache
      /\ UNCHANGED <<chain, passets, db, marker, coinsDB, mode, flush>>
  BY DEF RejectBlock, disk
<1> QED BY <1>0 DEF SInv, Steady, Exact, Markers, MarkerSound, CoinsTip, Supplies

(* A lookup between blocks can only change the LRU caches. *)
LEMMA SteadyPreChecks ==
    ASSUME SInv, NEW tx \in Txs, PreChecks(tx)
    PROVE  Steady'
BY SteadyUnchanged DEF SInv, PreChecks, disk

(* A finished block makes the chain longer than any marker. *)
LEMMA SteadyFinish ==
    ASSUME SInv, FinishBlock
    PROVE  Steady'
<1>0. /\ pending # <<>> /\ pending' = <<>> /\ local' = EmptyCache
      /\ chain' = chain \o pending /\ passets' = Flush(local, passets)
      /\ UNCHANGED <<db, marker, coinsDB, mode, flush>>
      /\ mode = "run" /\ flush = "idle"
  BY DEF FinishBlock, disk, SInv, RInv, LruInv, Quiet, Store, Phases
<1>1. /\ local \in Cache /\ passets \in Cache /\ db \in Ledger /\ Backed(local, passets, db)
      /\ chain \in Chain /\ pending \in Chain /\ marker \in Chain
      /\ Valid(chain) /\ ValidBlock(LedgerOf(chain), pending)
  BY <1>0 DEF SInv, RInv, LruInv, Store, TypeOK, ValidChains
<1>2. LedgerOf(chain') = LedgerOf(pending) /\ Len(chain') > Len(chain)
  BY <1>0, <1>1, ConcatValid
<1>3. Layered(EmptyCache, passets', db) = Layered(local, passets, db)
  BY <1>0, <1>1, FlushLayered
<1>4. /\ Len(chain) \in Nat /\ Len(pending) \in Nat /\ Len(marker) \in Nat /\ Len(chain') \in Nat
      /\ Len(chain') = Len(chain) + Len(pending)
      /\ \A i \in 1..Len(chain) : chain'[i] = chain[i]
      /\ \A i \in (Len(chain) + 1)..(Len(chain) + Len(pending)) : chain'[i] = pending[i - Len(chain)]
  <2>1. chain \in Seq(Entry) /\ pending \in Seq(Entry) /\ marker \in Seq(Entry)
    BY <1>1 DEF Chain
  <2> QED BY <1>0, <2>1
<1>5. Len(marker) <= Len(chain') /\ marker # chain'
  <2>1. Len(marker) <= Len(chain)
    BY <1>0 DEF SInv, Steady, Markers
  <2>2. Len(marker) < Len(chain')
    BY <1>2, <1>4, <2>1
  <2> QED BY <1>4, <2>2
<1>6. EarlierTip(CoinsTip, chain')
  BY <1>0, <1>1, EarlierConcat DEF SInv, Steady, Markers, ValidBlock
<1>7. Exact'
  BY <1>0, <1>2, <1>3 DEF SInv, Steady, Exact
<1>8. Markers'
  BY <1>0, <1>5, <1>6 DEF SInv, Steady, Markers, MarkerSound, CoinsTip
<1>9. \A i \in 1..Len(chain') : SupplyOK(chain'[i].led)
  <2> TAKE i \in 1..Len(chain')
  <2>1. CASE i <= Len(chain)
    BY <1>4, <2>1 DEF SInv, Steady, Supplies
  <2>2. CASE i > Len(chain)
    <3>1. i \in (Len(chain) + 1)..(Len(chain) + Len(pending)) /\ i - Len(chain) \in 1..Len(pending)
      BY <1>4, <2>2
    <3> QED BY <1>4, <3>1 DEF SInv, Steady, Supplies
  <2> QED BY <1>4, <2>1, <2>2
<1>10. Supplies'
  BY <1>0, <1>9 DEF Supplies
<1> QED BY <1>7, <1>8, <1>10 DEF Steady

(* A marker shorter than the chain. *)
LEMMA NoMarker ==
    ASSUME TypeOK
    PROVE  Len(<<>>) <= Len(chain) /\ chain # <<>> /\ Len(chain) \in Nat
BY ChainLemma DEF TypeOK

(* Writing the coins of a chain that the marker names finds the databases  *)
(* already as they have to be.                                             *)
LEMMA SteadyFlushCoins ==
    ASSUME SInv, mode # "import", FlushCoins
    PROVE  Steady'
<1>0. /\ mode \in {"run", "stopping"} /\ pending = <<>> /\ coinsDB' = chain /\ flush' = "new"
      /\ UNCHANGED <<chain, pending, local, passets, db, marker, mode>>
  BY DEF FlushCoins, Idle
<1>1. chain \in Chain /\ Len(chain) > 0 /\ chain # <<>> /\ db \in Ledger
  BY ChainLemma DEF SInv, RInv, LruInv, TypeOK
<1>2. marker = chain => db = LedgerOf(chain)
  <2>1. marker = chain => passets = EmptyCache
    BY <1>0 DEF SInv, Steady, Markers
  <2>2. Layered(EmptyCache, passets, db) = LedgerOf(chain)
    BY <1>0 DEF SInv, Steady, Exact
  <2> QED BY <1>1, <2>1, <2>2, EmptyLayered
<1>3. EarlierTip(chain, chain)
  BY <1>1, EarlierSelf
<1>4. Exact' /\ Supplies'
  BY <1>0 DEF SInv, Steady, Exact, Supplies
<1>5. Markers'
  BY <1>0, <1>1, <1>2, <1>3 DEF SInv, Steady, Markers, MarkerSound, CoinsTip
<1> QED BY <1>4, <1>5 DEF Steady

(* A write to databases that the marker vouches for changes nothing. *)
LEMMA SteadyDump ==
    ASSUME SInv, NEW ok \in BOOLEAN, Dump(ok), ok \/ (mode = "reindex" => rpos = Len(chain))
    PROVE  Steady'
<1>0. /\ UNCHANGED <<chain, pending, local, passets, marker, coinsDB>>
      /\ flush # "idle"
      /\ ok => UNCHANGED <<flush, mode>>
      /\ ~ok => /\ flush' = "idle" /\ db' = db
                /\ mode' = IF mode = "reindex" THEN "run" ELSE "stopping"
      /\ TypeOK
  BY DumpWrites DEF SInv, RInv, LruInv
<1>1. /\ local = EmptyCache /\ pending = <<>> /\ Backed(local, passets, db)
      /\ mode \in {"run", "stopping", "reindex"} /\ coinsDB = chain
  BY <1>0 DEF SInv, RInv, LruInv, Quiet, Store, Phases, TypeOK, Steady, Markers
<1>2. /\ Layered(EmptyCache, passets, db') = Layered(EmptyCache, passets, db)
      /\ passets = EmptyCache => db' = db
  BY <1>0, <1>1, DumpLayered
<1>3. chain # <<>> /\ Len(<<>>) <= Len(chain)
  BY <1>0, NoMarker
<1>4. mode' \in {"run", "stopping"} => Layered(EmptyCache, passets, db) = LedgerOf(chain)
  <2>1. CASE mode = "reindex" /\ ~ok
    BY <1>1, <2>1 DEF SInv, RInv, Store, Phases, LedgerOf
  <2>2. CASE mode \in {"run", "stopping"}
    BY <2>2 DEF SInv, Steady, Exact
  <2> QED BY <1>0, <1>1, <2>1, <2>2
<1>5. Exact'
  BY <1>0, <1>1, <1>2, <1>4 DEF Exact
<1>6. Supplies'
  BY <1>0 DEF SInv, Steady, Supplies
<1>7. mode' \in {"run", "stopping"} =>
        Len(marker) <= Len(chain) /\ (marker = chain => passets = EmptyCache)
  <2>1. CASE mode = "reindex"
    BY <1>3, <2>1 DEF SInv, Steady, Markers
  <2>2. CASE mode \in {"run", "stopping"}
    BY <2>2 DEF SInv, Steady, Markers
  <2> QED BY <1>1, <2>1, <2>2
<1>8. marker = coinsDB => db' = db
  <2>1. CASE mode = "reindex"
    BY <1>1, <1>3, <2>1 DEF SInv, Steady, Markers
  <2>2. CASE mode \in {"run", "stopping"}
    BY <1>1, <1>2, <2>2 DEF SInv, Steady, Markers
  <2> QED BY <1>1, <2>1, <2>2
<1>9. MarkerSound'
  BY <1>0, <1>8 DEF SInv, Steady, Markers, MarkerSound
<1>10. mode' \in {"import", "reindex"} => marker = <<>>
  BY <1>0, <1>1 DEF SInv, Steady, Markers
<1>11. Markers'
  BY <1>0, <1>1, <1>3, <1>7, <1>9, <1>10 DEF SInv, Steady, Markers, CoinsTip
<1> QED BY <1>5, <1>6, <1>11 DEF Steady

(* Moving to the next set of a dump touches no data. *)
LEMMA SteadyDumpNext ==
    ASSUME SInv, DumpNext
    PROVE  Steady'
<1>0. /\ UNCHANGED <<chain, pending, local, passets, db, marker, coinsDB, mode>> /\ flush # "idle"
  BY DEF DumpNext, disk
<1> QED BY <1>0 DEF SInv, Steady, Exact, Markers, MarkerSound, CoinsTip, Supplies

(* A full dump clears passets, with every record of it on disk. *)
LEMMA SteadyDumpDone ==
    ASSUME SInv, DumpDone
    PROVE  Steady'
<1>0. /\ UNCHANGED <<chain, pending, local, db, marker, coinsDB, mode>>
      /\ passets' = EmptyCache /\ flush = "global"
  BY DEF DumpDone, disk
<1>1. pending = <<>> /\ db \in Ledger /\ TypeOK /\ Dumped
  BY <1>0 DEF SInv, RInv, LruInv, Quiet, Store, TypeOK
<1>2. Layered(EmptyCache, passets, db) = db /\ Layered(EmptyCache, EmptyCache, db) = db
  BY <1>1, DumpedLayered, EmptyLayered
<1>3. Exact'
  BY <1>0, <1>1, <1>2 DEF SInv, Steady, Exact
<1>4. Markers' /\ Supplies'
  BY <1>0 DEF SInv, Steady, Markers, MarkerSound, CoinsTip, Supplies
<1> QED BY <1>3, <1>4 DEF Steady

(* The marker is written when the databases hold the ledger of the chain. *)
LEMMA SteadyWriteBestBlock ==
    ASSUME SInv, WriteBestBlock
    PROVE  Steady'
<1>0. /\ UNCHANGED <<chain, pending, local, passets, db, coinsDB, rpos>>
      /\ flush = "marker" /\ marker' = chain /\ flush' = "idle"
      /\ mode' = IF mode = "reindex" THEN "run" ELSE mode
  BY DEF WriteBestBlock
<1>1. /\ local = EmptyCache /\ passets = EmptyCache /\ pending = <<>>
      /\ mode \in {"run", "stopping", "reindex"} /\ db \in Ledger /\ TypeOK /\ coinsDB = chain
  BY <1>0 DEF SInv, RInv, LruInv, Quiet, Store, Phases, Dumped, TypeOK, Steady, Markers
<1>2. Layered(EmptyCache, EmptyCache, db) = db
  BY <1>1, EmptyLayered
<1>3. db = LedgerOf(chain)
  <2>1. CASE mode = "reindex"
    BY <1>0, <1>1, <1>2, <2>1 DEF SInv, RInv, Store, Phases, LedgerOf
  <2>2. CASE mode \in {"run", "stopping"}
    BY <1>1, <1>2, <2>2 DEF SInv, Steady, Exact
  <2> QED BY <1>1, <2>1, <2>2
<1>4. chain # <<>> /\ Len(chain) <= Len(chain)
  BY <1>1, NoMarker
<1>5. Exact'
  BY <1>0, <1>1, <1>2, <1>3 DEF Exact
<1>6. Markers' /\ Supplies'
  BY <1>0, <1>1, <1>3, <1>4 DEF SInv, Steady, Markers, MarkerSound, CoinsTip, Supplies
<1> QED BY <1>5, <1>6 DEF Steady

(* A shutdown request changes only the mode. *)
LEMMA SteadyStop ==
    ASSUME SInv, mode = "run", StopRequest
    PROVE  Steady'
<1>0. /\ UNCHANGED <<chain, pending, local, passets, db, marker, coinsDB, flush>>
      /\ pending = <<>> /\ mode' = "stopping"
  BY DEF StopRequest, Idle, disk
<1> QED BY <1>0 DEF SInv, Steady, Exact, Markers, MarkerSound, CoinsTip, Supplies

(* A restart will go on from an earlier tip of the same chain. *)
LEMMA SteadyCrash ==
    ASSUME SInv, Crash
    PROVE  Steady'
<1>0. /\ UNCHANGED <<db, marker, coinsDB>> /\ mode' = "down" /\ chain' = CoinsTip
      /\ pending' = <<>> /\ local' = EmptyCache /\ passets' = EmptyCache /\ flush' = "idle"
  BY DEF Crash, disk, CoinsTip
<1>1. chain \in Chain /\ Len(chain) \in Nat /\ coinsDB \in Chain
  BY ChainLemma DEF SInv, RInv, LruInv, TypeOK
<1>2. CoinsTip \in Chain /\ Len(CoinsTip) > 0
  <2>1. CASE coinsDB = <<>>
    BY <2>1, EmptyType DEF CoinsTip
  <2>2. CASE coinsDB # <<>>
    BY <1>1, <2>2, ChainLemma DEF CoinsTip
  <2> QED BY <2>1, <2>2
<1>3. EarlierTip(CoinsTip, CoinsTip)
  BY <1>2, EarlierSelf
<1>4. PICK n \in 1..Len(chain) : CoinsTip = SubSeq(chain, 1, n)
  BY DEF SInv, Steady, Markers, EarlierTip
<1>5. Len(CoinsTip) = n /\ \A i \in 1..n : CoinsTip[i] = chain[i]
  BY <1>1, <1>4, SubSeqProperties DEF Chain
<1>6. \A i \in 1..Len(CoinsTip) : i \in 1..Len(chain)
  BY <1>1, <1>5
<1>7. \A i \in 1..Len(CoinsTip) : SupplyOK(CoinsTip[i].led)
  BY <1>5, <1>6 DEF SInv, Steady, Supplies
<1>8. Exact' /\ Supplies'
  BY <1>0, <1>7 DEF Exact, Supplies
<1>9. Markers'
  BY <1>0, <1>3 DEF SInv, Steady, Markers, MarkerSound, CoinsTip
<1> QED BY <1>8, <1>9 DEF Steady

(* A start without a wipe finds the ledger of the coins tip on disk. *)
LEMMA SteadyRestart ==
    ASSUME SInv, Restart(FALSE)
    PROVE  Steady'
<1>0. /\ mode = "down"
      /\ UNCHANGED <<chain, pending, local, passets, coinsDB, flush, rpos>>
      /\ \/ /\ coinsDB # <<>> /\ marker # coinsDB
            /\ db' = EmptyLedger /\ marker' = <<>> /\ mode' = "import"
         \/ /\ coinsDB = <<>> \/ marker = coinsDB
            /\ UNCHANGED <<db, marker>> /\ mode' = "run"
  BY DEF Restart
<1>1. /\ passets = EmptyCache /\ pending = <<>> /\ flush = "idle"
      /\ chain = CoinsTip /\ db \in Ledger /\ TypeOK
  BY <1>0 DEF SInv, RInv, LruInv, Quiet, Store, Phases, TypeOK, CoinsTip
<1>2. Layered(EmptyCache, EmptyCache, db) = db
  BY <1>1, EmptyLayered
<1>3. chain # <<>> /\ Len(<<>>) <= Len(chain) /\ Len(chain) <= Len(chain)
  BY <1>1, NoMarker
<1>4. Supplies'
  BY <1>0, <1>1 DEF SInv, Steady, Supplies
<1>5. CASE mode' = "import"
  <2>1. coinsDB # <<>> /\ marker' = <<>>
    BY <1>0, <1>5
  <2> QED BY <1>0, <1>1, <1>4, <1>5, <2>1 DEF SInv, Steady, Exact, Markers, MarkerSound, CoinsTip
<1>6. CASE mode' = "run"
  <2>1. /\ coinsDB = <<>> \/ marker = coinsDB
        /\ UNCHANGED <<db, marker>>
    BY <1>0, <1>6
  <2>2. db = LedgerOf(chain) /\ Len(marker) <= Len(chain)
    <3>1. CASE coinsDB = <<>>
      BY <1>1, <1>3, <3>1, GenesisValid DEF SInv, Steady, Markers, CoinsTip
    <3>2. CASE coinsDB # <<>>
      BY <1>1, <1>3, <2>1, <3>2 DEF SInv, Steady, Markers, MarkerSound, CoinsTip
    <3> QED BY <3>1, <3>2
  <2>3. Exact'
    BY <1>0, <1>1, <1>2, <2>1, <2>2 DEF Exact
  <2>4. Markers'
    BY <1>0, <1>1, <1>6, <2>1, <2>2 DEF SInv, Steady, Markers, MarkerSound, CoinsTip
  <2> QED BY <1>4, <2>3, <2>4 DEF Steady
<1> QED BY <1>0, <1>5, <1>6

(* A rebuild runs without a marker until its last dump. *)
LEMMA SteadyReindex ==
    ASSUME SInv, StartReindex \/ ReindexTx
    PROVE  Steady'
<1>0. /\ UNCHANGED <<chain, pending, db, marker, coinsDB>>
      /\ mode \in {"import", "reindex"}
  BY DEF StartReindex, ReindexTx, disk
<1>1. /\ pending = <<>> /\ chain = coinsDB /\ TypeOK /\ marker = <<>>
      /\ mode = "import" => passets = EmptyCache /\ db = EmptyLedger /\ flush = "idle"
      /\ chain[1].led = EmptyLedger
  BY <1>0 DEF SInv, RInv, LruInv, Quiet, Store, Phases, ValidChains, Valid, Steady, Markers
<1>2. chain # <<>> /\ Len(<<>>) <= Len(chain)
  BY <1>1, NoMarker
<1>3. Layered(EmptyCache, EmptyCache, EmptyLedger) = EmptyLedger
  BY EmptyType, EmptyLayered
<1>4. mode' = "run" => Layered(EmptyCache, passets', db') = LedgerOf(chain)
  <2>1. CASE StartReindex
    BY <1>0, <1>1, <1>3, <2>1 DEF StartReindex, LedgerOf
  <2>2. CASE ReindexTx
    BY <2>2 DEF ReindexTx
  <2> QED BY <2>1, <2>2
<1>5. mode' \in {"run", "reindex"}
  BY DEF StartReindex, ReindexTx
<1>6. Exact' /\ Supplies'
  BY <1>0, <1>1, <1>4, <1>5 DEF SInv, Steady, Exact, Supplies
<1>7. Markers'
  BY <1>0, <1>1, <1>2, <1>5 DEF SInv, Steady, Markers, MarkerSound, CoinsTip
<1> QED BY <1>6, <1>7 DEF Steady

-----------------------------------------------------------------------------
(* The results *)

(* A fresh node satisfies the invariant. *)
LEMMA SteadyInit == Init => SInv
<1> SUFFICES ASSUME Init PROVE SInv
  OBVIOUS
<1>1. RInv
  BY ReorgInit
<1>2. /\ chain = Genesis /\ pending = <<>> /\ passets = EmptyCache /\ db = EmptyLedger
      /\ marker = <<>> /\ coinsDB = <<>> /\ mode = "run" /\ flush = "idle"
  BY DEF Init
<1>3. chain \in Chain /\ Len(chain) > 0 /\ chain # <<>> /\ Len(<<>>) <= Len(chain)
  BY <1>1, NoMarker DEF RInv, LruInv, TypeOK
<1>4. EarlierTip(CoinsTip, chain)
  BY <1>2, <1>3, EarlierSelf DEF CoinsTip
<1>5. LedgerOf(chain) = EmptyLedger /\ Layered(EmptyCache, EmptyCache, EmptyLedger) = EmptyLedger
  BY <1>2, GenesisValid, EmptyType, EmptyLayered
<1>6. SupplyOK(EmptyLedger)
  BY DEF SupplyOK, EmptyLedger
<1>7. Len(chain) = 1 /\ chain[1].led = EmptyLedger
  BY <1>2 DEF Genesis
<1>8. Exact
  BY <1>2, <1>5 DEF Exact
<1>9. Markers
  BY <1>2, <1>3, <1>4 DEF Markers, MarkerSound
<1>10. Supplies
  <2>1. \A i \in 1..Len(chain) : SupplyOK(chain[i].led)
    BY <1>6, <1>7
  <2> QED BY <1>2, <2>1 DEF Supplies
<1> QED BY <1>1, <1>8, <1>9, <1>10 DEF SInv, Steady

(* Every step of the steady node keeps the invariant. *)
LEMMA SteadyStep == SInv /\ [SteadyNext]_vars => SInv'
<1>1. ASSUME SInv, SteadyNext PROVE SInv'
  <2>1. RInv'
    BY <1>1, ReorgStep DEF SInv, ReorgNext
  <2>2. Steady'
    <3>1. ASSUME NEW tx \in Txs, ConnectTx(tx) \/ RejectBlock(tx) \/ PreChecks(tx) PROVE Steady'
      BY <1>1, <3>1, SteadyConnect, SteadyReject, SteadyPreChecks
    <3>2. CASE (mode = "run" /\ BeginBlock) \/ FinishBlock
      BY <1>1, <3>2, SteadyBegin, SteadyFinish
    <3>3. CASE Dump(TRUE) \/ ((mode = "reindex" => rpos = Len(chain)) /\ Dump(FALSE))
      BY <1>1, <3>3, SteadyDump
    <3>4. CASE (mode # "import" /\ FlushCoins) \/ DumpNext \/ DumpDone \/ WriteBestBlock
      BY <1>1, <3>4, SteadyFlushCoins, SteadyDumpNext, SteadyDumpDone, SteadyWriteBestBlock
    <3>5. CASE (mode = "run" /\ StopRequest) \/ Crash \/ Restart(FALSE)
      BY <1>1, <3>5, SteadyStop, SteadyCrash, SteadyRestart
    <3>6. CASE StartReindex \/ ReindexTx
      BY <1>1, <3>6, SteadyReindex
    <3> QED BY <1>1, <3>1, <3>2, <3>3, <3>4, <3>5, <3>6 DEF SteadyNext
  <2> QED BY <2>1, <2>2 DEF SInv
<1>2. ASSUME SInv, UNCHANGED vars PROVE SInv'
  <2>1. RInv'
    BY <1>2, ReorgStep DEF SInv
  <2>2. Steady'
    BY <1>2, SteadyUnchanged DEF SInv, vars
  <2> QED BY <2>1, <2>2 DEF SInv
<1> QED BY <1>1, <1>2

(* Lookups between blocks answer with the ledger. *)
LEMMA ViewInSteady == SInv => ViewIsLedger
BY ViewInReorg DEF SInv, Steady, Exact, ViewIsLedger

(* While no block is disconnected, lookups between blocks answer with      *)
(* exactly the ledger of the active chain, through dumps that fail,        *)
(* crashes at any step of a dump, restarts and rebuilds.                   *)
THEOREM LookupsAnswerLedger == SteadySpec => []ViewIsLedger
BY SteadyInit, SteadyStep, ViewInSteady, PTL DEF SteadySpec

(* A start-up that finds the best-block marker equal to the coins tip is   *)
(* right to load the databases without rebuilding them.                    *)
THEOREM MarkerIsSound == SteadySpec => []MarkerSound
<1>1. SInv => MarkerSound
  BY DEF SInv, Steady, Markers
<1> QED BY <1>1, SteadyInit, SteadyStep, PTL DEF SteadySpec

(* The checks of issues and reissues keep every supply at most MAX_MONEY   *)
(* and a whole number of the asset's units, for every sequence of them.    *)
THEOREM SuppliesStayWellFormed == SteadySpec => []SupplyWellFormed
<1>1. ASSUME SInv PROVE SupplyWellFormed
  <2>1. Len(chain) \in 1..Len(chain)
    BY <1>1, ChainLemma DEF SInv, RInv, LruInv, TypeOK
  <2>2. SupplyOK(LedgerOf(chain))
    BY <1>1, <2>1 DEF SInv, Steady, Supplies, LedgerOf
  <2>3. mode \in {"run", "stopping"} => View = LedgerOf(chain)
    BY <1>1, ViewInSteady DEF ViewIsLedger
  <2> QED BY <2>2, <2>3 DEF SupplyOK, SupplyWellFormed
<1> QED BY <1>1, SteadyInit, SteadyStep, PTL DEF SteadySpec

(* Only the end of a block and a crash move the chain. *)
LEMMA ChainMoves ==
    ASSUME TypeOK, SteadyNext
    PROVE  UNCHANGED chain \/ FinishBlock \/ (Crash /\ mode' = "down")
<1>1. ASSUME NEW ok \in BOOLEAN, Dump(ok) PROVE UNCHANGED chain
  BY <1>1, DumpWrites
<1> QED BY <1>1 DEF SteadyNext, BeginBlock, ConnectTx, RejectBlock, PreChecks, FlushCoins, DumpNext,
             DumpDone, WriteBestBlock, StopRequest, Crash, Restart, StartReindex, ReindexTx

(* While the process runs, no lookup ever finds an asset with less supply  *)
(* or fewer decimal places than before, and one that was closed to         *)
(* reissues never changes.                                                 *)
THEOREM ReissuesOnlyGrow == SteadySpec => ReissueMonotone
<1>1. ASSUME SInv, ViewIsLedger, ViewIsLedger', [SteadyNext]_vars,
             {mode, mode'} \subseteq {"run", "stopping"}
      PROVE  Grows(View.meta, View.meta')
  <2>1. View = LedgerOf(chain) /\ View' = LedgerOf(chain')
    BY <1>1 DEF ViewIsLedger
  <2>2. LedgerOf(chain) \in Ledger /\ LedgerOf(chain).meta \in MetaMap
    BY <1>1, LedgerOfType, ChainLemma DEF SInv, RInv, LruInv, TypeOK, Ledger
  <2>3. CASE UNCHANGED chain
    BY <2>1, <2>2, <2>3, GrowsReflexive
  <2>4. CASE FinishBlock
    <3>1. pending # <<>> /\ chain' = chain \o pending
      BY <2>4 DEF FinishBlock
    <3>2. LedgerOf(chain') = LedgerOf(pending)
      BY <1>1, <3>1, ConcatValid DEF SInv, RInv, LruInv, TypeOK, Store, ValidChains
    <3> QED BY <1>1, <2>1, <3>1, <3>2 DEF SInv, Steady, Supplies
  <2>5. mode' # "down"
    BY <1>1
  <2>6. TypeOK
    BY <1>1 DEF SInv, RInv, LruInv
  <2> QED BY <1>1, <2>3, <2>4, <2>5, <2>6, ChainMoves DEF vars
<1>2. SInv /\ ViewIsLedger /\ ViewIsLedger' /\ [SteadyNext]_vars =>
        ({mode, mode'} \subseteq {"run", "stopping"} =>
           LET old == View.meta
               new == View.meta'
           IN  \A n \in Names : old[n] # None =>
                   /\ new[n] # None
                   /\ new[n].amount >= old[n].amount
                   /\ new[n].units >= old[n].units
                   /\ old[n].reissuable \/ new[n] = old[n])
  BY <1>1 DEF Grows
<1> QED BY <1>2, SteadyInit, SteadyStep, ViewInSteady, PTL DEF SteadySpec, ReissueMonotone

-----------------------------------------------------------------------------
(* The store implements AssetLedger *)

(* The view that the refinement mapping gives AssetLedger. *)
Shown == IF mode \in {"run", "stopping"} THEN View ELSE LedgerOf(chain)

(* Running or not, that view is the ledger of the chain. *)
LEMMA ShownIsLedger == SInv => Shown = LedgerOf(chain)
BY ViewInSteady DEF ViewIsLedger, Shown

(* AssetLedger has the rules of AssetRules under its own names. *)
LEMMA AbsOperators ==
    /\ Abs!Coinbase = Coinbase
    /\ Abs!EmptyLedger = EmptyLedger
    /\ Abs!Genesis = Genesis
    /\ \A c : Abs!LedgerOf(c) = LedgerOf(c)
    /\ \A l, t : Abs!LedgerSeen(l, t) = LedgerSeen(l, t)
BY DEF Abs!Coinbase, Coinbase, Abs!EmptyLedger, EmptyLedger, Abs!Genesis, Genesis,
       Abs!LedgerOf, LedgerOf, Abs!LedgerSeen, LedgerSeen

(* The two copies of the consensus rules agree. *)
LEMMA AbsChecks ==
    ASSUME NEW s, NEW tx
    PROVE  Abs!CheckTxAssets(s, tx) <=> CheckTxAssets(s, tx)
<1>1. Abs!ContextualCheckNewAsset(s, tx) <=> ContextualCheckNewAsset(s, tx)
  BY DEF Abs!ContextualCheckNewAsset, ContextualCheckNewAsset,
         Abs!CheckAmountWithUnits, CheckAmountWithUnits
<1>2. Abs!ContextualCheckReissueAsset(s, tx) <=> ContextualCheckReissueAsset(s, tx)
  BY DEF Abs!ContextualCheckReissueAsset, ContextualCheckReissueAsset,
         Abs!CheckAmountWithUnits, CheckAmountWithUnits
<1>3. Abs!ContextualCheckTransferAsset(s, tx) <=> ContextualCheckTransferAsset(s, tx)
  BY DEF Abs!ContextualCheckTransferAsset, ContextualCheckTransferAsset,
         Abs!CheckAmountWithUnits, CheckAmountWithUnits
<1>4. Abs!VerifyRestrictedAddressChange(s, tx) <=> VerifyRestrictedAddressChange(s, tx)
  BY DEF Abs!VerifyRestrictedAddressChange, VerifyRestrictedAddressChange
<1>5. Abs!VerifyGlobalRestrictedChange(s, tx) <=> VerifyGlobalRestrictedChange(s, tx)
  BY DEF Abs!VerifyGlobalRestrictedChange, VerifyGlobalRestrictedChange
<1> QED BY <1>1, <1>2, <1>3, <1>4, <1>5 DEF Abs!CheckTxAssets, CheckTxAssets

(* So do the two copies of the effect of a transaction. *)
LEMMA AbsApplies ==
    ASSUME NEW led, NEW tx
    PROVE  Abs!ApplyTx(led, tx) = ApplyTx(led, tx)
<1>1. \A p : Abs!Reissued(p, tx) = Reissued(p, tx)
  BY DEF Abs!Reissued, Reissued
<1>2. \A S, k, t : Abs!Switch(S, k, t) = Switch(S, k, t)
  BY DEF Abs!Switch, Switch
<1> QED BY <1>1, <1>2 DEF Abs!ApplyTx, ApplyTx

(* A fresh node is an empty ledger. *)
LEMMA AbsInit == Init => Abs!Init
<1> SUFFICES ASSUME Init PROVE Abs!Init
  OBVIOUS
<1>1. chain = Genesis /\ pending = <<>> /\ Shown = LedgerOf(chain) /\ LedgerOf(Genesis) = EmptyLedger
  BY SteadyInit, ShownIsLedger, GenesisValid DEF Init
<1> QED BY <1>1, AbsOperators DEF Abs!Init, Shown

(* A step that moves neither the chain nor the block is not seen. *)
LEMMA AbsStutter ==
    ASSUME Shown = LedgerOf(chain), (Shown = LedgerOf(chain))', UNCHANGED <<chain, pending>>
    PROVE  UNCHANGED Abs!vars
<1>1. Shown' = Shown
  OBVIOUS
<1> QED BY <1>1 DEF Abs!vars, Shown

(* The start and the end of a block are those of AssetLedger. *)
LEMMA AbsBlock ==
    ASSUME SInv, Shown = LedgerOf(chain), (Shown = LedgerOf(chain))', BeginBlock \/ FinishBlock
    PROVE  Abs!Next
<1>1. CASE BeginBlock
  <2>1. pending = <<>> /\ pending' = <<[tx |-> Coinbase, led |-> LedgerOf(chain)]>> /\ chain' = chain
    BY <1>1 DEF BeginBlock, Idle
  <2>2. Shown' = Shown
    BY <2>1
  <2>3. Abs!Begin
    BY <2>1, <2>2, AbsOperators DEF Abs!Begin, Shown
  <2> QED BY <2>3 DEF Abs!Next
<1>2. CASE FinishBlock
  <2>1. pending # <<>> /\ pending' = <<>> /\ chain' = chain \o pending
    BY <1>2 DEF FinishBlock
  <2>2. LedgerOf(chain') = LedgerOf(pending)
    BY <2>1, ConcatValid DEF SInv, RInv, LruInv, TypeOK, Store, ValidChains
  <2>3. Shown' = LedgerOf(pending)
    BY <2>2
  <2>4. Abs!Finish
    BY <2>1, <2>3, AbsOperators DEF Abs!Finish, Shown
  <2> QED BY <2>4 DEF Abs!Next
<1> QED BY <1>1, <1>2

(* A transaction is accepted or rejected as AssetLedger would. *)
LEMMA AbsTx ==
    ASSUME SInv, Shown = LedgerOf(chain), (Shown = LedgerOf(chain))', NEW tx \in Txs,
           ConnectTx(tx) \/ RejectBlock(tx)
    PROVE  Abs!Next
<1>1. CASE ConnectTx(tx)
  <2>1. /\ pending # <<>> /\ chain' = chain /\ CheckTxAssets(SeenBy(local), tx)
        /\ pending' = Append(pending, [tx |-> tx, led |-> ApplyTx(LedgerOf(pending), tx)])
    BY <1>1 DEF ConnectTx
  <2>2. Shown' = Shown
    BY <2>1
  <2>3. CheckTxAssets(LedgerSeen(LedgerOf(pending), Shown), tx)
    BY <2>1, SeenIsLedger
  <2>4. Abs!Connect(tx)
    BY <2>1, <2>2, <2>3, AbsOperators, AbsChecks, AbsApplies DEF Abs!Connect, Shown
  <2> QED BY <2>4 DEF Abs!Next
<1>2. CASE RejectBlock(tx)
  <2>1. pending # <<>> /\ chain' = chain /\ ~CheckTxAssets(SeenBy(local), tx) /\ pending' = <<>>
    BY <1>2 DEF RejectBlock
  <2>2. Shown' = Shown
    BY <2>1
  <2>3. ~CheckTxAssets(LedgerSeen(LedgerOf(pending), Shown), tx)
    BY <2>1, SeenIsLedger
  <2>4. Abs!Reject(tx)
    BY <2>1, <2>2, <2>3, AbsOperators, AbsChecks DEF Abs!Reject, Shown
  <2> QED BY <2>4 DEF Abs!Next
<1> QED BY <1>1, <1>2

(* A crash rolls back to the tip that the coins database holds. *)
LEMMA AbsCrash ==
    ASSUME SInv, (Shown = LedgerOf(chain))', Crash
    PROVE  Abs!Next
<1>1. chain' = CoinsTip /\ pending' = <<>>
  BY DEF Crash, CoinsTip
<1>2. chain \in Chain /\ Len(chain) \in Nat
  BY ChainLemma DEF SInv, RInv, LruInv, TypeOK
<1>3. PICK n \in 1..Len(chain) : /\ n < Len(chain) => chain[n + 1].tx = Coinbase
                                 /\ CoinsTip = SubSeq(chain, 1, n)
  BY DEF SInv, Steady, Markers, EarlierTip
<1>4. Len(chain') = n /\ chain'[n] = chain[n]
  BY <1>1, <1>2, <1>3, SubSeqProperties DEF Chain
<1>5. Shown' = chain[n].led
  BY <1>4 DEF LedgerOf
<1>6. Abs!Rollback
  BY <1>1, <1>3, <1>5, AbsOperators DEF Abs!Rollback, Shown
<1> QED BY <1>6 DEF Abs!Next

(* Every step of the store is a step of AssetLedger or is not seen. *)
LEMMA AbsStep ==
    ASSUME SInv, Shown = LedgerOf(chain), (Shown = LedgerOf(chain))', [SteadyNext]_vars
    PROVE  [Abs!Next]_(Abs!vars)
<1>1. ASSUME NEW tx \in Txs, ConnectTx(tx) \/ RejectBlock(tx) PROVE Abs!Next
  BY <1>1, AbsTx
<1>2. CASE BeginBlock \/ FinishBlock
  BY <1>2, AbsBlock
<1>3. CASE Crash
  BY <1>3, AbsCrash
<1>4. ASSUME NEW ok \in BOOLEAN, Dump(ok) PROVE UNCHANGED <<chain, pending>>
  BY <1>4, DumpWrites DEF SInv, RInv, LruInv
<1>5. ASSUME NEW tx \in Txs, PreChecks(tx) PROVE UNCHANGED <<chain, pending>>
  BY <1>5 DEF PreChecks
<1>6. CASE \/ FlushCoins \/ DumpNext \/ DumpDone \/ WriteBestBlock \/ StopRequest \/ Restart(FALSE)
           \/ StartReindex \/ ReindexTx \/ UNCHANGED vars
  <2>1. UNCHANGED <<chain, pending>>
    BY <1>6 DEF FlushCoins, DumpNext, DumpDone, WriteBestBlock, StopRequest, Restart,
                StartReindex, ReindexTx, vars
  <2> QED BY <2>1, AbsStutter
<1>7. CASE UNCHANGED <<chain, pending>>
  BY <1>7, AbsStutter
<1> QED BY <1>1, <1>2, <1>3, <1>4, <1>5, <1>6, <1>7 DEF SteadyNext

(* The caches, databases, dumps, crashes, restarts and rebuilds together   *)
(* implement AssetLedger: a block is accepted or rejected by the ledger of *)
(* the chain alone.                                                        *)
THEOREM StoreKeepsPromise == SteadySpec => KeepsPromise
<1>1. SInv /\ (Shown = LedgerOf(chain)) /\ (Shown = LedgerOf(chain))' /\ [SteadyNext]_vars
        => [Abs!Next]_(Abs!vars)
  BY AbsStep
<1> QED BY <1>1, AbsInit, SteadyInit, SteadyStep, ShownIsLedger, PTL
        DEF SteadySpec, KeepsPromise, Abs!Spec

=============================================================================
