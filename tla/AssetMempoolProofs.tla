------------------------- MODULE AssetMempoolProofs -------------------------
(***************************************************************************)
(* Theorems about AssetMempool.  First the asset indexes: they mirror the  *)
(* mempool, claims are exclusive, and no outpoint is spent twice.  The     *)
(* three need each other: an index with one slot per name mirrors the      *)
(* mempool only if no name is issued twice, and the check that keeps it so *)
(* reads the index.  Then the mempool over the chain: what                 *)
(* CTxMemPool::check asserts, through replacement, packages and            *)
(* reorganisations.  Everything is stated of a mempool value p, since an   *)
(* action takes the mempool through several.                               *)
(***************************************************************************)
EXTENDS AssetMempool, SequenceTheorems, WellFoundedInduction, TLAPS

Apart(s, t) == ~ SameClaim(s, t) /\ s.vin \cap t.vin = {}

PoolInv(p) ==
    /\ p \in Mempool
    /\ Mirrors(p)
    /\ \A s, t \in p.mapTx : s # t => Apart(s, t)

(* Two transactions are apart in either order: SameClaim and sharing an    *)
(* input are symmetric.                                                    *)
LEMMA ApartSymmetric ==
    ASSUME NEW s, NEW t, Apart(s, t)
    PROVE  Apart(t, s)
BY Zenon DEF Apart, SameClaim

(* UnregisterAssetMempoolTx takes out everything that registration put in. *)
LEMMA RemoveKeeps ==
    ASSUME NEW p, PoolInv(p), NEW S
    PROVE  PoolInv(RemoveStaged(p, S)) /\ RemoveStaged(p, S).mapTx = p.mapTx \ S
<1> DEFINE q == RemoveStaged(p, S)
<1>1. q.mapTx = p.mapTx \ S
  BY Zenon DEF RemoveStaged
<1>2. q \in Mempool
  BY Zenon, MempoolAssumption DEF PoolInv, RemoveStaged, Mempool
<1>3. \A e \in AllEntries, tx \in MTxs :
          /\ <<e, tx>> \in q.byValue <=> tx \in q.mapTx /\ e \in Entries(tx)
          /\ <<tx, e>> \in q.byHash <=> tx \in q.mapTx /\ e \in Entries(tx)
  <2> SUFFICES ASSUME NEW e \in AllEntries, NEW tx \in MTxs
               PROVE  /\ <<e, tx>> \in q.byValue <=> tx \in q.mapTx /\ e \in Entries(tx)
                      /\ <<tx, e>> \in q.byHash <=> tx \in q.mapTx /\ e \in Entries(tx)
    BY Zenon
  <2>1. <<e, tx>> \in q.byValue <=>
            <<e, tx>> \in p.byValue /\ ~ (tx \in S /\ <<tx, e>> \in p.byHash)
    BY Zenon DEF RemoveStaged
  <2>2. <<tx, e>> \in q.byHash <=> <<tx, e>> \in p.byHash /\ tx \notin S
    BY Zenon DEF RemoveStaged
  <2> QED
    BY Zenon, <1>1, <2>1, <2>2 DEF PoolInv, Mirrors
<1>4. \A n \in Names, tx \in MTxs :
          q.mapAssetToHash[n] = tx <=> tx \in q.mapTx /\ n \in IssuedName(tx)
  <2> SUFFICES ASSUME NEW n \in Names, NEW tx \in MTxs
               PROVE  q.mapAssetToHash[n] = tx <=> tx \in q.mapTx /\ n \in IssuedName(tx)
    BY Zenon
  <2>1. q.mapAssetToHash[n] =
            IF \E t \in S : n \in IssuedName(t) /\ p.mapAssetToHash[n] = t
            THEN None ELSE p.mapAssetToHash[n]
    BY Zenon DEF RemoveStaged
  <2>2. p.mapAssetToHash[n] = tx <=> tx \in p.mapTx /\ n \in IssuedName(tx)
    BY Zenon DEF PoolInv, Mirrors
  <2> QED
    BY Zenon, <1>1, <2>1, <2>2, MempoolAssumption
<1> QED
  BY Zenon, <1>1, <1>2, <1>3, <1>4 DEF PoolInv, Mirrors

(* Registration puts a transaction under each value and each value under   *)
(* the transaction.                                                        *)
LEMMA RegisterFields ==
    ASSUME NEW p \in Mempool, NEW tx \in MTxs, NEW entries, entries \subseteq AllEntries
    PROVE  /\ Register(p, tx, entries) \in Mempool
           /\ Register(p, tx, entries).mapTx = p.mapTx
           /\ Register(p, tx, entries).links = p.links
           /\ Register(p, tx, entries).mapAssetToHash = p.mapAssetToHash
           /\ Register(p, tx, entries).byValue = p.byValue \cup {<<e, tx>> : e \in entries}
           /\ Register(p, tx, entries).byHash = p.byHash \cup {<<tx, e>> : e \in entries}
<1>1. /\ {<<e, tx>> : e \in entries} \subseteq AllEntries \X MTxs
      /\ {<<tx, e>> : e \in entries} \subseteq MTxs \X AllEntries
  OBVIOUS
<1>2. /\ p.byValue \cup {<<e, tx>> : e \in entries} \in SUBSET (AllEntries \X MTxs)
      /\ p.byHash \cup {<<tx, e>> : e \in entries} \in SUBSET (MTxs \X AllEntries)
  BY Zenon, <1>1 DEF Mempool
<1>3. Register(p, tx, entries) \in Mempool
  BY Zenon, <1>2 DEF Register, Mempool
<1> QED
  BY Zenon, <1>3 DEF Register, Mempool

(* The values that an output or an input of a transaction stands for are   *)
(* entries.                                                                *)
LEMMA EntriesType ==
    ASSUME NEW tx \in MTxs
    PROVE  Entries(tx) \subseteq AllEntries /\ VoutEntries(tx) \subseteq AllEntries
           /\ VinEntries(tx) \subseteq AllEntries
BY Zenon DEF AllEntries, Entries

NewLinks(p, tx) == {<<q, tx>> : q \in {q \in p.mapTx : Spends(tx, q)}}

(* What addNewTransaction leaves, field by field. *)
LEMMA AddNewFields ==
    ASSUME NEW p \in Mempool, NEW tx \in MTxs
    PROVE  /\ AddNewTransaction(p, tx) \in Mempool
           /\ AddNewTransaction(p, tx).mapTx = p.mapTx \cup {tx}
           /\ AddNewTransaction(p, tx).links = p.links \cup NewLinks(p, tx)
           /\ AddNewTransaction(p, tx).byValue =
                  p.byValue \cup {<<e, tx>> : e \in VoutEntries(tx)}
           /\ AddNewTransaction(p, tx).byHash =
                  p.byHash \cup {<<tx, e>> : e \in VoutEntries(tx)}
           /\ AddNewTransaction(p, tx).mapAssetToHash =
                  [n \in Names |-> IF n \in IssuedName(tx) THEN tx ELSE p.mapAssetToHash[n]]
<1> DEFINE b == Register(p, tx, VoutEntries(tx))
           a == AddNewTransaction(p, tx)
<1>1. /\ b \in Mempool
      /\ b.mapTx = p.mapTx /\ b.links = p.links
      /\ b.mapAssetToHash = p.mapAssetToHash
      /\ b.byValue = p.byValue \cup {<<e, tx>> : e \in VoutEntries(tx)}
      /\ b.byHash = p.byHash \cup {<<tx, e>> : e \in VoutEntries(tx)}
  BY Zenon, RegisterFields, EntriesType
<1>2. a = [b EXCEPT !.mapTx = @ \cup {tx}, !.links = @ \cup NewLinks(p, tx),
                    !.mapAssetToHash = [n \in Names |-> IF n \in IssuedName(tx) THEN tx ELSE @[n]]]
  BY Zenon DEF AddNewTransaction, NewLinks
<1> HIDE DEF b, a
<1>3. NewLinks(p, tx) \subseteq MTxs \X MTxs
  BY DEF NewLinks, Mempool
<1>4. a \in Mempool
  BY Zenon, <1>1, <1>2, <1>3 DEF Mempool
<1>5. /\ a.mapTx = b.mapTx \cup {tx} /\ a.links = b.links \cup NewLinks(p, tx)
      /\ a.byValue = b.byValue /\ a.byHash = b.byHash
      /\ a.mapAssetToHash =
             [n \in Names |-> IF n \in IssuedName(tx) THEN tx ELSE b.mapAssetToHash[n]]
  BY Zenon, <1>1, <1>2 DEF Mempool
<1> QED
  BY Zenon, <1>1, <1>4, <1>5 DEF a

(* The full registration of one transaction. *)
Added(p, tx) == RegisterVins(AddNewTransaction(p, tx), tx)

(* Together they list all entries of the transaction. *)
LEMMA AddedFields ==
    ASSUME NEW p \in Mempool, NEW tx \in MTxs
    PROVE  /\ Added(p, tx) \in Mempool
           /\ Added(p, tx).mapTx = p.mapTx \cup {tx}
           /\ Added(p, tx).links = p.links \cup NewLinks(p, tx)
           /\ Added(p, tx).byValue = p.byValue \cup {<<e, tx>> : e \in Entries(tx)}
           /\ Added(p, tx).byHash = p.byHash \cup {<<tx, e>> : e \in Entries(tx)}
           /\ Added(p, tx).mapAssetToHash =
                  [n \in Names |-> IF n \in IssuedName(tx) THEN tx ELSE p.mapAssetToHash[n]]
<1> DEFINE a == AddNewTransaction(p, tx)
<1>1. /\ a \in Mempool
      /\ a.mapTx = p.mapTx \cup {tx} /\ a.links = p.links \cup NewLinks(p, tx)
      /\ a.byValue = p.byValue \cup {<<e, tx>> : e \in VoutEntries(tx)}
      /\ a.byHash = p.byHash \cup {<<tx, e>> : e \in VoutEntries(tx)}
      /\ a.mapAssetToHash =
             [n \in Names |-> IF n \in IssuedName(tx) THEN tx ELSE p.mapAssetToHash[n]]
  BY Zenon, AddNewFields
<1> HIDE DEF a
<1>2. /\ RegisterVins(a, tx) \in Mempool
      /\ RegisterVins(a, tx).mapTx = a.mapTx /\ RegisterVins(a, tx).links = a.links
      /\ RegisterVins(a, tx).byValue = a.byValue \cup {<<e, tx>> : e \in VinEntries(tx)}
      /\ RegisterVins(a, tx).byHash = a.byHash \cup {<<tx, e>> : e \in VinEntries(tx)}
      /\ RegisterVins(a, tx).mapAssetToHash = a.mapAssetToHash
  BY <1>1, RegisterFields, EntriesType DEF RegisterVins
<1>3. Added(p, tx) = RegisterVins(a, tx)
  BY Zenon DEF Added, a
<1>4. Entries(tx) = VoutEntries(tx) \cup VinEntries(tx)
  BY Zenon DEF Entries
<1> QED
  BY <1>1, <1>2, <1>3, <1>4

(* Adding a transaction that is apart from all others keeps the index.     *)
LEMMA AddKeeps ==
    ASSUME NEW p, PoolInv(p), NEW tx \in MTxs, tx \notin p.mapTx,
           \A s \in p.mapTx : Apart(s, tx)
    PROVE  PoolInv(Added(p, tx))
<1> DEFINE q == Added(p, tx)
<1>1. p \in Mempool
  BY Zenon DEF PoolInv
<1>2. /\ q \in Mempool
      /\ q.mapTx = p.mapTx \cup {tx}
      /\ q.byValue = p.byValue \cup {<<e, tx>> : e \in Entries(tx)}
      /\ q.byHash = p.byHash \cup {<<tx, e>> : e \in Entries(tx)}
      /\ q.mapAssetToHash =
             [n \in Names |-> IF n \in IssuedName(tx) THEN tx ELSE p.mapAssetToHash[n]]
  BY Zenon, <1>1, AddedFields
<1> HIDE DEF q
<1>3. \A e \in AllEntries, t \in MTxs :
          /\ <<e, t>> \in q.byValue <=> t \in q.mapTx /\ e \in Entries(t)
          /\ <<t, e>> \in q.byHash <=> t \in q.mapTx /\ e \in Entries(t)
  <2> SUFFICES ASSUME NEW e \in AllEntries, NEW t \in MTxs
               PROVE  /\ <<e, t>> \in q.byValue <=> t \in q.mapTx /\ e \in Entries(t)
                      /\ <<t, e>> \in q.byHash <=> t \in q.mapTx /\ e \in Entries(t)
    BY Zenon
  <2>1. <<e, t>> \in q.byValue <=> <<e, t>> \in p.byValue \/ (t = tx /\ e \in Entries(tx))
    BY Zenon, <1>2
  <2>2. <<t, e>> \in q.byHash <=> <<t, e>> \in p.byHash \/ (t = tx /\ e \in Entries(tx))
    BY Zenon, <1>2
  <2>3. /\ <<e, t>> \in p.byValue <=> t \in p.mapTx /\ e \in Entries(t)
        /\ <<t, e>> \in p.byHash <=> t \in p.mapTx /\ e \in Entries(t)
    BY Zenon DEF PoolInv, Mirrors
  <2> QED
    BY Zenon, <1>2, <2>1, <2>2, <2>3
<1>4. \A n \in Names, t \in MTxs :
          q.mapAssetToHash[n] = t <=> t \in q.mapTx /\ n \in IssuedName(t)
  BY <1>2 DEF PoolInv, Mirrors, Apart, SameClaim
<1>5. \A s, t \in q.mapTx : s # t => Apart(s, t)
  <2> SUFFICES ASSUME NEW s \in q.mapTx, NEW t \in q.mapTx, s # t
               PROVE  Apart(s, t)
    BY Zenon
  <2>1. CASE s \in p.mapTx /\ t \in p.mapTx
    BY Zenon, <2>1 DEF PoolInv
  <2>2. CASE t = tx
    BY Zenon, <1>2, <2>2
  <2>3. CASE s = tx
    BY Zenon, <1>2, <2>3, ApartSymmetric
  <2> QED
    BY Zenon, <1>2, <2>1, <2>2, <2>3
<1>6. PoolInv(q)
  BY Zenon, <1>2, <1>3, <1>4, <1>5 DEF PoolInv, Mirrors
<1> QED
  BY Zenon, <1>6 DEF q

(* What CheckAssetMempoolPolicy learns from the index holds of the mempool *)
(* itself: nobody makes the claim.                                         *)
LEMMA PolicySound ==
    ASSUME NEW p, PoolInv(p), NEW tx \in MTxs, ~ InMempool(p, tx)
    PROVE  \A s \in p.mapTx : ~ SameClaim(s, tx)
<1> SUFFICES ASSUME NEW s \in p.mapTx, SameClaim(s, tx)
             PROVE  FALSE
  BY Zenon
<1>1. s \in MTxs
  BY Zenon DEF PoolInv, Mempool
<1>2. CASE IssuedName(s) \cap IssuedName(tx) # {}
  <2>1. PICK n : n \in IssuedName(s) /\ n \in IssuedName(tx)
    BY Zenon, <1>2
  <2>2. n \in Names
    BY <2>1, <1>1, MempoolAssumption, ConstantsAssumption
       DEF IssuedName, MTx, TagTx, NoAsset, AssetTx, IssueTx, ReissueTx, TransferTx,
           RestrictTx, GlobalTx
  <2>3. p.mapAssetToHash[n] = s
    BY Zenon, <1>1, <2>1, <2>2 DEF PoolInv, Mirrors
  <2> QED
    BY Zenon, <1>1, <2>1, <2>3, MempoolAssumption DEF InMempool
<1>3. CASE Exclusive(s) \cap Exclusive(tx) # {}
  <2>1. PICK e : e \in Exclusive(s) /\ e \in Exclusive(tx)
    BY Zenon, <1>3
  <2>2. e \in Entries(s) /\ e \in AllEntries
    BY <1>1, <2>1 DEF Entries, VoutEntries, AllEntries
  <2>3. <<e, s>> \in p.byValue
    BY Zenon, <1>1, <2>2 DEF PoolInv, Mirrors
  <2> QED
    BY Zenon, <1>1, <2>1, <2>3 DEF InMempool
<1> QED
  BY Zenon, <1>2, <1>3 DEF SameClaim

(* CalculateDescendants starts from the set it is given. *)
LEMMA DescendantsContain ==
    ASSUME NEW p, NEW S, S \subseteq p.mapTx
    PROVE  S \subseteq Descendants(p, S)
BY Zenon DEF Descendants

(* FinalizeSubpackage and the registration of inputs: a transaction that   *)
(* passes the checks may replace others.                                   *)
LEMMA AcceptedKeeps ==
    ASSUME NEW tx \in MTxs, PoolInv(mp), CanAccept(tx)
    PROVE  PoolInv(Accepted(mp, tx))
<1> DEFINE out == Descendants(mp, Conflicts(mp, tx))
           q == RemoveStaged(mp, out)
<1>1. PoolInv(q) /\ q.mapTx = mp.mapTx \ out
  BY Zenon, RemoveKeeps
<1>2. Conflicts(mp, tx) \subseteq out
  BY Zenon, DescendantsContain DEF Conflicts
<1>3. tx \notin mp.mapTx /\ ~ InMempool(mp, tx)
  BY Zenon DEF CanAccept, PreChecks, CheckAssetMempoolPolicy
<1>4. \A s \in mp.mapTx : ~ SameClaim(s, tx)
  BY Zenon, <1>3, PolicySound
<1>5. \A s \in mp.mapTx \ out : s.vin \cap tx.vin = {}
  BY Zenon, <1>2 DEF Conflicts
<1>6. \A s \in q.mapTx : Apart(s, tx)
  BY Zenon, <1>1, <1>4, <1>5 DEF Apart
<1> HIDE DEF q
<1>7. PoolInv(Added(q, tx))
  BY Zenon, <1>1, <1>3, <1>6, AddKeeps
<1> QED
  BY Zenon, <1>7 DEF Accepted, Added, q

(* A mempool is its fields. *)
LEMMA MempoolEqual ==
    ASSUME NEW x \in Mempool, NEW y \in Mempool,
           x.mapTx = y.mapTx, x.links = y.links, x.mapAssetToHash = y.mapAssetToHash,
           x.byValue = y.byValue, x.byHash = y.byHash
    PROVE  x = y
BY DEF Mempool

(* Registering inputs and adding another transaction commute. *)
LEMMA RegisterCommutes ==
    ASSUME NEW p \in Mempool, NEW s \in MTxs, NEW t \in MTxs
    PROVE  AddNewTransaction(RegisterVins(p, s), t) = RegisterVins(AddNewTransaction(p, t), s)
<1> DEFINE r == RegisterVins(p, s)
           a == AddNewTransaction(p, t)
           x == AddNewTransaction(r, t)
           y == RegisterVins(a, s)
<1>1. /\ r \in Mempool /\ r.mapTx = p.mapTx /\ r.links = p.links
      /\ r.mapAssetToHash = p.mapAssetToHash
      /\ r.byValue = p.byValue \cup {<<e, s>> : e \in VinEntries(s)}
      /\ r.byHash = p.byHash \cup {<<s, e>> : e \in VinEntries(s)}
  BY RegisterFields, EntriesType DEF RegisterVins
<1>2. /\ a \in Mempool /\ a.mapTx = p.mapTx \cup {t} /\ a.links = p.links \cup NewLinks(p, t)
      /\ a.byValue = p.byValue \cup {<<e, t>> : e \in VoutEntries(t)}
      /\ a.byHash = p.byHash \cup {<<t, e>> : e \in VoutEntries(t)}
      /\ a.mapAssetToHash =
             [n \in Names |-> IF n \in IssuedName(t) THEN t ELSE p.mapAssetToHash[n]]
  BY Zenon, AddNewFields
<1> HIDE DEF r, a
<1>3. /\ x \in Mempool /\ x.mapTx = r.mapTx \cup {t} /\ x.links = r.links \cup NewLinks(r, t)
      /\ x.byValue = r.byValue \cup {<<e, t>> : e \in VoutEntries(t)}
      /\ x.byHash = r.byHash \cup {<<t, e>> : e \in VoutEntries(t)}
      /\ x.mapAssetToHash =
             [n \in Names |-> IF n \in IssuedName(t) THEN t ELSE r.mapAssetToHash[n]]
  BY Zenon, <1>1, AddNewFields
<1>4. /\ y \in Mempool /\ y.mapTx = a.mapTx /\ y.links = a.links
      /\ y.mapAssetToHash = a.mapAssetToHash
      /\ y.byValue = a.byValue \cup {<<e, s>> : e \in VinEntries(s)}
      /\ y.byHash = a.byHash \cup {<<s, e>> : e \in VinEntries(s)}
  BY <1>2, RegisterFields, EntriesType DEF RegisterVins
<1> HIDE DEF x, y
<1>5. NewLinks(r, t) = NewLinks(p, t)
  BY Zenon, <1>1 DEF NewLinks
<1>6. x.mapTx = y.mapTx /\ x.links = y.links /\ x.mapAssetToHash = y.mapAssetToHash
  BY <1>1, <1>2, <1>3, <1>4, <1>5
<1>7. x.byValue = y.byValue
  BY Zenon, <1>1, <1>2, <1>3, <1>4
<1>8. x.byHash = y.byHash
  BY Zenon, <1>1, <1>2, <1>3, <1>4
<1>9. x = y
  BY Zenon, <1>3, <1>4, <1>6, <1>7, <1>8, MempoolEqual
<1> QED
  BY Zenon, <1>9 DEF x, y, r, a

(* SubmitPackage adds both transactions and then registers the inputs of   *)
(* both, which comes to the same as one after the other.                   *)
LEMMA PackageOrder ==
    ASSUME NEW q \in Mempool, NEW parent \in MTxs, NEW child \in MTxs
    PROVE  RegisterVins(RegisterVins(
               AddNewTransaction(AddNewTransaction(q, parent), child), parent), child)
           = Added(Added(q, parent), child)
<1>1. AddNewTransaction(q, parent) \in Mempool
  BY Zenon, AddNewFields
<1> QED
  BY Zenon, <1>1, RegisterCommutes DEF Added

(* SubmitPackage keeps the index: the transactions of a package are apart  *)
(* from what stays in the mempool and from each other.                     *)
LEMMA AcceptedPackageKeeps ==
    ASSUME NEW parent \in MTxs, NEW child \in MTxs, PoolInv(mp),
           AcceptMultipleTransactions(parent, child)
    PROVE  PoolInv(AcceptedPackage(mp, parent, child))
<1> DEFINE conf == Conflicts(mp, parent) \cup Conflicts(mp, child)
           out == Descendants(mp, conf)
           q == RemoveStaged(mp, out)
<1>1. PoolInv(q) /\ q.mapTx = mp.mapTx \ out
  BY Zenon, RemoveKeeps
<1>2. conf \subseteq out
  <2>1. conf \subseteq mp.mapTx
    BY Zenon DEF Conflicts
  <2> QED
    BY Zenon, <2>1, DescendantsContain
<1>3. /\ parent # child /\ parent.vin \cap child.vin = {}
      /\ parent \notin mp.mapTx /\ child \notin mp.mapTx
      /\ ~ InMempool(mp, parent) /\ ~ InMempool(mp, child) /\ ~ SameClaim(parent, child)
  BY Zenon DEF AcceptMultipleTransactions, PreChecks, CheckAssetMempoolPolicyPackage
<1>4. \A s \in mp.mapTx : ~ SameClaim(s, parent) /\ ~ SameClaim(s, child)
  BY Zenon, <1>3, PolicySound
<1>5. \A s \in mp.mapTx \ out : s.vin \cap parent.vin = {} /\ s.vin \cap child.vin = {}
  BY Zenon, <1>2 DEF Conflicts
<1>6. \A s \in q.mapTx : Apart(s, parent) /\ Apart(s, child)
  BY Zenon, <1>1, <1>4, <1>5 DEF Apart
<1> HIDE DEF q
<1> DEFINE r == Added(q, parent)
<1>7. PoolInv(r)
  BY Zenon, <1>1, <1>3, <1>6, AddKeeps
<1>8. q \in Mempool
  BY Zenon, <1>1 DEF PoolInv
<1>9. r.mapTx = q.mapTx \cup {parent}
  BY Zenon, <1>8, AddedFields
<1>10. Apart(parent, child)
  BY Zenon, <1>3 DEF Apart
<1> HIDE DEF r
<1>11. PoolInv(Added(r, child))
  BY Zenon, <1>1, <1>3, <1>6, <1>7, <1>9, <1>10, AddKeeps
<1>12. AcceptedPackage(mp, parent, child) = Added(r, child)
  BY Zenon, <1>8, PackageOrder DEF AcceptedPackage, q, r
<1> QED
  BY Zenon, <1>11, <1>12

(* LimitMempoolSize only removes. *)
LEMMA LimitKeeps ==
    ASSUME NEW p, PoolInv(p), NEW q \in LimitMempoolSize(p)
    PROVE  PoolInv(q)
<1>1. PICK D : q = RemoveStaged(p, D)
  BY Zenon DEF LimitMempoolSize
<1> QED
  BY Zenon, <1>1, RemoveKeeps

(* UpdateTransactionsFromBlock changes links and nothing else. *)
LEMMA UpdateKeeps ==
    ASSUME NEW p, PoolInv(p), NEW S
    PROVE  PoolInv(UpdateTransactionsFromBlock(p, S))
<1> DEFINE new == {l \in (p.mapTx \cap S) \X (p.mapTx \ S) : Spends(l[2], l[1])}
           q == [p EXCEPT !.links = @ \cup new]
<1>1. p \in Mempool
  BY Zenon DEF PoolInv
<1>2. new \subseteq MTxs \X MTxs
  BY Zenon, <1>1 DEF Mempool
<1> HIDE DEF new
<1>3. q \in Mempool
  BY Zenon, <1>1, <1>2 DEF Mempool
<1>4. /\ q.mapTx = p.mapTx /\ q.mapAssetToHash = p.mapAssetToHash
      /\ q.byValue = p.byValue /\ q.byHash = p.byHash
  BY Zenon, <1>1 DEF Mempool
<1> HIDE DEF q
<1>5. PoolInv(q)
  BY Zenon, <1>3, <1>4 DEF PoolInv, Mirrors
<1> QED
  BY Zenon, <1>5 DEF q, new, UpdateTransactionsFromBlock

(* The mempool is empty when the node starts. *)
LEMMA InitPool == Init => PoolInv(mp)
<1> SUFFICES ASSUME Init
             PROVE  PoolInv(mp)
  BY Zenon
<1>1. mp = EmptyMempool
  BY Zenon DEF Init
<1>2. mp \in Mempool
  BY Zenon, <1>1 DEF EmptyMempool, Mempool
<1>3. Mirrors(mp)
  BY Zenon, <1>1, MempoolAssumption DEF EmptyMempool, Mirrors
<1> QED
  BY Zenon, <1>1, <1>2, <1>3 DEF EmptyMempool, PoolInv

(* Every step takes a mempool whose index is exact to another one. *)
LEMMA NextPool == PoolInv(mp) /\ [Next]_vars => PoolInv(mp')
<1> SUFFICES ASSUME PoolInv(mp), [Next]_vars
             PROVE  PoolInv(mp')
  BY Zenon
<1>1. ASSUME NEW tx \in MTxs, AcceptSingleTransaction(tx)
      PROVE  PoolInv(mp')
  BY Zenon, <1>1, AcceptedKeeps, LimitKeeps DEF AcceptSingleTransaction
<1>2. ASSUME NEW parent \in MTxs, NEW child \in MTxs, AcceptMultipleTransactions(parent, child)
      PROVE  PoolInv(mp')
  <2>1. PoolInv(AcceptedPackage(mp, parent, child))
    BY Zenon, <1>2, AcceptedPackageKeeps
  <2>2. mp' \in LimitMempoolSize(AcceptedPackage(mp, parent, child))
    BY Zenon, <1>2 DEF AcceptMultipleTransactions
  <2> QED
    BY Zenon, <2>1, <2>2, LimitKeeps
<1>3. ASSUME NEW blk \in Blocks, ConnectTip(blk)
      PROVE  PoolInv(mp')
  <2>1. mp' = RemoveForBlock(mp, Range(blk))
    BY Zenon, <1>3 DEF ConnectTip
  <2> QED
    BY Zenon, <2>1, RemoveKeeps DEF RemoveForBlock
<1>4. CASE DisconnectTip
  <2>1. PICK T : mp' = RemoveRecursive(mp, T)
    BY Zenon, <1>4 DEF DisconnectTip
  <2> QED
    BY Zenon, <2>1, RemoveKeeps DEF RemoveRecursive
<1>5. ASSUME NEW tx \in MTxs, Resubmit(tx)
      PROVE  PoolInv(mp')
  <2>1. CASE CanAccept(tx) /\ mp' = Accepted(mp, tx)
    BY Zenon, <2>1, AcceptedKeeps
  <2>2. CASE mp' = RemoveRecursive(mp, {tx})
    BY Zenon, <2>2, RemoveKeeps DEF RemoveRecursive
  <2> QED
    BY Zenon, <1>5, <2>1, <2>2 DEF Resubmit
<1>6. CASE FinishReorg
  <2>1. mp' \in LimitMempoolSize(UpdateTransactionsFromBlock(mp, vHashUpdate))
    BY Zenon, <1>6 DEF FinishReorg
  <2> QED
    BY Zenon, <2>1, UpdateKeeps, LimitKeeps
<1>7. CASE UNCHANGED vars
  BY Zenon, <1>7 DEF vars
<1> QED
  BY Zenon, <1>1, <1>2, <1>3, <1>4, <1>5, <1>6, <1>7 DEF Next

(* The inductive invariant holds always. *)
LEMMA PoolAlways == Spec => []PoolInv(mp)
<1> DEFINE Inv == PoolInv(mp)
<1>1. Init => Inv
  BY Zenon, InitPool
<1>2. Inv /\ [Next]_vars => Inv'
  BY Zenon, NextPool
<1> HIDE DEF Inv
<1>3. Spec => []Inv
  BY <1>1, <1>2, PTL DEF Spec
<1> QED
  BY Zenon, <1>3 DEF Inv

(* However transactions come and go, the asset indexes of the mempool list *)
(* exactly what its transactions say: nothing is left behind by an         *)
(* eviction, and nothing is lost by the removal of another transaction.    *)
THEOREM IndexAlwaysMirrorsPool == Spec => []IndexMirrorsPool
<1>1. PoolInv(mp) => IndexMirrorsPool
  BY Zenon DEF PoolInv, IndexMirrorsPool
<1> QED
  BY <1>1, PoolAlways, PTL

(* CheckAssetMempoolPolicy does its work: no two transactions of the       *)
(* mempool issue one name, make the same global change of an asset, or     *)
(* make the same change of a tag.                                          *)
THEOREM ClaimsAlwaysExclusive == Spec => []ClaimsExclusive
<1>1. PoolInv(mp) => ClaimsExclusive
  BY Zenon DEF PoolInv, Apart, ClaimsExclusive
<1> QED
  BY <1>1, PoolAlways, PTL

(* The mempool never holds two transactions that spend one outpoint,       *)
(* through replacement, packages and resubmission after a reorganisation.  *)
THEOREM NeverDoubleSpends == Spec => []NoDoubleSpend
<1>1. PoolInv(mp) => NoDoubleSpend
  BY Zenon DEF PoolInv, Apart, NoDoubleSpend
<1> QED
  BY <1>1, PoolAlways, PTL

-----------------------------------------------------------------------------
(* Recursive definitions *)

(* A set of numbers has a least member. *)
LEMMA MinExists ==
    ASSUME NEW T, T \subseteq Nat, T # {}
    PROVE  \E n \in T : \A m \in T : n <= m
<1>1. PICK n \in T : \A m \in T : ~(<<m, n>> \in OpToRel(<, Nat))
  BY Zenon, WFMin, NatLessThanWellFounded
<1>2. \A m \in T : ~(m < n)
  BY Zenon, <1>1 DEF OpToRel
<1> QED
  BY <1>2

(* n steps from b, the i-th by the function G[i]. *)
Steps(X, n, b, G) ==
    \E r \in [0..n -> X] : r[0] = b /\ \A i \in 1..n : r[i] = G[i][r[i - 1]]

(* They can be taken. *)
LEMMA Recursion ==
    ASSUME NEW X, NEW n \in Nat, NEW b \in X, NEW G \in [1..n -> [X -> X]]
    PROVE  Steps(X, n, b, G)
<1> DEFINE Run(m) == \E r \in [0..m -> X] : r[0] = b /\ \A i \in 1..m : r[i] = G[i][r[i - 1]]
           T == {m \in 0..n : ~Run(m)}
<1>1. Run(0)
  <2> DEFINE r == [i \in 0..0 |-> b]
  <2>1. r \in [0..0 -> X] /\ r[0] = b /\ \A i \in 1..0 : r[i] = G[i][r[i - 1]]
    OBVIOUS
  <2> QED
    BY Zenon, <2>1
<1>2. ASSUME NEW m \in 1..n, Run(m - 1)
      PROVE  Run(m)
  <2>1. PICK r \in [0..m - 1 -> X] : r[0] = b /\ \A i \in 1..m - 1 : r[i] = G[i][r[i - 1]]
    BY Zenon, <1>2
  <2> DEFINE s == [i \in 0..m |-> IF i = m THEN G[m][r[m - 1]] ELSE r[i]]
  <2>2. G[m] \in [X -> X] /\ r[m - 1] \in X
    OBVIOUS
  <2>3. s \in [0..m -> X]
    BY <2>2
  <2>4. s[0] = b
    BY <2>1
  <2>5. ASSUME NEW i \in 1..m
        PROVE  s[i] = G[i][s[i - 1]]
    <3>1. CASE i = m
      BY <3>1
    <3>2. CASE i # m
      BY <2>1, <3>2
    <3> QED
      BY Zenon, <3>1, <3>2
  <2> HIDE DEF s
  <2> QED
    BY Zenon, <2>3, <2>4, <2>5
<1> HIDE DEF Run
<1>3. T = {}
  <2> SUFFICES ASSUME T # {}
               PROVE  FALSE
    BY Zenon
  <2>1. T \subseteq Nat
    OBVIOUS
  <2>2. PICK m \in T : \A k \in T : m <= k
    BY Zenon, <2>1, MinExists
  <2>3. m # 0
    BY Zenon, <1>1
  <2>4. m - 1 \in 0..n /\ m - 1 \notin T
    BY <2>2, <2>3
  <2> QED
    BY <1>2, <2>2, <2>3, <2>4
<1>4. Run(n)
  BY <1>3
<1> QED
  BY Zenon, <1>4 DEF Run, Steps

(* A transaction leaves a ledger. *)
LEMMA ApplyAssetType ==
    ASSUME NEW led \in Ledger, NEW tx \in MTxs
    PROVE  ApplyAsset(led, tx.asset) \in Ledger
<1> DEFINE a == tx.asset
<1>1. a \in Txs \/ a \in TagTx \/ a = NoAsset
  BY Zenon, MempoolAssumption DEF MTx
<1> HIDE DEF a
<1>2. ASSUME a \in AssetTx
      PROVE  ApplyTx(led, a) \in Ledger
  <2>1. led.meta \in MetaMap /\ led.frozen \in SUBSET Key /\ led.global \in SUBSET Names
    BY Zenon DEF Ledger
  <2>2. CASE a \in IssueTx
    BY Zenon, <2>1, <2>2 DEF IssueTx, ApplyTx, Ledger, MetaMap
  <2>3. CASE a \in ReissueTx
    <3>1. led.meta[a.name] # None => Reissued(led.meta[a.name], a) \in Meta
      BY <2>1, <2>3, ConstantsAssumption DEF ReissueTx, Reissued, MetaMap, Meta
    <3> QED
      BY Zenon, <2>1, <2>3, <3>1 DEF ReissueTx, ApplyTx, Ledger, MetaMap
  <2>4. CASE a \in TransferTx
    BY Zenon, <2>1, <2>4 DEF TransferTx, ApplyTx, Ledger
  <2>5. CASE a \in RestrictTx
    BY <2>1, <2>5 DEF RestrictTx, ApplyTx, Ledger, Switch, Key
  <2>6. CASE a \in GlobalTx
    BY Zenon, <2>1, <2>6 DEF GlobalTx, ApplyTx, Ledger, Switch
  <2> QED
    BY Zenon, <1>2, <2>2, <2>3, <2>4, <2>5, <2>6 DEF AssetTx
<1>3. ApplyAsset(led, a) \in Ledger
  BY Zenon, <1>1, <1>2, ConstantsAssumption DEF ApplyAsset, TagTx
<1> QED
  BY Zenon, <1>3 DEF a

(* A block leaves a ledger. *)
LEMMA AppliedType ==
    ASSUME NEW led \in Ledger, NEW blk \in Seq(MTxs)
    PROVE  AppliedTo(led, blk) \in Ledger
<1> DEFINE n == Len(blk)
           F(f) == [i \in 0..n |-> IF i = 0 THEN led ELSE ApplyAsset(f[i - 1], blk[i].asset)]
           G == [i \in 1..n |-> [l \in Ledger |-> ApplyAsset(l, blk[i].asset)]]
           after == CHOOSE f : f = F(f)
<1>0. n \in Nat /\ \A i \in 1..n : blk[i] \in MTxs
  OBVIOUS
<1>1. \A i \in 1..n, l \in Ledger : ApplyAsset(l, blk[i].asset) \in Ledger
  BY Zenon, <1>0, ApplyAssetType
<1>2. G \in [1..n -> [Ledger -> Ledger]]
  BY Zenon, <1>1
<1>3. \A i \in 1..n, l \in Ledger : G[i][l] = ApplyAsset(l, blk[i].asset)
  BY Zenon
<1> HIDE DEF n, G
<1>4. PICK r \in [0..n -> Ledger] : r[0] = led /\ \A i \in 1..n : r[i] = G[i][r[i - 1]]
  <2>1. n \in Nat /\ led \in Ledger
    BY Zenon, <1>0
  <2>2. Steps(Ledger, n, led, G)
    BY Zenon, <1>2, <2>1, Recursion
  <2> QED
    BY Zenon, <2>2 DEF Steps
<1>5. ASSUME NEW i \in 1..n
      PROVE  r[i] = ApplyAsset(r[i - 1], blk[i].asset)
  <2>1. r[i - 1] \in Ledger
    BY <1>0
  <2> QED
    BY Zenon, <1>3, <1>4, <2>1
<1>6. r = F(r)
  BY <1>0, <1>4, <1>5
<1>7. after = F(after)
  <2> HIDE DEF F
  <2> QED
    BY Zenon, <1>6
<1>8. AppliedTo(led, blk) = after[n]
  BY Zenon DEF AppliedTo, n
<1> HIDE DEF after
<1> DEFINE T == {i \in 0..n : after[i] \notin Ledger}
<1>9. T = {}
  <2> SUFFICES ASSUME T # {}
               PROVE  FALSE
    BY Zenon
  <2>1. T \subseteq Nat
    BY <1>0
  <2> HIDE DEF T
  <2>2. PICK m \in T : \A k \in T : m <= k
    BY Zenon, <2>1, MinExists
  <2>3. m \in 0..n /\ after[m] \notin Ledger
    BY Zenon DEF T
  <2>4. after[m] = IF m = 0 THEN led ELSE ApplyAsset(after[m - 1], blk[m].asset)
    BY Zenon, <1>7, <2>3
  <2>5. m # 0
    BY Zenon, <2>3, <2>4
  <2>6. m - 1 \in 0..n /\ m - 1 \notin T /\ m \in 1..n
    BY <1>0, <2>2, <2>3, <2>5
  <2>7. after[m - 1] \in Ledger
    BY Zenon, <2>6 DEF T
  <2> QED
    BY Zenon, <1>1, <2>3, <2>4, <2>5, <2>6, <2>7
<1> QED
  BY <1>0, <1>8, <1>9

(* removeForBlock takes the transactions of the block out of the pool, and *)
(* leaves the others in it once.                                           *)
LEMMA WithoutFields ==
    ASSUME NEW pool \in Seq(MTxs), IsInjective(pool), NEW S
    PROVE  /\ Without(pool, S) \in Seq(MTxs)
           /\ Range(Without(pool, S)) = Range(pool) \ S
           /\ IsInjective(Without(pool, S))
<1> DEFINE n == Len(pool)
           Step(q, i) == IF pool[i] \in S THEN q ELSE Append(q, pool[i])
           F(f) == [i \in 0..n |-> IF i = 0 THEN <<>> ELSE Step(f[i - 1], i)]
           G == [i \in 1..n |-> [q \in Seq(MTxs) |-> Step(q, i)]]
           kept == CHOOSE f : f = F(f)
<1>0. n \in Nat /\ (\A i \in 1..n : pool[i] \in MTxs) /\ DOMAIN pool = 1..n
  OBVIOUS
<1>1. \A i \in 1..n, q \in Seq(MTxs) : Step(q, i) \in Seq(MTxs)
  BY <1>0
<1>2. G \in [1..n -> [Seq(MTxs) -> Seq(MTxs)]]
  <2> HIDE DEF Step
  <2> QED
    BY Zenon, <1>1
<1>3. \A i \in 1..n, q \in Seq(MTxs) : G[i][q] = Step(q, i)
  <2> HIDE DEF Step
  <2> QED
    BY Zenon
<1>4. Without(pool, S) = kept[n]
  BY Zenon DEF Without
<1> HIDE DEF n, G, Step, kept
<1>5. PICK r \in [0..n -> Seq(MTxs)] : r[0] = <<>> /\ \A i \in 1..n : r[i] = G[i][r[i - 1]]
  <2>1. n \in Nat /\ <<>> \in Seq(MTxs)
    BY <1>0
  <2>2. Steps(Seq(MTxs), n, <<>>, G)
    BY Zenon, <1>2, <2>1, Recursion
  <2> QED
    BY Zenon, <2>2 DEF Steps
<1>6. ASSUME NEW i \in 1..n
      PROVE  r[i] = Step(r[i - 1], i)
  <2>1. r[i - 1] \in Seq(MTxs)
    BY <1>0
  <2> QED
    BY Zenon, <1>3, <1>5, <2>1
<1>7. r = F(r)
  BY <1>0, <1>5, <1>6
<1>8. kept = F(kept)
  <2> HIDE DEF F
  <2> QED
    BY Zenon, <1>7 DEF kept
<1>9. \A i \in 1..n : kept[i] = Step(kept[i - 1], i)
  BY <1>0, <1>8
<1> DEFINE Good(i) == /\ kept[i] \in Seq(MTxs)
                      /\ Range(kept[i]) = {pool[j] : j \in 1..i} \ S
                      /\ IsInjective(kept[i])
           T == {i \in 0..n : ~Good(i)}
<1>10. Good(0)
  <2>1. kept[0] = <<>>
    BY <1>0, <1>8
  <2> QED
    BY <2>1 DEF Range, IsInjective
<1>11. ASSUME NEW i \in 1..n, Good(i - 1)
       PROVE  Good(i)
  <2> DEFINE q == kept[i - 1]
  <2>1. kept[i] = IF pool[i] \in S THEN q ELSE Append(q, pool[i])
    BY Zenon, <1>9 DEF Step
  <2>2. q \in Seq(MTxs) /\ Range(q) = {pool[j] : j \in 1..i - 1} \ S /\ IsInjective(q)
    BY Zenon, <1>11
  <2>3. {pool[j] : j \in 1..i} = {pool[j] : j \in 1..i - 1} \cup {pool[i]}
    <3>1. \A j \in 1..i : j \in 1..i - 1 \/ j = i
      BY <1>0
    <3>2. i \in 1..i /\ \A j \in 1..i - 1 : j \in 1..i
      BY <1>0
    <3> QED
      BY Zenon, <3>1, <3>2
  <2>4. pool[i] \notin {pool[j] : j \in 1..i - 1}
    BY <1>0 DEF IsInjective
  <2> HIDE DEF q
  <2>5. CASE pool[i] \in S
    BY Zenon, <2>1, <2>2, <2>3, <2>5
  <2>6. CASE pool[i] \notin S
    <3>1. kept[i] = Append(q, pool[i]) /\ pool[i] \in MTxs /\ Len(q) \in Nat
      BY <1>0, <2>1, <2>2, <2>6
    <3>2. /\ kept[i] \in Seq(MTxs) /\ DOMAIN kept[i] = 1..Len(q) + 1 /\ DOMAIN q = 1..Len(q)
          /\ kept[i][Len(q) + 1] = pool[i]
          /\ \A j \in 1..Len(q) : kept[i][j] = q[j]
      BY <2>2, <3>1, AppendProperties
    <3>3. \A j \in 1..Len(q) + 1 : j \in 1..Len(q) \/ j = Len(q) + 1
      BY <3>1
    <3>4. Len(q) + 1 \in 1..Len(q) + 1 /\ \A j \in 1..Len(q) : j \in 1..Len(q) + 1
      BY <3>1
    <3>5. Range(kept[i]) = Range(q) \cup {pool[i]}
      BY Zenon, <3>2, <3>3, <3>4 DEF Range
    <3>6. pool[i] \notin Range(q)
      BY Zenon, <2>2, <2>4
    <3>7. IsInjective(kept[i])
      BY <2>2, <3>2, <3>3, <3>6 DEF IsInjective, Range
    <3> QED
      BY Zenon, <2>2, <2>3, <2>6, <3>2, <3>5, <3>7
  <2> QED
    BY Zenon, <2>5, <2>6
<1> HIDE DEF Good
<1>12. T = {}
  <2> SUFFICES ASSUME T # {}
               PROVE  FALSE
    BY Zenon
  <2>1. T \subseteq Nat
    BY <1>0
  <2>2. PICK m \in T : \A k \in T : m <= k
    BY Zenon, <2>1, MinExists
  <2>3. m # 0
    BY Zenon, <1>10
  <2>4. m - 1 \in 0..n /\ m - 1 \notin T /\ m \in 1..n
    BY <1>0, <2>2, <2>3
  <2> QED
    BY Zenon, <1>11, <2>2, <2>4
<1>13. Good(n)
  <2>1. n \in 0..n
    BY <1>0
  <2>2. n \notin T
    BY Zenon, <1>12
  <2> QED
    BY Zenon, <2>1, <2>2
<1>14. Range(pool) = {pool[j] : j \in 1..n}
  BY Zenon, <1>0 DEF Range
<1> QED
  BY Zenon, <1>4, <1>13, <1>14 DEF Good

-----------------------------------------------------------------------------
(* Coins and the mempool, as sets of transactions *)

(* The confirmed transactions C leave the coins u. *)
Settled(u, C) ==
    /\ C \subseteq MTxs
    /\ \A s, t \in C : s # t => s.vin \cap t.vin = {}
    /\ Inputs(C) \subseteq Funding \cup Outputs(C)
    /\ u = (Funding \cup Outputs(C)) \ Inputs(C)

(* The links of a mempool whose transactions H were put back after their   *)
(* children.                                                               *)
LinksBut(p, H) ==
    {l \in p.mapTx \X p.mapTx : Spends(l[2], l[1]) /\ (l[1] \in H => l[2] \in H)}

(* The mempool p over the coins u and the confirmed transactions C, with D *)
(* still to be put back or given up, and H put back.                       *)
PoolOn(p, u, C, D, H) ==
    /\ p.mapTx \subseteq MTxs /\ D \subseteq MTxs
    /\ (p.mapTx \cup D) \cap C = {}
    /\ (p.mapTx \cup H) \cap D = {}
    /\ \A s, t \in p.mapTx \cup D : s # t => s.vin \cap t.vin = {}
    /\ Inputs(p.mapTx) \subseteq u \cup Outputs(p.mapTx \cup D)
    /\ Inputs(p.mapTx \cap H) \cap Outputs(D) = {}
    /\ Inputs(D \cup H) \cap Outputs(p.mapTx \ H) = {}
    /\ p.links = LinksBut(p, H)

(* Membership in the inputs and outputs of a set. *)
LEMMA Members ==
    ASSUME NEW S
    PROVE  /\ \A o : o \in Outputs(S) <=> \E t \in S : o \in t.vout
           /\ \A o : o \in Inputs(S) <=> \E t \in S : o \in t.vin
BY Zenon DEF Outputs, Inputs

(* An outpoint has one creator. *)
LEMMA Creator ==
    ASSUME NEW s \in MTxs, NEW t \in MTxs, NEW o, o \in s.vout
    PROVE  /\ o \in t.vout => s = t
           /\ o \notin Funding
BY Zenon, MempoolAssumption

(* So different transactions create different coins. *)
LEMMA OutputsApart ==
    ASSUME NEW S, NEW T, S \subseteq MTxs, T \subseteq MTxs, S \cap T = {}
    PROVE  Outputs(S) \cap Outputs(T) = {} /\ Outputs(S) \cap Funding = {}
<1>1. ASSUME NEW o, o \in Outputs(S)
      PROVE  o \notin Outputs(T) /\ o \notin Funding
  <2>1. PICK s \in S : o \in s.vout
    BY Zenon, <1>1, Members
  <2>2. o \notin Funding /\ \A t \in T : o \notin t.vout
    BY Zenon, <2>1, Creator
  <2> QED
    BY Zenon, <2>2, Members
<1> QED
  BY Zenon, <1>1

(* A transaction that spends an unconfirmed one spends it in the mempool   *)
(* or in the queue.                                                        *)
LEMMA SpendsPool ==
    ASSUME NEW p, NEW u, NEW C, NEW D, NEW H, Settled(u, C), PoolOn(p, u, C, D, H),
           NEW t \in p.mapTx, NEW s \in MTxs, s \notin C, Spends(t, s)
    PROVE  s \in p.mapTx \cup D
<1>1. PICK o : o \in t.vin /\ o \in s.vout
  BY Zenon DEF Spends
<1>2. o \in u \cup Outputs(p.mapTx \cup D)
  BY Zenon, <1>1, Members DEF PoolOn
<1>3. o \notin u
  <2>1. o \notin Funding /\ o \notin Outputs(C)
    <3>1. C \subseteq MTxs
      BY Zenon DEF Settled
    <3> QED
      BY <1>1, <3>1, Members, Creator
  <2> QED
    BY Zenon, <2>1 DEF Settled
<1>4. PICK q \in p.mapTx \cup D : o \in q.vout
  BY Zenon, <1>2, <1>3, Members
<1>5. q \in MTxs
  BY Zenon DEF PoolOn
<1> QED
  BY Zenon, <1>1, <1>4, <1>5, Creator

(* Every child of a removed transaction is removed. *)
ChildrenToo(p, R) == \A s \in p.mapTx \cap R, t \in p.mapTx : Spends(t, s) => t \in R

(* What RemoveStaged leaves of the transactions and links. *)
LEMMA RemoveFields ==
    ASSUME NEW p, NEW R, NEW H, p.links = LinksBut(p, H)
    PROVE  /\ RemoveStaged(p, R).mapTx = p.mapTx \ R
           /\ RemoveStaged(p, R).links = LinksBut(RemoveStaged(p, R), H)
<1>1. /\ RemoveStaged(p, R).mapTx = p.mapTx \ R
      /\ RemoveStaged(p, R).links = {l \in p.links : l[1] \notin R /\ l[2] \notin R}
  BY Zenon DEF RemoveStaged
<1>2. {l \in p.links : l[1] \notin R /\ l[2] \notin R} =
          {l \in (p.mapTx \ R) \X (p.mapTx \ R) :
              Spends(l[2], l[1]) /\ (l[1] \in H => l[2] \in H)}
  BY Zenon DEF LinksBut
<1> QED
  BY Zenon, <1>1, <1>2 DEF LinksBut

(* Removing a set with its children leaves no input open. *)
LEMMA RemoveOn ==
    ASSUME NEW p, NEW u, NEW C, NEW D, NEW H, NEW R, PoolOn(p, u, C, D, H), ChildrenToo(p, R)
    PROVE  PoolOn(RemoveStaged(p, R), u, C, D, H)
<1> DEFINE q == RemoveStaged(p, R)
           M == p.mapTx
           N == q.mapTx
<1>1. N = M \ R /\ q.links = LinksBut(q, H)
  BY RemoveFields DEF PoolOn
<1> HIDE DEF q, N
<1>2. Inputs(N) \subseteq u \cup Outputs(N \cup D)
  <2> SUFFICES ASSUME NEW o, o \in Inputs(N), o \notin u
               PROVE  o \in Outputs(N \cup D)
    BY Zenon
  <2>1. PICK t \in N : o \in t.vin
    BY Zenon, Members
  <2>2. t \in M /\ t \notin R
    BY Zenon, <1>1
  <2>3. o \in Outputs(M \cup D)
    BY Zenon, <2>1, <2>2, Members DEF PoolOn
  <2>4. PICK s \in M \cup D : o \in s.vout
    BY Zenon, <2>3, Members
  <2>5. s \in N \cup D
    BY Zenon, <1>1, <2>1, <2>2, <2>4 DEF ChildrenToo, Spends
  <2> QED
    BY Zenon, <2>4, <2>5, Members
<1>3. Inputs(N \cap H) \subseteq Inputs(M \cap H) /\ Outputs(N \ H) \subseteq Outputs(M \ H)
  BY <1>1, Members
<1>4. PoolOn(q, u, C, D, H)
  BY Zenon, <1>1, <1>2, <1>3 DEF PoolOn, N
<1> QED
  BY Zenon, <1>4 DEF q

(* CalculateDescendants follows the links, which miss only the children    *)
(* that were there before their parents were put back.                     *)
LEMMA DescendantsOn ==
    ASSUME NEW p, NEW u, NEW C, NEW D, NEW H, PoolOn(p, u, C, D, H),
           NEW S, S \subseteq p.mapTx \ H
    PROVE  /\ S \subseteq Descendants(p, S)
           /\ Descendants(p, S) \subseteq p.mapTx \ H
           /\ ChildrenToo(p, Descendants(p, S))
<1> DEFINE R == Descendants(p, S)
           M == p.mapTx
<1>1. S \subseteq R
  BY Zenon, DescendantsContain
<1>2. \A s \in M, t \in M : <<s, t>> \in p.links <=> Spends(t, s) /\ (s \in H => t \in H)
  BY Zenon DEF PoolOn, LinksBut
<1>3. p.links \subseteq M \X M
  BY Zenon DEF PoolOn, LinksBut
<1>4. ASSUME NEW s \in M \ H, NEW t \in M, Spends(t, s)
      PROVE  t \notin H
  <2>1. PICK o : o \in t.vin /\ o \in s.vout
    BY Zenon, <1>4 DEF Spends
  <2>2. o \in Outputs(M \ H)
    BY Zenon, <2>1, Members
  <2>3. o \notin Inputs(D \cup H)
    BY Zenon, <2>2 DEF PoolOn
  <2> QED
    BY Zenon, <2>1, <2>3, Members
<1>5. ClosedUnderChildren(p, M \ H)
  <2> SUFFICES ASSUME NEW l \in p.links, l[1] \in M \ H
               PROVE  l[2] \in M \ H
    BY Zenon DEF ClosedUnderChildren
  <2>1. l \in M \X M /\ l = <<l[1], l[2]>>
    BY <1>3
  <2>2. Spends(l[2], l[1])
    BY Zenon, <1>2, <2>1
  <2> QED
    BY Zenon, <1>4, <2>1, <2>2
<1>6. R \subseteq M \ H
  <2>1. M \ H \in SUBSET M
    BY Zenon
  <2> QED
    BY Zenon, <1>5, <2>1 DEF Descendants
<1>7. ASSUME NEW s \in M \cap R, NEW t \in M, Spends(t, s)
      PROVE  t \in R
  <2>1. <<s, t>> \in p.links
    BY Zenon, <1>2, <1>6, <1>7
  <2>2. ASSUME NEW E \in SUBSET M, S \subseteq E, ClosedUnderChildren(p, E)
        PROVE  t \in E
    <3>1. s \in E
      BY Zenon, <2>2 DEF Descendants
    <3>2. <<s, t>>[1] = s /\ <<s, t>>[2] = t
      BY Zenon
    <3> QED
      BY Zenon, <2>1, <2>2, <3>1, <3>2 DEF ClosedUnderChildren
  <2> QED
    BY Zenon, <2>2 DEF Descendants
<1> QED
  BY Zenon, <1>1, <1>6, <1>7 DEF ChildrenToo

(* A transaction of the queue that nobody spends may be forgotten. *)
LEMMA DropOn ==
    ASSUME NEW p, NEW u, NEW C, NEW D, NEW H, PoolOn(p, u, C, D, H), NEW E, E \subseteq D,
           \A s \in D \ E, t \in p.mapTx : ~Spends(t, s)
    PROVE  PoolOn(p, u, C, E, H)
<1> DEFINE M == p.mapTx
<1>1. Inputs(M) \subseteq u \cup Outputs(M \cup E)
  <2> SUFFICES ASSUME NEW o, o \in Inputs(M), o \notin u
               PROVE  o \in Outputs(M \cup E)
    BY Zenon
  <2>1. PICK t \in M : o \in t.vin
    BY Zenon, Members
  <2>2. o \in Outputs(M \cup D)
    BY Zenon DEF PoolOn
  <2>3. PICK s \in M \cup D : o \in s.vout
    BY Zenon, <2>2, Members
  <2>4. s \in M \cup E
    BY Zenon, <2>1, <2>3 DEF Spends
  <2> QED
    BY Zenon, <2>3, <2>4, Members
<1>2. Outputs(E) \subseteq Outputs(D) /\ Inputs(E \cup H) \subseteq Inputs(D \cup H)
  BY Members
<1> QED
  BY Zenon, <1>1, <1>2 DEF PoolOn

(* removeRecursive of transactions that left the chain for good. *)
LEMMA RecursiveOn ==
    ASSUME NEW p, NEW u, NEW C, NEW D, NEW H, PoolOn(p, u, C, D, H),
           NEW E, E \subseteq D, NEW T, T \subseteq D, D \ E \subseteq T
    PROVE  PoolOn(RemoveRecursive(p, T), u, C, E, H)
<1> DEFINE M == p.mapTx
           S == {tx \in p.mapTx : tx \in T \/ \E q \in T \ p.mapTx : Spends(tx, q)}
           R == Descendants(p, S)
           r == RemoveStaged(p, R)
<1>1. M \cap D = {}
  BY Zenon DEF PoolOn
<1>2. S \subseteq M \ H
  <2> SUFFICES ASSUME NEW t \in S, t \in H
               PROVE  FALSE
    BY Zenon
  <2>1. PICK q \in T : Spends(t, q)
    BY Zenon, <1>1
  <2>2. PICK o : o \in t.vin /\ o \in q.vout
    BY Zenon, <2>1 DEF Spends
  <2>3. o \in Inputs(M \cap H) /\ o \in Outputs(D)
    BY Zenon, <2>2, Members
  <2> QED
    BY Zenon, <2>3 DEF PoolOn
<1>3. S \subseteq R /\ ChildrenToo(p, R)
  BY <1>2, DescendantsOn
<1>4. PoolOn(r, u, C, D, H)
  BY Zenon, <1>3, RemoveOn
<1>5. r.mapTx = M \ R
  BY Zenon, RemoveFields DEF PoolOn
<1>6. \A s \in D \ E, t \in r.mapTx : ~Spends(t, s)
  BY Zenon, <1>1, <1>3, <1>5
<1> HIDE DEF r
<1>7. PoolOn(r, u, C, E, H)
  BY Zenon, <1>4, <1>6, DropOn
<1> QED
  BY Zenon, <1>7 DEF r, RemoveRecursive

(* A new transaction whose inputs are there. *)
LEMMA AddOn ==
    ASSUME NEW p \in Mempool, NEW u, NEW C, Settled(u, C), PoolOn(p, u, C, {}, {}),
           NEW tx \in MTxs, tx \notin p.mapTx, tx \notin C,
           tx.vin \subseteq u \cup Outputs(p.mapTx),
           \A s \in p.mapTx : s.vin \cap tx.vin = {}
    PROVE  PoolOn(Added(p, tx), u, C, {}, {})
<1> DEFINE q == Added(p, tx)
           M == p.mapTx
           N == q.mapTx
<1>1. N = M \cup {tx} /\ q.links = p.links \cup NewLinks(p, tx)
  BY Zenon, AddedFields
<1> HIDE DEF q, N
<1>2. Outputs(M) \subseteq Outputs(N) /\ Inputs(N) \subseteq Inputs(M) \cup tx.vin
  BY <1>1, Members
<1>3. Inputs(N) \subseteq u \cup Outputs(N \cup {})
  <2>1. M \cup {} = M /\ N \cup {} = N
    BY Zenon
  <2>2. Inputs(M) \subseteq u \cup Outputs(M)
    BY Zenon, <2>1 DEF PoolOn
  <2> QED
    BY Zenon, <1>2, <2>1, <2>2
<1>4. \A s, t \in N \cup {} : s # t => s.vin \cap t.vin = {}
  BY Zenon, <1>1 DEF PoolOn
<1>5. \A t \in N : ~Spends(t, tx)
  <2>1. ~Spends(tx, tx)
    BY Zenon, MempoolAssumption DEF Spends
  <2>2. \A t \in M : ~Spends(t, tx)
    BY Zenon, SpendsPool
  <2> QED
    BY Zenon, <1>1, <2>1, <2>2
<1>6. q.links = LinksBut(q, {})
  <2>1. p.links = {l \in M \X M : Spends(l[2], l[1])}
    BY Zenon DEF PoolOn, LinksBut
  <2>2. NewLinks(p, tx) = {l \in M \X {tx} : Spends(l[2], l[1])}
    BY DEF NewLinks
  <2>3. LinksBut(q, {}) = {l \in N \X N : Spends(l[2], l[1])}
    BY Zenon DEF LinksBut, N
  <2>4. \A l \in N \X N : Spends(l[2], l[1]) => l \in M \X M \/ l \in M \X {tx}
    BY Zenon, <1>1, <1>5
  <2>5. M \X M \subseteq N \X N /\ M \X {tx} \subseteq N \X N
    BY Zenon, <1>1
  <2> QED
    BY Zenon, <1>1, <2>1, <2>2, <2>3, <2>4, <2>5
<1>7. /\ Inputs(N \cap {}) \cap Outputs({}) = {}
      /\ Inputs({} \cup {}) \cap Outputs(N \ {}) = {}
  BY Members
<1>8. N \subseteq MTxs /\ (N \cup {}) \cap C = {}
  BY Zenon, <1>1 DEF PoolOn
<1>9. PoolOn(q, u, C, {}, {})
  BY Zenon, <1>3, <1>4, <1>6, <1>7, <1>8 DEF PoolOn, N
<1> QED
  BY Zenon, <1>9 DEF q

(* A transaction of the queue is put back. *)
LEMMA PutBackOn ==
    ASSUME NEW p \in Mempool, NEW u, NEW C, NEW D, NEW H, Settled(u, C), PoolOn(p, u, C, D, H),
           NEW tx \in D, tx.vin \subseteq u \cup Outputs(p.mapTx)
    PROVE  PoolOn(Added(p, tx), u, C, D \ {tx}, H \cup {tx})
<1> DEFINE q == Added(p, tx)
           M == p.mapTx
           N == q.mapTx
           E == D \ {tx}
           I == H \cup {tx}
<1>0. tx \in MTxs /\ tx \notin M /\ tx \notin H /\ M \subseteq MTxs /\ D \subseteq MTxs
  BY Zenon DEF PoolOn
<1>1. N = M \cup {tx} /\ q.links = p.links \cup NewLinks(p, tx)
  BY Zenon, <1>0, AddedFields
<1> HIDE DEF q, N
<1>2. Inputs(N) \subseteq u \cup Outputs(N \cup E)
  <2>1. N \cup E = M \cup D
    BY Zenon, <1>1
  <2>2. Inputs(N) \subseteq Inputs(M) \cup tx.vin /\ Outputs(M) \subseteq Outputs(M \cup D)
    BY <1>1, Members
  <2> QED
    BY Zenon, <2>1, <2>2 DEF PoolOn
<1>3. tx.vin \cap Outputs(D) = {}
  <2>1. Outputs(D) \cap Outputs(M) = {}
    BY Zenon, <1>0, OutputsApart DEF PoolOn
  <2>2. Outputs(D) \cap Outputs(C) = {} /\ Outputs(D) \cap Funding = {}
    BY <1>0, OutputsApart DEF PoolOn, Settled
  <2> QED
    BY Zenon, <2>1, <2>2 DEF Settled
<1>4. Inputs(N \cap I) \cap Outputs(E) = {}
  <2>1. Inputs(N \cap I) \subseteq Inputs(M \cap H) \cup tx.vin /\ Outputs(E) \subseteq Outputs(D)
    BY <1>0, <1>1, Members
  <2> QED
    BY Zenon, <1>3, <2>1 DEF PoolOn
<1>5. Inputs(E \cup I) \cap Outputs(N \ I) = {}
  <2>1. E \cup I = D \cup H /\ N \ I = M \ H
    BY Zenon, <1>0, <1>1
  <2> QED
    BY Zenon, <2>1 DEF PoolOn
<1>6. \A t \in N : t \in I => ~Spends(t, tx)
  <2>1. ~Spends(tx, tx)
    BY Zenon, <1>0, MempoolAssumption DEF Spends
  <2>2. ASSUME NEW t \in M \cap H, Spends(t, tx)
        PROVE  FALSE
    <3>1. PICK o : o \in t.vin /\ o \in tx.vout
      BY Zenon, <2>2 DEF Spends
    <3>2. o \in Inputs(M \cap H) /\ o \in Outputs(D)
      BY Zenon, <3>1, Members
    <3> QED
      BY Zenon, <3>2 DEF PoolOn
  <2> QED
    BY Zenon, <1>0, <1>1, <2>1, <2>2
<1>7. q.links = LinksBut(q, I)
  <2>1. p.links = {l \in M \X M : Spends(l[2], l[1]) /\ (l[1] \in H => l[2] \in H)}
    BY Zenon DEF PoolOn, LinksBut
  <2>2. NewLinks(p, tx) = {l \in M \X {tx} : Spends(l[2], l[1])}
    BY DEF NewLinks
  <2>3. LinksBut(q, I) = {l \in N \X N : Spends(l[2], l[1]) /\ (l[1] \in I => l[2] \in I)}
    BY Zenon DEF LinksBut, N
  <2>4. \A l \in N \X N : Spends(l[2], l[1]) /\ (l[1] \in I => l[2] \in I) =>
             \/ l \in M \X M /\ (l[1] \in H => l[2] \in H)
             \/ l \in M \X {tx}
    BY Zenon, <1>0, <1>1, <1>6
  <2>5. \A l \in M \X M : l \in N \X N /\ ((l[1] \in H => l[2] \in H) => (l[1] \in I => l[2] \in I))
    BY Zenon, <1>0, <1>1
  <2>6. \A l \in M \X {tx} : l \in N \X N /\ l[2] \in I
    BY Zenon, <1>1
  <2> QED
    BY Zenon, <1>1, <2>1, <2>2, <2>3, <2>4, <2>5, <2>6
<1>8. /\ N \subseteq MTxs /\ E \subseteq MTxs /\ (N \cup E) \cap C = {} /\ (N \cup I) \cap E = {}
      /\ \A s, t \in N \cup E : s # t => s.vin \cap t.vin = {}
  <2>1. N \cup E = M \cup D
    BY Zenon, <1>1
  <2> QED
    BY Zenon, <1>0, <1>1, <2>1 DEF PoolOn
<1>9. PoolOn(q, u, C, E, I)
  BY Zenon, <1>2, <1>4, <1>5, <1>7, <1>8 DEF PoolOn, N
<1> QED
  BY Zenon, <1>9 DEF q

(* UpdateTransactionsFromBlock adds the links that are missing. *)
LEMMA CompleteOn ==
    ASSUME NEW p \in Mempool, NEW u, NEW C, NEW H, PoolOn(p, u, C, {}, H)
    PROVE  PoolOn(UpdateTransactionsFromBlock(p, H), u, C, {}, {})
<1> DEFINE M == p.mapTx
           new == {l \in (M \cap H) \X (M \ H) : Spends(l[2], l[1])}
           q == [p EXCEPT !.links = @ \cup new]
<1>1. q.mapTx = M /\ q.links = p.links \cup new
  BY Zenon DEF Mempool
<1> HIDE DEF q
<1>2. LinksBut(p, H) \cup new = {l \in M \X M : Spends(l[2], l[1])}
  BY Zenon DEF LinksBut
<1>3. q.links = LinksBut(q, {})
  BY Zenon, <1>1, <1>2 DEF PoolOn, LinksBut
<1>4. /\ Inputs(M \cap {}) \cap Outputs({}) = {}
      /\ Inputs({} \cup {}) \cap Outputs(M \ {}) = {}
  BY Members
<1>5. PoolOn(q, u, C, {}, {})
  BY Zenon, <1>1, <1>3, <1>4 DEF PoolOn
<1> QED
  BY Zenon, <1>5 DEF q, UpdateTransactionsFromBlock

(* A transaction whose inputs are unspent is not confirmed. *)
LEMMA NotConfirmed ==
    ASSUME NEW p, NEW u, NEW C, NEW D, NEW H, Settled(u, C), PoolOn(p, u, C, D, H),
           NEW tx \in MTxs, tx.vin \subseteq u \cup Outputs(p.mapTx)
    PROVE  tx \notin C
<1> SUFFICES ASSUME tx \in C
             PROVE  FALSE
  BY Zenon
<1>1. PICK o : o \in tx.vin
  BY Zenon, MempoolAssumption
<1>2. o \in Inputs(C)
  BY Zenon, <1>1, Members
<1>3. Outputs(p.mapTx) \cap Outputs(C) = {} /\ Outputs(p.mapTx) \cap Funding = {}
  BY OutputsApart DEF PoolOn, Settled
<1> QED
  BY Zenon, <1>1, <1>2, <1>3 DEF Settled

(* LimitMempoolSize removes whole families. *)
LEMMA LimitOn ==
    ASSUME NEW p, NEW u, NEW C, PoolOn(p, u, C, {}, {}), NEW q \in LimitMempoolSize(p)
    PROVE  PoolOn(q, u, C, {}, {})
<1>1. PICK R \in SUBSET p.mapTx : ClosedUnderChildren(p, R) /\ q = RemoveStaged(p, R)
  BY Zenon DEF LimitMempoolSize
<1>2. ASSUME NEW s \in p.mapTx \cap R, NEW t \in p.mapTx, Spends(t, s)
      PROVE  t \in R
  <2>1. <<s, t>> \in p.links
    BY Zenon, <1>2 DEF PoolOn, LinksBut
  <2>2. <<s, t>>[1] = s /\ <<s, t>>[2] = t
    BY Zenon
  <2> QED
    BY Zenon, <1>1, <2>1, <2>2 DEF ClosedUnderChildren
<1>3. ChildrenToo(p, R)
  BY Zenon, <1>2 DEF ChildrenToo
<1> QED
  BY Zenon, <1>1, <1>3, RemoveOn

(* A coin that a transaction takes from the mempool is made by a parent. *)
LEMMA ParentsStay ==
    ASSUME NEW p, NEW tx, NEW R, NEW o, o \in tx.vin, o \in Outputs(p.mapTx),
           Parents(p, tx) \cap R = {}
    PROVE  o \in Outputs(p.mapTx \ R)
<1>1. PICK s \in p.mapTx : o \in s.vout
  BY Zenon, Members
<1>2. s \in Parents(p, tx)
  BY Zenon, <1>1 DEF Parents, Spends
<1> QED
  BY Zenon, <1>1, <1>2, Members

(* AcceptSingleTransaction, replacement included. *)
LEMMA AcceptedOn ==
    ASSUME NEW C, NEW tx \in MTxs, PoolInv(mp), Settled(utxo, C), PoolOn(mp, utxo, C, {}, {}),
           CanAccept(tx)
    PROVE  PoolOn(Accepted(mp, tx), utxo, C, {}, {})
<1> DEFINE out == Descendants(mp, Conflicts(mp, tx))
           q == RemoveStaged(mp, out)
<1>1. /\ tx \notin mp.mapTx
      /\ tx.vin \subseteq utxo \cup Outputs(mp.mapTx)
      /\ Parents(mp, tx) \cap out = {}
  BY Zenon DEF CanAccept, PreChecks, Outputs
<1>2. Conflicts(mp, tx) \subseteq mp.mapTx \ {}
  BY Zenon DEF Conflicts
<1>3. Conflicts(mp, tx) \subseteq out /\ ChildrenToo(mp, out)
  BY <1>2, DescendantsOn
<1>4. PoolOn(q, utxo, C, {}, {})
  BY Zenon, <1>3, RemoveOn
<1>5. q \in Mempool /\ q.mapTx = mp.mapTx \ out
  BY Zenon, RemoveKeeps DEF PoolInv
<1>6. tx \notin C
  BY Zenon, <1>1, NotConfirmed
<1>7. \A s \in q.mapTx : s.vin \cap tx.vin = {}
  BY Zenon, <1>3, <1>5 DEF Conflicts
<1> HIDE DEF out, q
<1>8. tx.vin \subseteq utxo \cup Outputs(q.mapTx)
  BY Zenon, <1>1, <1>5, ParentsStay
<1>9. PoolOn(Added(q, tx), utxo, C, {}, {})
  BY Zenon, <1>1, <1>4, <1>5, <1>6, <1>7, <1>8, AddOn
<1> QED
  BY Zenon, <1>9 DEF Accepted, Added, q, out

(* Nothing descends from nothing. *)
LEMMA NoDescendants ==
    ASSUME NEW p
    PROVE  Descendants(p, {}) = {}
<1>1. {} \in SUBSET p.mapTx /\ {} \subseteq {} /\ ClosedUnderChildren(p, {})
  BY Zenon DEF ClosedUnderChildren
<1> QED
  BY Zenon, <1>1 DEF Descendants

(* AcceptMultipleTransactions. *)
LEMMA AcceptedPackageOn ==
    ASSUME NEW C, NEW parent \in MTxs, NEW child \in MTxs, PoolInv(mp), Settled(utxo, C),
           PoolOn(mp, utxo, C, {}, {}), AcceptMultipleTransactions(parent, child)
    PROVE  PoolOn(AcceptedPackage(mp, parent, child), utxo, C, {}, {})
<1> DEFINE conf == Conflicts(mp, parent) \cup Conflicts(mp, child)
           out == Descendants(mp, conf)
           q == RemoveStaged(mp, out)
<1>1. /\ parent # child /\ Spends(child, parent) /\ parent.vin \cap child.vin = {}
      /\ parent \notin mp.mapTx /\ child \notin mp.mapTx
      /\ conf # {} => Parents(mp, parent) \cup Parents(mp, child) = {}
  BY Zenon DEF AcceptMultipleTransactions, PreChecks
<1>2. /\ parent.vin \subseteq utxo \cup {} \cup Outputs(mp.mapTx)
      /\ child.vin \subseteq utxo \cup parent.vout \cup Outputs(mp.mapTx)
  BY Zenon DEF AcceptMultipleTransactions, PreChecks, Outputs
<1>3. conf \subseteq mp.mapTx \ {}
  BY Zenon DEF Conflicts
<1>4. conf \subseteq out /\ ChildrenToo(mp, out)
  BY <1>3, DescendantsOn
<1>5. PoolOn(q, utxo, C, {}, {})
  BY Zenon, <1>4, RemoveOn
<1>6. q \in Mempool /\ q.mapTx = mp.mapTx \ out
  BY Zenon, RemoveKeeps DEF PoolInv
<1>7. \A s \in q.mapTx : s.vin \cap parent.vin = {} /\ s.vin \cap child.vin = {}
  BY Zenon, <1>4, <1>6 DEF Conflicts
<1>8. Parents(mp, parent) \cap out = {} /\ Parents(mp, child) \cap out = {}
  <2>1. conf = {} => out = {}
    BY Zenon, NoDescendants
  <2> HIDE DEF conf, out
  <2> QED
    BY Zenon, <1>1, <2>1
<1>9. parent \notin C
  <2>1. parent.vin \subseteq utxo \cup Outputs(mp.mapTx)
    BY Zenon, <1>2
  <2> QED
    BY Zenon, <2>1, NotConfirmed
<1>10. child \notin C
  <2> SUFFICES ASSUME child \in C
               PROVE  FALSE
    BY Zenon
  <2>1. PICK o : o \in child.vin /\ o \in parent.vout
    BY Zenon, <1>1 DEF Spends
  <2>2. o \in Funding \cup Outputs(C)
    BY Zenon, <2>1, Members DEF Settled
  <2>3. PICK s \in C : o \in s.vout
    BY <2>1, <2>2, Members, Creator
  <2>4. s \in MTxs
    BY Zenon DEF Settled
  <2> QED
    BY Zenon, <1>9, <2>1, <2>3, <2>4, Creator
<1> HIDE DEF conf, out, q
<1>11. parent.vin \subseteq utxo \cup Outputs(q.mapTx)
  BY Zenon, <1>2, <1>6, <1>8, ParentsStay
<1>12. child.vin \subseteq utxo \cup parent.vout \cup Outputs(q.mapTx)
  BY Zenon, <1>2, <1>6, <1>8, ParentsStay
<1> DEFINE r == Added(q, parent)
<1>13. PoolOn(r, utxo, C, {}, {})
  BY Zenon, <1>1, <1>5, <1>6, <1>7, <1>9, <1>11, AddOn
<1>14. r \in Mempool /\ r.mapTx = q.mapTx \cup {parent}
  BY Zenon, <1>6, AddedFields
<1> HIDE DEF r
<1>15. child.vin \subseteq utxo \cup Outputs(r.mapTx)
  <2>1. parent.vout \subseteq Outputs(r.mapTx) /\ Outputs(q.mapTx) \subseteq Outputs(r.mapTx)
    BY Zenon, <1>14, Members
  <2> QED
    BY Zenon, <1>12, <2>1
<1>16. child \notin r.mapTx /\ \A s \in r.mapTx : s.vin \cap child.vin = {}
  BY Zenon, <1>1, <1>6, <1>7, <1>14
<1>17. PoolOn(Added(r, child), utxo, C, {}, {})
  BY Zenon, <1>10, <1>13, <1>14, <1>15, <1>16, AddOn
<1>18. AcceptedPackage(mp, parent, child) = Added(r, child)
  BY Zenon, <1>6, PackageOrder DEF AcceptedPackage, q, r, out, conf
<1> QED
  BY Zenon, <1>17, <1>18

(* A transaction of the queue conflicts with nothing in the mempool, so    *)
(* putting it back replaces nothing.                                       *)
LEMMA ResubmittedOn ==
    ASSUME NEW C, NEW D, NEW H, NEW tx \in D, PoolInv(mp), Settled(utxo, C),
           PoolOn(mp, utxo, C, D, H), CanAccept(tx)
    PROVE  PoolOn(Accepted(mp, tx), utxo, C, D \ {tx}, H \cup {tx})
<1> DEFINE out == Descendants(mp, Conflicts(mp, tx))
           q == RemoveStaged(mp, out)
<1>1. tx.vin \subseteq utxo \cup Outputs(mp.mapTx)
  BY Zenon DEF CanAccept, PreChecks, Outputs
<1>2. Conflicts(mp, tx) = {}
  BY Zenon DEF Conflicts, PoolOn
<1>3. out = {}
  BY Zenon, <1>2, NoDescendants
<1>4. ChildrenToo(mp, out)
  BY Zenon, <1>3 DEF ChildrenToo
<1>5. PoolOn(q, utxo, C, D, H)
  BY Zenon, <1>4, RemoveOn
<1>6. q \in Mempool /\ q.mapTx = mp.mapTx
  <2>1. q \in Mempool /\ q.mapTx = mp.mapTx \ out
    BY Zenon, RemoveKeeps DEF PoolInv
  <2> HIDE DEF out, q
  <2> QED
    BY Zenon, <1>3, <2>1
<1> HIDE DEF out, q
<1>7. PoolOn(Added(q, tx), utxo, C, D \ {tx}, H \cup {tx})
  BY Zenon, <1>1, <1>5, <1>6, PutBackOn
<1> QED
  BY Zenon, <1>7 DEF Accepted, Added, q, out

(* The transactions before a position of a block. *)
LEMMA BeforeRange ==
    ASSUME NEW blk \in Seq(MTxs), NEW i \in 1..Len(blk)
    PROVE  Range(Before(blk, i)) = {blk[j] : j \in 1..i - 1}
<1>1. Len(blk) \in Nat /\ 1 \in 1..Len(blk) + 1 /\ i - 1 \in 0..Len(blk)
  OBVIOUS
<1>2. /\ Before(blk, i) = SubSeq(blk, 1, i - 1)
      /\ Len(SubSeq(blk, 1, i - 1)) = i - 1
      /\ DOMAIN SubSeq(blk, 1, i - 1) = 1..i - 1
      /\ \A j \in 1..i - 1 : SubSeq(blk, 1, i - 1)[j] = blk[j]
  BY <1>1 DEF Before
<1> QED
  BY Zenon, <1>2 DEF Range

(* A block whose inputs are there can be added to the confirmed            *)
(* transactions: it spends no coin twice and repeats no transaction.       *)
LEMMA BlockSettles ==
    ASSUME NEW C, Settled(utxo, C), NEW blk \in Seq(MTxs), CheckBlockInputs(blk)
    PROVE  /\ Range(blk) \cap C = {}
           /\ Inputs(Range(blk)) \subseteq Funding \cup Outputs(C \cup Range(blk))
           /\ Settled((utxo \cup Outputs(Range(blk))) \ Inputs(Range(blk)), C \cup Range(blk))
<1> DEFINE S == Range(blk)
           n == Len(blk)
           B(i) == {blk[j] : j \in 1..i - 1}
<1>1. n \in Nat /\ DOMAIN blk = 1..n /\ S \subseteq MTxs /\ C \subseteq MTxs
  BY DEF Range, Settled
<1>2. \A s \in S : \E i \in 1..n : s = blk[i]
  BY Zenon, <1>1 DEF Range
<1>3. \A i \in 1..n : blk[i] \in S /\ B(i) \subseteq S
  BY <1>1 DEF Range
<1>4. \A i \in 1..n : blk[i].vin \subseteq (utxo \cup Outputs(B(i))) \ Inputs(B(i))
  BY Zenon, <1>1, BeforeRange DEF CheckBlockInputs
<1>5. \A i \in 1..n, j \in 1..n : i < j => blk[i] \in B(j)
  BY <1>1
<1> HIDE DEF n, S
<1>6. S \cap C = {}
  <2> DEFINE T == {i \in 1..n : blk[i] \in C}
  <2> SUFFICES ASSUME T # {}
               PROVE  FALSE
    BY Zenon, <1>2
  <2>1. T \subseteq Nat
    BY <1>1
  <2>2. PICK i \in T : \A k \in T : i <= k
    BY Zenon, <2>1, MinExists
  <2>3. i \in 1..n /\ blk[i] \in MTxs /\ blk[i] \in C
    BY Zenon, <1>1
  <2>4. PICK o : o \in blk[i].vin
    BY Zenon, <2>3, MempoolAssumption
  <2>5. o \in Inputs(C)
    BY Zenon, <2>3, <2>4, Members
  <2>6. o \notin utxo /\ o \in Funding \cup Outputs(C)
    BY Zenon, <2>5 DEF Settled
  <2>7. o \in Outputs(B(i))
    BY Zenon, <1>4, <2>3, <2>4, <2>6
  <2>8. PICK s \in B(i) : o \in s.vout
    BY Zenon, <2>7, Members
  <2>9. PICK j \in 1..i - 1 : s = blk[j]
    BY Zenon
  <2>10. j \in 1..n /\ j < i
    BY <1>1, <2>3
  <2>11. s \notin C /\ s \in MTxs
    BY <1>1, <1>3, <2>2, <2>9, <2>10
  <2>12. o \notin Funding /\ o \notin Outputs(C)
    BY <1>1, <2>8, <2>11, Members, Creator
  <2> QED
    BY Zenon, <2>6, <2>12
<1>7. \A s, t \in S : s # t => s.vin \cap t.vin = {}
  <2>1. ASSUME NEW i \in 1..n, NEW j \in 1..n, i < j
        PROVE  blk[i].vin \cap blk[j].vin = {}
    <3>1. blk[i].vin \subseteq Inputs(B(j))
      BY Zenon, <1>5, <2>1, Members
    <3> QED
      BY Zenon, <1>4, <3>1
  <2>2. \A i \in 1..n, j \in 1..n : i < j \/ j < i \/ i = j
    BY <1>1
  <2> QED
    BY <1>2, <2>1, <2>2
<1>8. Inputs(S) \subseteq utxo \cup Outputs(S)
  <2> SUFFICES ASSUME NEW o, o \in Inputs(S), o \notin utxo
               PROVE  o \in Outputs(S)
    BY Zenon
  <2>1. PICK s \in S : o \in s.vin
    BY Zenon, Members
  <2>2. PICK i \in 1..n : s = blk[i]
    BY Zenon, <1>2
  <2>3. o \in Outputs(B(i))
    BY Zenon, <1>4, <2>1, <2>2
  <2> QED
    BY Zenon, <1>3, <2>3, Members
<1>9. Outputs(S) \cap Outputs(C) = {} /\ Outputs(S) \cap Funding = {}
  BY Zenon, <1>1, <1>6, OutputsApart
<1>10. Inputs(S) \cap Inputs(C) = {} /\ Outputs(S) \cap Inputs(C) = {}
  BY Zenon, <1>8, <1>9 DEF Settled
<1>11. Inputs(C \cup S) = Inputs(C) \cup Inputs(S) /\ Outputs(C \cup S) = Outputs(C) \cup Outputs(S)
  BY Members
<1>12. Inputs(S) \subseteq Funding \cup Outputs(C \cup S)
  BY Zenon, <1>8, <1>11 DEF Settled
<1>13. \A s, t \in C \cup S : s # t => s.vin \cap t.vin = {}
  <2> SUFFICES ASSUME NEW s \in C, NEW t \in S
               PROVE  s.vin \cap t.vin = {}
    BY Zenon, <1>7 DEF Settled
  <2>1. s.vin \subseteq Inputs(C) /\ t.vin \subseteq Inputs(S)
    BY Zenon, Members
  <2> QED
    BY Zenon, <1>10, <2>1
<1>14. (utxo \cup Outputs(S)) \ Inputs(S) = (Funding \cup Outputs(C \cup S)) \ Inputs(C \cup S)
  BY Zenon, <1>10, <1>11 DEF Settled
<1>15. Settled((utxo \cup Outputs(S)) \ Inputs(S), C \cup S)
  BY Zenon, <1>1, <1>11, <1>12, <1>13, <1>14 DEF Settled
<1> QED
  BY Zenon, <1>6, <1>12, <1>15 DEF S

(* removeForBlock: the coins of what leaves with the block are in the      *)
(* chain, and what takes the same coins is gone with its descendants.      *)
LEMMA BlockOn ==
    ASSUME NEW p, NEW u, NEW C, NEW D, PoolOn(p, u, C, D, {}), NEW S
    PROVE  PoolOn(RemoveForBlock(p, S), (u \cup Outputs(S)) \ Inputs(S), C \cup S, D \ S, {})
<1> DEFINE M == p.mapTx
           K == (UNION {Conflicts(p, tx) : tx \in S}) \ S
           K2 == Descendants(p, K)
           R == (M \cap S) \cup K2
           q == RemoveStaged(p, R)
           N == q.mapTx
           E == D \ S
           v == (u \cup Outputs(S)) \ Inputs(S)
<1>0. p.links = LinksBut(p, {})
  BY Zenon DEF PoolOn
<1>1. N = M \ R /\ q.links = LinksBut(q, {})
  <2> HIDE DEF R
  <2> QED
    BY <1>0, RemoveFields
<1>2. K \subseteq M \ {}
  BY Zenon DEF Conflicts
<1>3. K \subseteq K2 /\ ChildrenToo(p, K2)
  BY <1>2, DescendantsOn
<1>4. ASSUME NEW t \in N, NEW s \in S
      PROVE  t.vin \cap s.vin = {}
  <2> SUFFICES ASSUME t.vin \cap s.vin # {}
               PROVE  FALSE
    BY Zenon
  <2>1. t \in M /\ t \notin S /\ t \notin K2
    BY Zenon, <1>1
  <2>2. t \in Conflicts(p, s)
    BY Zenon, <2>1 DEF Conflicts
  <2> QED
    BY Zenon, <1>3, <2>1, <2>2
<1> HIDE DEF K, K2, N, q
<1>5. Inputs(N) \subseteq v \cup Outputs(N \cup E)
  <2> SUFFICES ASSUME NEW o, o \in Inputs(N)
               PROVE  o \in v \cup Outputs(N \cup E)
    BY Zenon
  <2>1. PICK t \in N : o \in t.vin
    BY Zenon, Members
  <2>2. t \in M /\ t \notin S /\ t \notin K2
    BY Zenon, <1>1
  <2>3. o \notin Inputs(S)
    BY <1>4, <2>1, Members
  <2>4. o \in u \/ o \in Outputs(M \cup D)
    BY Zenon, <2>1, <2>2, Members DEF PoolOn
  <2>5. CASE o \in u
    BY Zenon, <2>3, <2>5
  <2>6. CASE o \in Outputs(M \cup D)
    <3>1. PICK s \in M \cup D : o \in s.vout
      BY Zenon, <2>6, Members
    <3>2. CASE s \in S
      BY Zenon, <2>3, <3>1, <3>2, Members
    <3>3. CASE s \notin S
      <4>1. s \in M => s \notin K2
        BY Zenon, <1>3, <2>1, <2>2, <3>1 DEF ChildrenToo, Spends
      <4>2. s \in N \cup E
        BY Zenon, <1>1, <3>3, <4>1
      <4> QED
        BY Zenon, <3>1, <4>2, Members
    <3> QED
      BY Zenon, <3>2, <3>3
  <2> QED
    BY Zenon, <2>4, <2>5, <2>6
<1>6. Inputs(N \cap {}) \cap Outputs(E) = {}
  BY Members
<1>7. Inputs(E \cup {}) \cap Outputs(N \ {}) = {}
  <2>1. Inputs(E \cup {}) \subseteq Inputs(D \cup {}) /\ Outputs(N \ {}) \subseteq Outputs(M \ {})
    BY <1>1, Members
  <2> QED
    BY Zenon, <2>1 DEF PoolOn
<1>8. /\ N \subseteq MTxs /\ E \subseteq MTxs
      /\ (N \cup E) \cap (C \cup S) = {} /\ (N \cup {}) \cap E = {}
      /\ \A s, t \in N \cup E : s # t => s.vin \cap t.vin = {}
  BY Zenon, <1>1 DEF PoolOn
<1>9. PoolOn(q, v, C \cup S, E, {})
  BY Zenon, <1>1, <1>5, <1>6, <1>7, <1>8 DEF PoolOn, N
<1> QED
  BY Zenon, <1>9 DEF q, K, K2, RemoveForBlock

(* Taking the last block off gives back the coins it spent. *)
LEMMA Unsettles ==
    ASSUME NEW u, NEW C, NEW B, Settled(u, C), B \subseteq C,
           Inputs(C \ B) \subseteq Funding \cup Outputs(C \ B)
    PROVE  Settled((u \ Outputs(B)) \cup (Inputs(B) \ Outputs(B)), C \ B)
<1> DEFINE A == C \ B
           v == (u \ Outputs(B)) \cup (Inputs(B) \ Outputs(B))
<1>1. C = A \cup B /\ A \subseteq MTxs /\ B \subseteq MTxs /\ A \cap B = {}
  BY Zenon DEF Settled
<1> HIDE DEF A
<1>2. Inputs(C) = Inputs(A) \cup Inputs(B) /\ Outputs(C) = Outputs(A) \cup Outputs(B)
  BY <1>1, Members
<1>3. Outputs(B) \cap Outputs(A) = {} /\ Outputs(B) \cap Funding = {}
  BY <1>1, OutputsApart
<1>4. Inputs(A) \cap Inputs(B) = {}
  <2> SUFFICES ASSUME NEW o, o \in Inputs(A), o \in Inputs(B)
               PROVE  FALSE
    BY Zenon
  <2>1. PICK s \in A : o \in s.vin
    BY Zenon, Members
  <2>2. PICK t \in B : o \in t.vin
    BY Zenon, Members
  <2>3. s \in C /\ t \in C /\ s # t
    BY Zenon, <1>1
  <2> QED
    BY Zenon, <2>1, <2>2, <2>3 DEF Settled
<1>5. u = (Funding \cup Outputs(C)) \ Inputs(C) /\ Inputs(C) \subseteq Funding \cup Outputs(C)
  BY Zenon DEF Settled
<1>6. v = (Funding \cup Outputs(A)) \ Inputs(A)
  BY Zenon, <1>2, <1>3, <1>4, <1>5
<1>7. Inputs(A) \subseteq Funding \cup Outputs(A)
  BY Zenon DEF A
<1>8. \A s, t \in A : s # t => s.vin \cap t.vin = {}
  BY Zenon, <1>1 DEF Settled
<1> HIDE DEF v
<1>9. Settled(v, A)
  BY Zenon, <1>1, <1>6, <1>7, <1>8 DEF Settled
<1> QED
  BY Zenon, <1>9 DEF v, A

(* The mempool meets the coins before the block, with the transactions of  *)
(* the block in the queue.                                                 *)
LEMMA DisconnectOn ==
    ASSUME NEW p, NEW u, NEW C, NEW D, NEW B, NEW v, Settled(u, C), PoolOn(p, u, C, D, {}),
           B \subseteq C, Settled(v, C \ B), Inputs(D) \cap Inputs(C) = {}
    PROVE  PoolOn(p, v, C \ B, B \cup D, {})
<1> DEFINE M == p.mapTx
           A == C \ B
           E == B \cup D
<1>1. C = A \cup B /\ C \subseteq MTxs /\ M \subseteq MTxs /\ D \subseteq MTxs
      /\ (M \cup D) \cap C = {} /\ M \cap D = {}
  BY Zenon DEF Settled, PoolOn
<1>2. Outputs(M \cup D) \cap Outputs(C) = {} /\ Outputs(M \cup D) \cap Funding = {}
  BY Zenon, <1>1, OutputsApart
<1>3. Inputs(M) \cap Inputs(C) = {}
  <2>1. Inputs(M) \subseteq u \cup Outputs(M \cup D)
    BY Zenon DEF PoolOn
  <2>2. u \cap Inputs(C) = {} /\ Inputs(C) \subseteq Funding \cup Outputs(C)
    BY Zenon DEF Settled
  <2> QED
    BY Zenon, <1>2, <2>1, <2>2
<1>4. \A s, t \in M \cup E : s # t => s.vin \cap t.vin = {}
  <2>1. ASSUME NEW s \in M \cup D, NEW t \in C
        PROVE  s.vin \cap t.vin = {}
    <3>1. s.vin \subseteq Inputs(M) \cup Inputs(D) /\ t.vin \subseteq Inputs(C)
      BY Zenon, Members
    <3> QED
      BY Zenon, <1>3, <3>1
  <2>2. \A s, t \in M \cup D : s # t => s.vin \cap t.vin = {}
    BY Zenon DEF PoolOn
  <2>3. \A s, t \in C : s # t => s.vin \cap t.vin = {}
    BY Zenon DEF Settled
  <2> QED
    BY Zenon, <2>1, <2>2, <2>3
<1>5. Inputs(M) \subseteq v \cup Outputs(M \cup E)
  <2>1. Inputs(M) \subseteq u \cup Outputs(M \cup D)
    BY Zenon DEF PoolOn
  <2>2. Outputs(C) = Outputs(A) \cup Outputs(B) /\ Inputs(A) \subseteq Inputs(C)
    BY Zenon, <1>1, Members
  <2>3. Outputs(M \cup D) \subseteq Outputs(M \cup E) /\ Outputs(B) \subseteq Outputs(M \cup E)
    BY Members
  <2>4. u = (Funding \cup Outputs(C)) \ Inputs(C)
    BY Zenon DEF Settled
  <2>5. v = (Funding \cup Outputs(A)) \ Inputs(A)
    BY Zenon DEF Settled
  <2> QED
    BY Zenon, <2>1, <2>2, <2>3, <2>4, <2>5
<1>6. Inputs(M \cap {}) \cap Outputs(E) = {}
  BY Members
<1>7. Inputs(E \cup {}) \cap Outputs(M \ {}) = {}
  <2>1. Inputs(E \cup {}) \subseteq Inputs(C) \cup Inputs(D \cup {})
    BY <1>1, Members
  <2>2. Inputs(D \cup {}) \cap Outputs(M \ {}) = {}
    BY Zenon DEF PoolOn
  <2>3. Outputs(M \ {}) \subseteq Outputs(M \cup D)
    BY Members
  <2>4. Inputs(C) \subseteq Funding \cup Outputs(C)
    BY Zenon DEF Settled
  <2> QED
    BY Zenon, <1>2, <2>1, <2>2, <2>3, <2>4
<1>8. E \subseteq MTxs /\ (M \cup E) \cap A = {} /\ (M \cup {}) \cap E = {}
  BY Zenon, <1>1
<1> HIDE DEF A, E
<1>9. PoolOn(p, v, A, E, {})
  BY Zenon, <1>1, <1>4, <1>5, <1>6, <1>7, <1>8 DEF PoolOn
<1> QED
  BY Zenon, <1>9 DEF A, E

-----------------------------------------------------------------------------
(* The chain and the queue, as sequences *)

(* The transactions of a chain. *)
Confirmed(ch) == UNION {Range(ch[k]) : k \in 1..Len(ch)}

(* Every block has transactions of its own, each once, which spend what    *)
(* the chain holds up to it.                                               *)
Grounded(ch) ==
    /\ ch \in Seq(Seq(MTxs))
    /\ \A k \in 1..Len(ch) : IsInjective(ch[k])
    /\ \A i, j \in 1..Len(ch) : i # j => Range(ch[i]) \cap Range(ch[j]) = {}
    /\ \A k \in 1..Len(ch) :
           Inputs(Range(ch[k])) \subseteq
               Funding \cup Outputs(UNION {Range(ch[i]) : i \in 1..k})

(* A block is added. *)
LEMMA GroundedAppend ==
    ASSUME NEW ch, Grounded(ch), NEW blk \in Seq(MTxs), IsInjective(blk),
           Range(blk) \cap Confirmed(ch) = {},
           Inputs(Range(blk)) \subseteq Funding \cup Outputs(Confirmed(ch) \cup Range(blk))
    PROVE  /\ Grounded(Append(ch, blk))
           /\ Confirmed(Append(ch, blk)) = Confirmed(ch) \cup Range(blk)
<1> DEFINE n == Len(ch)
           c == Append(ch, blk)
           U(k) == UNION {Range(ch[i]) : i \in 1..k}
           V(k) == UNION {Range(c[i]) : i \in 1..k}
<1>1. /\ n \in Nat /\ c \in Seq(Seq(MTxs)) /\ Len(c) = n + 1
      /\ c[n + 1] = blk /\ \A i \in 1..n : c[i] = ch[i]
  BY AppendProperties DEF Grounded
<1>2. \A i \in 1..n + 1 : i \in 1..n \/ i = n + 1
  BY <1>1
<1>3. \A i \in 1..n : i \in 1..n + 1
  BY <1>1
<1>4. n + 1 \in 1..n + 1
  BY <1>1
<1> HIDE DEF c, n
<1>5. \A k \in 1..n : V(k) = U(k)
  <2> SUFFICES ASSUME NEW k \in 1..n
               PROVE  V(k) = U(k)
    BY Zenon
  <2>1. \A i \in 1..k : i \in 1..n
    BY <1>1
  <2>2. \A i \in 1..k : c[i] = ch[i]
    BY Zenon, <1>1, <2>1
  <2> QED
    BY Zenon, <2>2
<1>6. V(n + 1) = Confirmed(ch) \cup Range(blk)
  <2>1. Confirmed(ch) = {t \in Confirmed(ch) : \E i \in 1..n : t \in Range(ch[i])}
    BY Zenon DEF Confirmed, n
  <2>2. \A i \in 1..n : Range(ch[i]) \subseteq Confirmed(ch)
    BY Zenon DEF Confirmed, n
  <2>3. \A t : t \in V(n + 1) <=> \E i \in 1..n + 1 : t \in Range(c[i])
    BY Zenon
  <2> QED
    BY Zenon, <1>1, <1>2, <1>3, <1>4, <2>1, <2>2, <2>3
<1>7. Confirmed(c) = V(n + 1)
  BY Zenon, <1>1 DEF Confirmed
<1>8. \A i \in 1..n : Range(ch[i]) \cap Range(blk) = {}
  BY Zenon DEF Confirmed, n
<1>9. \A i, j \in 1..n + 1 : i # j => Range(c[i]) \cap Range(c[j]) = {}
  <2>1. \A i, j \in 1..n : i # j => Range(ch[i]) \cap Range(ch[j]) = {}
    BY Zenon DEF Grounded, n
  <2> QED
    BY Zenon, <1>1, <1>2, <1>8, <2>1
<1>10. \A k \in 1..n + 1 : IsInjective(c[k])
  <2>1. \A k \in 1..n : IsInjective(ch[k])
    BY Zenon DEF Grounded, n
  <2> QED
    BY Zenon, <1>1, <1>2, <2>1
<1>11. \A k \in 1..n + 1 : Inputs(Range(c[k])) \subseteq Funding \cup Outputs(V(k))
  <2>1. \A k \in 1..n : Inputs(Range(ch[k])) \subseteq Funding \cup Outputs(U(k))
    BY Zenon DEF Grounded, n
  <2> HIDE DEF U, V
  <2> QED
    BY Zenon, <1>1, <1>2, <1>5, <1>6, <2>1
<1>12. Grounded(c)
  BY Zenon, <1>1, <1>9, <1>10, <1>11 DEF Grounded
<1> QED
  BY Zenon, <1>6, <1>7, <1>12 DEF c

(* The block that DisconnectTip takes off, and the chain below it. *)
Last(ch) == ch[Len(ch)]

Front(ch) == SubSeq(ch, 1, Len(ch) - 1)

(* The last block is taken off. *)
LEMMA GroundedFront ==
    ASSUME NEW ch, Grounded(ch), ch # <<>>
    PROVE  /\ Last(ch) \in Seq(MTxs) /\ IsInjective(Last(ch))
           /\ Range(Last(ch)) \subseteq Confirmed(ch)
           /\ Grounded(Front(ch))
           /\ Confirmed(Front(ch)) = Confirmed(ch) \ Range(Last(ch))
           /\ Inputs(Confirmed(Front(ch))) \subseteq Funding \cup Outputs(Confirmed(Front(ch)))
<1> DEFINE n == Len(ch)
           c == Front(ch)
           U(k) == UNION {Range(ch[i]) : i \in 1..k}
           V(k) == UNION {Range(c[i]) : i \in 1..k}
<1>1. /\ n \in Nat /\ n >= 1 /\ ch[n] \in Seq(MTxs) /\ Last(ch) = ch[n]
      /\ \A i \in 1..n - 1 : i \in 1..n /\ i # n
      /\ \A i \in 1..n : i \in 1..n - 1 \/ i = n
      /\ n \in 1..n
  BY EmptySeq DEF Grounded, Last
<1>2. c \in Seq(Seq(MTxs)) /\ Len(c) = n - 1 /\ \A i \in 1..n - 1 : c[i] = ch[i]
  <2>1. ch \in Seq(Seq(MTxs)) /\ c = SubSeq(ch, 1, n - 1)
    BY Zenon DEF Grounded, Front
  <2>2. 1 \in 1..n + 1 /\ n - 1 \in 0..n
    BY <1>1
  <2> HIDE DEF n, c
  <2>3. n = Len(ch)
    BY Zenon DEF n
  <2> QED
    BY <1>1, <2>1, <2>2, <2>3
<1> HIDE DEF c, n
<1>3. \A k \in 1..n - 1 : V(k) = U(k)
  <2> SUFFICES ASSUME NEW k \in 1..n - 1
               PROVE  V(k) = U(k)
    BY Zenon
  <2>1. \A i \in 1..k : i \in 1..n - 1
    BY <1>1
  <2>2. \A i \in 1..k : c[i] = ch[i]
    BY Zenon, <1>2, <2>1
  <2> QED
    BY Zenon, <2>2
<1>4. \A t : t \in Confirmed(c) <=> \E i \in 1..n - 1 : t \in Range(ch[i])
  BY Zenon, <1>2 DEF Confirmed
<1>5. \A t : t \in Confirmed(ch) <=> \E i \in 1..n : t \in Range(ch[i])
  BY Zenon DEF Confirmed, n
<1>6. \A i, j \in 1..n : i # j => Range(ch[i]) \cap Range(ch[j]) = {}
  BY Zenon DEF Grounded, n
<1>7. Range(ch[n]) \subseteq Confirmed(ch) /\ Confirmed(c) = Confirmed(ch) \ Range(ch[n])
  BY Zenon, <1>1, <1>4, <1>5, <1>6
<1>8. IsInjective(ch[n]) /\ \A k \in 1..n - 1 : IsInjective(c[k])
  <2>1. \A k \in 1..n : IsInjective(ch[k])
    BY Zenon DEF Grounded, n
  <2> QED
    BY Zenon, <1>1, <1>2, <2>1
<1>9. \A i, j \in 1..n - 1 : i # j => Range(c[i]) \cap Range(c[j]) = {}
  BY Zenon, <1>1, <1>2, <1>6
<1>10. \A k \in 1..n - 1 : Inputs(Range(c[k])) \subseteq Funding \cup Outputs(V(k))
  <2>1. \A k \in 1..n : Inputs(Range(ch[k])) \subseteq Funding \cup Outputs(U(k))
    BY Zenon DEF Grounded, n
  <2> HIDE DEF U, V
  <2> QED
    BY Zenon, <1>1, <1>2, <1>3, <2>1
<1>11. Grounded(c)
  BY Zenon, <1>2, <1>8, <1>9, <1>10 DEF Grounded
<1>12. Inputs(Confirmed(c)) \subseteq Funding \cup Outputs(Confirmed(c))
  <2> SUFFICES ASSUME NEW o, o \in Inputs(Confirmed(c)), o \notin Funding
               PROVE  o \in Outputs(Confirmed(c))
    BY Zenon
  <2>1. PICK t \in Confirmed(c) : o \in t.vin
    BY Zenon, Members
  <2>2. PICK k \in 1..n - 1 : t \in Range(c[k])
    BY Zenon, <1>2, <1>4
  <2>3. o \in Outputs(V(k))
    BY Zenon, <1>10, <2>1, <2>2, Members
  <2>4. \A i \in 1..k : i \in 1..n - 1
    BY <1>1
  <2>5. V(k) \subseteq Confirmed(c)
    BY Zenon, <1>2, <2>4 DEF Confirmed
  <2> QED
    BY <2>3, <2>5, Members
<1> QED
  BY Zenon, <1>1, <1>7, <1>8, <1>11, <1>12 DEF c

(* What stays in the queue and what is cut off. *)
LEMMA CutQueue ==
    ASSUME NEW x \in Seq(MTxs), NEW y \in Seq(MTxs), IsInjective(x), IsInjective(y),
           Range(x) \cap Range(y) = {}, NEW k \in 0..Len(x \o y)
    PROVE  LET q == x \o y
               pre == SubSeq(q, 1, k)
               suf == SubSeq(q, k + 1, Len(q))
               all == Range(x) \cup Range(y)
           IN  /\ pre \in Seq(MTxs) /\ IsInjective(pre)
               /\ Range(pre) \subseteq all /\ Range(suf) \subseteq all
               /\ all \ Range(pre) \subseteq Range(suf)
<1> DEFINE q == x \o y
           pre == SubSeq(q, 1, k)
           suf == SubSeq(q, k + 1, Len(q))
           all == Range(x) \cup Range(y)
           m == Len(x)
           n == Len(q)
<1>1. /\ q \in Seq(MTxs) /\ n = m + Len(y) /\ m \in Nat /\ Len(y) \in Nat /\ n \in Nat /\ k \in 0..n
      /\ DOMAIN x = 1..m /\ DOMAIN y = 1..Len(y) /\ DOMAIN q = 1..n
      /\ \A i \in 1..n : q[i] = IF i <= m THEN x[i] ELSE y[i - m]
  BY ConcatProperties
<1> HIDE DEF q, m, n
<1>2. \A i \in 1..n : IF i <= m THEN i \in DOMAIN x ELSE i - m \in DOMAIN y
  BY <1>1
<1>3. \A i \in 1..n : q[i] \in all
  BY Zenon, <1>1, <1>2 DEF Range
<1>4. \A t \in all : \E i \in 1..n : q[i] = t
  <2>1. ASSUME NEW j \in DOMAIN x
        PROVE  j \in 1..n /\ q[j] = x[j]
    BY <1>1
  <2>2. ASSUME NEW j \in DOMAIN y
        PROVE  j + m \in 1..n /\ q[j + m] = y[j]
    <3>1. j + m \in 1..n /\ ~(j + m <= m) /\ (j + m) - m = j
      BY <1>1
    <3>2. q[j + m] = y[(j + m) - m]
      BY Zenon, <1>1, <3>1
    <3> QED
      BY Zenon, <3>1, <3>2
  <2> QED
    BY Zenon, <2>1, <2>2 DEF Range
<1>5. \A i, j \in 1..n : q[i] = q[j] => i = j
  <2> SUFFICES ASSUME NEW i \in 1..n, NEW j \in 1..n, q[i] = q[j]
               PROVE  i = j
    BY Zenon
  <2>1. CASE i <= m /\ j <= m
    BY Zenon, <1>1, <1>2, <2>1 DEF IsInjective
  <2>2. CASE ~(i <= m) /\ ~(j <= m)
    <3>1. i - m \in DOMAIN y /\ j - m \in DOMAIN y /\ y[i - m] = y[j - m]
      BY Zenon, <1>1, <1>2, <2>2
    <3>2. i - m = j - m
      BY Zenon, <3>1 DEF IsInjective
    <3> QED
      BY <1>1, <3>2
  <2>3. CASE i <= m /\ ~(j <= m)
    <3>1. q[i] \in Range(x) /\ q[j] \in Range(y)
      BY Zenon, <1>1, <1>2, <2>3 DEF Range
    <3> QED
      BY Zenon, <3>1
  <2>4. CASE ~(i <= m) /\ j <= m
    <3>1. q[i] \in Range(y) /\ q[j] \in Range(x)
      BY Zenon, <1>1, <1>2, <2>4 DEF Range
    <3> QED
      BY Zenon, <3>1
  <2> QED
    BY Zenon, <2>1, <2>2, <2>3, <2>4
<1>6. /\ pre \in Seq(MTxs) /\ DOMAIN pre = 1..k /\ \A i \in 1..k : pre[i] = q[i] /\ i \in 1..n
  <2>1. 1 \in 1..n + 1 /\ k \in 0..n /\ k \in Nat
    BY <1>1
  <2> QED
    BY <1>1, <2>1
<1>7. /\ DOMAIN suf = 1..n - k /\ \A i \in 1..n - k : suf[i] = q[k + i] /\ k + i \in 1..n
  <2>1. k + 1 \in 1..n + 1 /\ n \in 0..n /\ n - k \in Nat /\ n = Len(q)
    BY <1>1 DEF n
  <2> QED
    BY <1>1, <2>1
<1> HIDE DEF pre, suf, all
<1>8. IsInjective(pre) /\ Range(pre) \subseteq all /\ Range(suf) \subseteq all
  <2>1. \A i, j \in 1..k : pre[i] = pre[j] => i = j
    BY Zenon, <1>5, <1>6
  <2>2. (\A i \in 1..k : pre[i] \in all) /\ \A i \in 1..n - k : suf[i] \in all
    BY Zenon, <1>3, <1>6, <1>7
  <2> QED
    BY <1>6, <1>7, <2>1, <2>2 DEF IsInjective, Range
<1>9. ASSUME NEW t \in all, t \notin Range(pre)
      PROVE  t \in Range(suf)
  <2>1. PICK i \in 1..n : q[i] = t
    BY Zenon, <1>4
  <2>2. ~(i \in 1..k)
    BY Zenon, <1>6, <1>9, <2>1 DEF Range
  <2>3. i - k \in 1..n - k /\ k + (i - k) = i
    BY <1>1, <2>2
  <2>4. suf[i - k] = t
    BY Zenon, <1>7, <2>1, <2>3
  <2> QED
    BY Zenon, <1>7, <2>3, <2>4 DEF Range
<1> QED
  BY Zenon, <1>6, <1>8, <1>9 DEF pre, suf, all, q, n

(* The head of the queue leaves it. *)
LEMMA QueueTail ==
    ASSUME NEW q \in Seq(MTxs), IsInjective(q), q # <<>>
    PROVE  /\ Head(q) \in Range(q)
           /\ Tail(q) \in Seq(MTxs) /\ IsInjective(Tail(q))
           /\ Range(Tail(q)) = Range(q) \ {Head(q)}
<1> DEFINE n == Len(q)
           r == Tail(q)
<1>1. n \in Nat /\ n >= 1 /\ DOMAIN q = 1..n /\ Head(q) = q[1] /\ 1 \in 1..n
  BY EmptySeq
<1>2. r \in Seq(MTxs) /\ DOMAIN r = 1..n - 1 /\ \A i \in 1..n - 1 : r[i] = q[i + 1]
  BY <1>1, HeadTailProperties
<1>3. \A i \in 1..n - 1 : i + 1 \in 1..n /\ i + 1 # 1
  BY <1>1
<1>4. \A i \in 1..n : i = 1 \/ (i - 1 \in 1..n - 1 /\ (i - 1) + 1 = i)
  BY <1>1
<1> HIDE DEF r, n
<1>5. \A i, j \in 1..n : q[i] = q[j] => i = j
  BY Zenon, <1>1 DEF IsInjective
<1>6. ASSUME NEW i \in 1..n - 1, NEW j \in 1..n - 1, r[i] = r[j]
      PROVE  i = j
  <2>1. i + 1 = j + 1
    BY Zenon, <1>2, <1>3, <1>5, <1>6
  <2> QED
    BY <1>1, <2>1
<1>7. Range(r) = Range(q) \ {q[1]}
  <2>1. ASSUME NEW i \in 1..n - 1
        PROVE  r[i] \in Range(q) /\ r[i] # q[1]
    BY <1>1, <1>2, <1>3, <1>5 DEF Range
  <2>2. ASSUME NEW i \in 1..n, q[i] # q[1]
        PROVE  q[i] \in Range(r)
    <3>1. i - 1 \in 1..n - 1 /\ r[i - 1] = q[i]
      BY Zenon, <1>2, <1>4, <2>2
    <3> QED
      BY Zenon, <1>2, <3>1 DEF Range
  <2>3. (\A t : t \in Range(q) <=> \E i \in 1..n : q[i] = t)
        /\ \A t : t \in Range(r) <=> \E i \in 1..n - 1 : r[i] = t
    BY Zenon, <1>1, <1>2 DEF Range
  <2> QED
    BY <2>1, <2>2, <2>3
<1>8. IsInjective(r)
  BY Zenon, <1>2, <1>6 DEF IsInjective
<1> QED
  BY Zenon, <1>1, <1>2, <1>7, <1>8 DEF r, Range

(* A block is a sequence of transactions, each once. *)
LEMMA BlocksType ==
    ASSUME NEW blk \in Blocks
    PROVE  blk \in Seq(MTxs) /\ IsInjective(blk)
<1>1. PICK n \in 0..MaxBlockTxs : blk \in [1..n -> MTxs] /\ IsInjective(blk)
  BY Zenon DEF Blocks, Injection
<1>2. n \in Nat
  BY MempoolAssumption
<1> QED
  BY <1>1, <1>2

-----------------------------------------------------------------------------
(* The mempool over the chain *)

(* The queue and the set of those put back are in use only while a         *)
(* reorganisation lasts, and disconnected transactions share no input with *)
(* the chain until the new branch is connected.                            *)
MempoolInv ==
    /\ PoolInv(mp)
    /\ Grounded(chain)
    /\ Settled(utxo, Confirmed(chain))
    /\ PoolOn(mp, utxo, Confirmed(chain), Range(disconnectpool), vHashUpdate)
    /\ disconnectpool \in Seq(MTxs) /\ IsInjective(disconnectpool)
    /\ vHashUpdate \in SUBSET MTxs
    /\ phase \in {"idle", "disconnecting", "connecting", "resubmitting"}
    /\ phase = "idle" => disconnectpool = <<>>
    /\ phase # "resubmitting" => vHashUpdate = {}
    /\ phase = "disconnecting" =>
           Inputs(Range(disconnectpool)) \cap Inputs(Confirmed(chain)) = {}

(* The empty queue. *)
LEMMA EmptyQueue == Range(<<>>) = {} /\ IsInjective(<<>>) /\ <<>> \in Seq(MTxs)
BY DEF Range, IsInjective

(* A node starts with the funded coins and nothing else. *)
LEMMA InitMempool == Init => MempoolInv
<1> SUFFICES ASSUME Init
             PROVE  MempoolInv
  BY Zenon
<1>1. /\ chain = <<>> /\ utxo = Funding /\ mp = EmptyMempool /\ disconnectpool = <<>>
      /\ vHashUpdate = {} /\ phase = "idle"
  BY Zenon DEF Init
<1>2. PoolInv(mp)
  BY Zenon, InitPool
<1>3. Confirmed(<<>>) = {} /\ Grounded(<<>>)
  BY DEF Confirmed, Grounded
<1>4. Inputs({}) = {} /\ Outputs({}) = {}
  BY Zenon DEF Inputs, Outputs
<1>5. Settled(Funding, {})
  BY Zenon, <1>4 DEF Settled
<1>6. mp.mapTx = {} /\ mp.links = {}
  BY Zenon, <1>1 DEF EmptyMempool
<1>7. LinksBut(mp, {}) = {}
  BY Zenon, <1>6 DEF LinksBut
<1>8. PoolOn(mp, Funding, {}, {}, {})
  BY Zenon, <1>4, <1>6, <1>7 DEF PoolOn
<1> QED
  BY Zenon, <1>1, <1>2, <1>3, <1>5, <1>8, EmptyQueue DEF MempoolInv

(* ConnectTip. *)
LEMMA ConnectMempool ==
    ASSUME MempoolInv, PoolInv(mp'), NEW blk \in Blocks, ConnectTip(blk)
    PROVE  MempoolInv'
<1> DEFINE C == Confirmed(chain)
           D == Range(disconnectpool)
           S == Range(blk)
<1>1. /\ phase \in {"idle", "disconnecting", "connecting"}
      /\ CheckBlockInputs(blk)
      /\ chain' = Append(chain, blk)
      /\ utxo' = (utxo \cup Outputs(S)) \ Inputs(S)
      /\ mp' = RemoveForBlock(mp, S)
      /\ disconnectpool' = Without(disconnectpool, S)
      /\ phase' = IF phase = "idle" THEN "idle" ELSE "connecting"
      /\ vHashUpdate' = vHashUpdate
  BY Zenon DEF ConnectTip
<1>2. blk \in Seq(MTxs) /\ IsInjective(blk)
  BY Zenon, BlocksType
<1>3. /\ Grounded(chain) /\ Settled(utxo, C) /\ PoolOn(mp, utxo, C, D, {})
      /\ disconnectpool \in Seq(MTxs) /\ IsInjective(disconnectpool)
      /\ vHashUpdate = {}
      /\ phase = "idle" => disconnectpool = <<>>
  BY Zenon, <1>1 DEF MempoolInv
<1> HIDE DEF C, D, S
<1>4. /\ S \cap C = {} /\ Inputs(S) \subseteq Funding \cup Outputs(C \cup S)
      /\ Settled(utxo', C \cup S)
  BY Zenon, <1>1, <1>2, <1>3, BlockSettles DEF S
<1>5. Grounded(chain') /\ Confirmed(chain') = C \cup S
  BY Zenon, <1>1, <1>2, <1>3, <1>4, GroundedAppend DEF C, S
<1>6. PoolOn(mp', utxo', C \cup S, D \ S, {})
  BY Zenon, <1>1, <1>3, BlockOn
<1>7. /\ disconnectpool' \in Seq(MTxs) /\ IsInjective(disconnectpool')
      /\ Range(disconnectpool') = D \ S
  BY Zenon, <1>1, <1>3, WithoutFields DEF D
<1>8. ASSUME phase' = "idle"
      PROVE  disconnectpool' = <<>>
  <2>1. disconnectpool = <<>>
    BY Zenon, <1>1, <1>3, <1>8
  <2>2. Range(disconnectpool') = {}
    BY Zenon, <1>7, <2>1, EmptyQueue DEF D
  <2>3. Len(disconnectpool') = 0
    BY <1>7, <2>2 DEF Range
  <2> QED
    BY Zenon, <1>7, <2>3, EmptySeq
<1>9. phase' \in {"idle", "connecting"} /\ vHashUpdate' = {}
  BY Zenon, <1>1, <1>3
<1> QED
  BY Zenon, <1>4, <1>5, <1>6, <1>7, <1>8, <1>9 DEF MempoolInv

(* DisconnectTip. *)
LEMMA DisconnectMempool ==
    ASSUME MempoolInv, PoolInv(mp'), DisconnectTip
    PROVE  MempoolInv'
<1> DEFINE C == Confirmed(chain)
           D == Range(disconnectpool)
           blk == Last(chain)
           B == Range(blk)
           q == blk \o disconnectpool
<1>1. /\ phase \in {"idle", "disconnecting"} /\ chain # <<>>
      /\ utxo' = (utxo \ Outputs(B)) \cup (Inputs(B) \ Outputs(B))
      /\ chain' = Front(chain) /\ phase' = "disconnecting" /\ vHashUpdate' = vHashUpdate
  BY Zenon DEF DisconnectTip, Last, Front
<1>2. PICK k \in 0..Len(q) :
          /\ disconnectpool' = SubSeq(q, 1, k)
          /\ mp' = RemoveRecursive(mp, Range(SubSeq(q, k + 1, Len(q))))
  BY Zenon DEF DisconnectTip, Last, Front
<1>3. /\ Grounded(chain) /\ Settled(utxo, C) /\ PoolOn(mp, utxo, C, D, {})
      /\ disconnectpool \in Seq(MTxs) /\ IsInjective(disconnectpool)
      /\ vHashUpdate = {}
  BY Zenon, <1>1 DEF MempoolInv
<1>4. Inputs(D) \cap Inputs(C) = {}
  <2>1. CASE phase = "idle"
    <3>1. D = {}
      BY Zenon, <2>1, EmptyQueue DEF MempoolInv
    <3> QED
      BY Zenon, <3>1 DEF Inputs
  <2>2. CASE phase = "disconnecting"
    BY Zenon, <2>2 DEF MempoolInv
  <2> QED
    BY Zenon, <1>1, <2>1, <2>2
<1> DEFINE T == Range(SubSeq(q, k + 1, Len(q)))
           E == Range(SubSeq(q, 1, k))
<1>5. /\ blk \in Seq(MTxs) /\ IsInjective(blk) /\ B \subseteq C
      /\ Grounded(chain') /\ Confirmed(chain') = C \ B
      /\ Inputs(C \ B) \subseteq Funding \cup Outputs(C \ B)
  BY Zenon, <1>1, <1>3, GroundedFront
<1>6. B \cap D = {}
  BY Zenon, <1>3, <1>5 DEF PoolOn
<1>7. /\ disconnectpool' \in Seq(MTxs) /\ IsInjective(disconnectpool')
      /\ E \subseteq B \cup D /\ T \subseteq B \cup D /\ (B \cup D) \ E \subseteq T
  <2>1. \A x \in Seq(MTxs), y \in Seq(MTxs) :
            IsInjective(x) /\ IsInjective(y) /\ Range(x) \cap Range(y) = {} =>
                \A i \in 0..Len(x \o y) :
                    /\ SubSeq(x \o y, 1, i) \in Seq(MTxs) /\ IsInjective(SubSeq(x \o y, 1, i))
                    /\ Range(SubSeq(x \o y, 1, i)) \subseteq Range(x) \cup Range(y)
                    /\ Range(SubSeq(x \o y, i + 1, Len(x \o y))) \subseteq Range(x) \cup Range(y)
                    /\ (Range(x) \cup Range(y)) \ Range(SubSeq(x \o y, 1, i))
                           \subseteq Range(SubSeq(x \o y, i + 1, Len(x \o y)))
    BY CutQueue
  <2> HIDE DEF blk
  <2> QED
    BY Zenon, <1>2, <1>3, <1>5, <1>6, <2>1
<1> HIDE DEF C, D, B, T, E, q, blk
<1>8. Settled(utxo', C \ B)
  BY Zenon, <1>1, <1>3, <1>5, Unsettles
<1>9. PoolOn(mp, utxo', C \ B, B \cup D, {})
  BY Zenon, <1>3, <1>4, <1>5, <1>8, DisconnectOn
<1>10. PoolOn(mp', utxo', C \ B, E, {})
  BY Zenon, <1>2, <1>7, <1>9, RecursiveOn DEF T
<1>11. Inputs(E) \cap Inputs(C \ B) = {}
  <2> SUFFICES ASSUME NEW o, o \in Inputs(E), o \in Inputs(C \ B)
               PROVE  FALSE
    BY Zenon
  <2>1. PICK s \in E : o \in s.vin
    BY Zenon, Members
  <2>2. PICK t \in C \ B : o \in t.vin
    BY Zenon, Members
  <2>3. CASE s \in D
    <3>1. o \in Inputs(D) /\ o \in Inputs(C)
      BY Zenon, <2>1, <2>2, <2>3, Members
    <3> QED
      BY Zenon, <1>4, <3>1
  <2>4. CASE s \in B
    BY Zenon, <1>3, <1>5, <2>1, <2>2, <2>4 DEF Settled
  <2> QED
    BY Zenon, <1>7, <2>1, <2>3, <2>4
<1>12. Range(disconnectpool') = E
  BY Zenon, <1>2 DEF E
<1>13. vHashUpdate' = {}
  BY Zenon, <1>1, <1>3
<1> QED
  BY Zenon, <1>1, <1>5, <1>7, <1>8, <1>10, <1>11, <1>12, <1>13 DEF MempoolInv

(* One turn of the loop over the queue. *)
LEMMA ResubmitMempool ==
    ASSUME MempoolInv, PoolInv(mp'), NEW tx \in MTxs, Resubmit(tx)
    PROVE  MempoolInv'
<1> DEFINE C == Confirmed(chain)
           D == Range(disconnectpool)
<1>1. /\ disconnectpool # <<>> /\ tx = Head(disconnectpool)
      /\ disconnectpool' = Tail(disconnectpool)
      /\ phase' = "resubmitting" /\ chain' = chain /\ utxo' = utxo
      /\ \/ /\ CanAccept(tx) /\ mp' = Accepted(mp, tx)
            /\ vHashUpdate' = vHashUpdate \cup {tx}
         \/ mp' = RemoveRecursive(mp, {tx}) /\ vHashUpdate' = vHashUpdate
  BY Zenon DEF Resubmit
<1>2. /\ Grounded(chain) /\ Settled(utxo, C) /\ PoolOn(mp, utxo, C, D, vHashUpdate) /\ PoolInv(mp)
      /\ disconnectpool \in Seq(MTxs) /\ IsInjective(disconnectpool) /\ vHashUpdate \in SUBSET MTxs
  BY Zenon DEF MempoolInv
<1>3. /\ tx \in D /\ disconnectpool' \in Seq(MTxs) /\ IsInjective(disconnectpool')
      /\ Range(disconnectpool') = D \ {tx}
  BY Zenon, <1>1, <1>2, QueueTail
<1> HIDE DEF C, D
<1>4. PoolOn(mp', utxo, C, D \ {tx}, vHashUpdate') /\ vHashUpdate' \in SUBSET MTxs
  <2>1. CASE CanAccept(tx) /\ mp' = Accepted(mp, tx) /\ vHashUpdate' = vHashUpdate \cup {tx}
    BY Zenon, <1>2, <1>3, <2>1, ResubmittedOn
  <2>2. CASE mp' = RemoveRecursive(mp, {tx}) /\ vHashUpdate' = vHashUpdate
    <3>1. {tx} \subseteq D /\ D \ {tx} \subseteq D /\ D \ (D \ {tx}) \subseteq {tx}
      BY Zenon, <1>3
    <3> QED
      BY Zenon, <1>2, <1>3, <2>2, <3>1, RecursiveOn
  <2> QED
    BY Zenon, <1>1, <2>1, <2>2
<1>5. PoolOn(mp', utxo', Confirmed(chain'), Range(disconnectpool'), vHashUpdate')
  BY Zenon, <1>1, <1>3, <1>4 DEF C
<1>6. Grounded(chain') /\ Settled(utxo', Confirmed(chain'))
  BY Zenon, <1>1, <1>2 DEF C
<1> QED
  BY Zenon, <1>1, <1>3, <1>4, <1>5, <1>6 DEF MempoolInv

(* Every step keeps it. *)
LEMMA NextMempool == MempoolInv /\ [Next]_vars => MempoolInv'
<1> SUFFICES ASSUME MempoolInv, [Next]_vars
             PROVE  MempoolInv'
  BY Zenon
<1> DEFINE C == Confirmed(chain)
<1>0. PoolInv(mp) /\ PoolInv(mp')
  BY Zenon, NextPool DEF MempoolInv
<1>1. /\ Grounded(chain) /\ Settled(utxo, C)
      /\ phase = "idle" => disconnectpool = <<>> /\ vHashUpdate = {}
      /\ PoolOn(mp, utxo, C, Range(disconnectpool), vHashUpdate)
  BY Zenon DEF MempoolInv
<1> HIDE DEF C
<1>2. ASSUME NEW tx \in MTxs, AcceptSingleTransaction(tx)
      PROVE  MempoolInv'
  <2>1. /\ phase = "idle" /\ CanAccept(tx) /\ mp' \in LimitMempoolSize(Accepted(mp, tx))
        /\ UNCHANGED <<chain, utxo, disconnectpool, vHashUpdate, phase>>
    BY Zenon, <1>2 DEF AcceptSingleTransaction
  <2>2. PoolOn(mp, utxo, C, {}, {})
    BY Zenon, <1>1, <2>1, EmptyQueue
  <2>3. PoolOn(Accepted(mp, tx), utxo, C, {}, {})
    BY Zenon, <1>0, <1>1, <2>1, <2>2, AcceptedOn
  <2>4. PoolOn(mp', utxo, C, {}, {})
    BY Zenon, <2>1, <2>3, LimitOn
  <2> QED
    BY Zenon, <1>0, <1>1, <2>1, <2>4, EmptyQueue DEF MempoolInv, C
<1>3. ASSUME NEW parent \in MTxs, NEW child \in MTxs, AcceptMultipleTransactions(parent, child)
      PROVE  MempoolInv'
  <2>1. /\ phase = "idle" /\ mp' \in LimitMempoolSize(AcceptedPackage(mp, parent, child))
        /\ UNCHANGED <<chain, utxo, disconnectpool, vHashUpdate, phase>>
    BY Zenon, <1>3 DEF AcceptMultipleTransactions
  <2>2. PoolOn(mp, utxo, C, {}, {})
    BY Zenon, <1>1, <2>1, EmptyQueue
  <2>3. PoolOn(AcceptedPackage(mp, parent, child), utxo, C, {}, {})
    BY Zenon, <1>0, <1>1, <1>3, <2>2, AcceptedPackageOn
  <2>4. PoolOn(mp', utxo, C, {}, {})
    BY Zenon, <2>1, <2>3, LimitOn
  <2> QED
    BY Zenon, <1>0, <1>1, <2>1, <2>4, EmptyQueue DEF MempoolInv, C
<1>4. ASSUME NEW blk \in Blocks, ConnectTip(blk)
      PROVE  MempoolInv'
  BY Zenon, <1>0, <1>4, ConnectMempool
<1>5. CASE DisconnectTip
  BY Zenon, <1>0, <1>5, DisconnectMempool
<1>6. ASSUME NEW tx \in MTxs, Resubmit(tx)
      PROVE  MempoolInv'
  BY Zenon, <1>0, <1>6, ResubmitMempool
<1>7. CASE FinishReorg
  <2>1. /\ disconnectpool = <<>> /\ phase' = "idle" /\ vHashUpdate' = {}
        /\ mp' \in LimitMempoolSize(UpdateTransactionsFromBlock(mp, vHashUpdate))
        /\ UNCHANGED <<chain, utxo, disconnectpool>>
    BY Zenon, <1>7 DEF FinishReorg
  <2>2. PoolOn(mp, utxo, C, {}, vHashUpdate)
    BY Zenon, <1>1, <2>1, EmptyQueue
  <2>3. PoolOn(UpdateTransactionsFromBlock(mp, vHashUpdate), utxo, C, {}, {})
    BY Zenon, <1>0, <2>2, CompleteOn DEF PoolInv
  <2>4. PoolOn(mp', utxo, C, {}, {})
    BY Zenon, <2>1, <2>3, LimitOn
  <2> QED
    BY Zenon, <1>0, <1>1, <2>1, <2>4, EmptyQueue DEF MempoolInv, C
<1>8. CASE UNCHANGED vars
  BY Zenon, <1>8 DEF vars, MempoolInv
<1> QED
  BY Zenon, <1>2, <1>3, <1>4, <1>5, <1>6, <1>7, <1>8 DEF Next

(* It holds always. *)
LEMMA MempoolAlways == Spec => []MempoolInv
BY InitMempool, NextMempool, PTL DEF Spec

(* What CTxMemPool::check asserts holds whenever ActivateBestChain is not  *)
(* at work: inputs are unspent or made in the mempool, no output of it is  *)
(* on the chain, and CalculateDescendants finds every child.               *)
THEOREM PoolStaysConsistent == Spec => []PoolConsistent
<1>1. MempoolInv => PoolConsistent
  <2> SUFFICES ASSUME MempoolInv, phase = "idle"
               PROVE  /\ Inputs(mp.mapTx) \subseteq utxo \cup Outputs(mp.mapTx)
                      /\ Outputs(mp.mapTx) \cap utxo = {}
                      /\ mp.links = {l \in mp.mapTx \X mp.mapTx : Spends(l[2], l[1])}
    BY Zenon DEF PoolConsistent
  <2> DEFINE C == Confirmed(chain)
  <2>1. PoolOn(mp, utxo, C, {}, {}) /\ Settled(utxo, C)
    BY Zenon, EmptyQueue DEF MempoolInv
  <2> HIDE DEF C
  <2>2. mp.mapTx \cup {} = mp.mapTx
    BY Zenon
  <2>3. Outputs(mp.mapTx) \cap Outputs(C) = {} /\ Outputs(mp.mapTx) \cap Funding = {}
    <3>1. mp.mapTx \subseteq MTxs /\ mp.mapTx \cap C = {}
      BY Zenon, <2>1 DEF PoolOn
    <3>2. C \subseteq MTxs
      BY Zenon, <2>1 DEF Settled
    <3> QED
      BY Zenon, <3>1, <3>2, OutputsApart
  <2>4. Outputs(mp.mapTx) \cap utxo = {}
    BY Zenon, <2>1, <2>3 DEF Settled
  <2>5. mp.links = {l \in mp.mapTx \X mp.mapTx : Spends(l[2], l[1])}
    BY Zenon, <2>1 DEF PoolOn, LinksBut
  <2>6. Inputs(mp.mapTx) \subseteq utxo \cup Outputs(mp.mapTx)
    BY Zenon, <2>1, <2>2 DEF PoolOn
  <2> QED
    BY Zenon, <2>4, <2>5, <2>6
<1> QED
  BY <1>1, MempoolAlways, PTL

(* A template as addPackageTxs builds it: a transaction of the mempool     *)
(* comes after its parents, where AssumeCalculateMemPoolAncestors and      *)
(* SortForBlock go by the links, not by the inputs.                        *)
Assembled(blk) ==
    /\ Range(blk) \subseteq mp.mapTx
    /\ \A i \in DOMAIN blk, l \in mp.links :
           l[2] = blk[i] => l[1] \in Range(Before(blk, i))

TemplateInputsValid ==
    phase = "idle" => \A blk \in Blocks : Assembled(blk) => CheckBlockInputs(blk)

(* No template of CreateNewBlock fails TestBlockValidity for its inputs,   *)
(* after any replacements, packages, evictions and reorganisations: each   *)
(* is unspent or made earlier in the block, and spent by no other.  Of the *)
(* asset checks this cannot be said: see TemplateValid.                    *)
THEOREM TemplateInputsAlwaysValid == Spec => []TemplateInputsValid
<1>1. PoolConsistent /\ NoDoubleSpend => TemplateInputsValid
  <2> SUFFICES ASSUME PoolConsistent, NoDoubleSpend, phase = "idle",
                      NEW blk \in Blocks, Assembled(blk), NEW i \in DOMAIN blk,
                      NEW c \in blk[i].vin
               PROVE  /\ c \in utxo \cup Outputs(Range(Before(blk, i)))
                      /\ c \notin Inputs(Range(Before(blk, i)))
    BY Zenon DEF TemplateInputsValid, CheckBlockInputs
  <2>1. /\ blk \in Seq(MTxs) /\ IsInjective(blk) /\ i \in 1..Len(blk)
        /\ Range(Before(blk, i)) = {blk[j] : j \in 1..i - 1}
    BY BlocksType, BeforeRange
  <2>2. \A j \in 1..Len(blk) : blk[j] \in mp.mapTx
    BY <2>1 DEF Assembled, Range
  <2>3. c \in utxo \cup Outputs(Range(Before(blk, i)))
    <3>1. c \in utxo \cup Outputs(mp.mapTx)
      BY Zenon, <2>1, <2>2 DEF PoolConsistent, Inputs
    <3>2. ASSUME NEW q \in mp.mapTx, c \in q.vout PROVE q \in Range(Before(blk, i))
      <4>1. Spends(blk[i], q)
        BY Zenon, <3>2 DEF Spends
      <4>2. <<q, blk[i]>> \in mp.links
        BY Zenon, <2>1, <2>2, <4>1 DEF PoolConsistent
      <4> QED
        BY Zenon, <4>2 DEF Assembled
    <3> QED
      BY Zenon, <3>1, <3>2 DEF Outputs
  <2>4. ASSUME NEW j \in 1..i - 1 PROVE c \notin blk[j].vin
    <3>1. j \in 1..Len(blk) /\ blk[j] # blk[i]
      BY <2>1 DEF IsInjective
    <3> QED
      BY Zenon, <2>1, <2>2, <3>1 DEF NoDoubleSpend
  <2>5. c \notin Inputs(Range(Before(blk, i)))
    BY Zenon, <2>1, <2>4 DEF Inputs
  <2> QED
    BY Zenon, <2>3, <2>5
<1> QED
  BY <1>1, PoolStaysConsistent, NeverDoubleSpends, PTL

(* The coins of a settled chain are coins. *)
LEMMA SettledCoins ==
    ASSUME NEW u, NEW C, Settled(u, C)
    PROVE  u \in SUBSET Coins
<1>1. Outputs(C) \subseteq Coins
  <2>1. \A t \in C : t.vout \subseteq Coins
    BY Zenon, MempoolAssumption DEF Settled, MTx
  <2> QED
    BY Zenon, <2>1, Members
<1> QED
  BY Zenon, <1>1, MempoolAssumption DEF Settled

(* The answers of lookups are typed. *)
LookupTypes == view \in Ledger /\ tags \in SUBSET (Addrs \X Qualifiers)

(* A block changes tags of addresses. *)
LEMMA TagsType ==
    ASSUME NEW tgs \in SUBSET (Addrs \X Qualifiers), NEW blk \in Seq(MTxs)
    PROVE  ApplyTags(tgs, blk) \in SUBSET (Addrs \X Qualifiers)
<1>1. Range(blk) \subseteq MTxs
  BY DEF Range
<1>2. ASSUME NEW tx \in MTxs, tx.asset.op = "tag"
      PROVE  <<tx.asset.addr, tx.asset.name>> \in Addrs \X Qualifiers
  <2>1. tx.asset \in Txs \cup TagTx \cup {NoAsset}
    BY Zenon, MempoolAssumption DEF MTx
  <2>2. tx.asset \in TagTx
    BY <1>2, <2>1, ConstantsAssumption
       DEF AssetTx, IssueTx, ReissueTx, TransferTx, RestrictTx, GlobalTx, NoAsset
  <2> QED
    BY Zenon, <2>2 DEF TagTx
<1> QED
  BY Zenon, <1>1, <1>2 DEF ApplyTags

(* Every step keeps them so. *)
LEMMA NextLookups == LookupTypes /\ [Next]_vars => LookupTypes'
<1> SUFFICES ASSUME LookupTypes, [Next]_vars
             PROVE  LookupTypes'
  BY Zenon
<1>1. ASSUME NEW blk \in Blocks, ConnectTip(blk)
      PROVE  LookupTypes'
  BY Zenon, <1>1, BlocksType, AppliedType, TagsType DEF ConnectTip, LookupTypes
<1>2. CASE UNCHANGED <<view, tags>>
  BY Zenon, <1>2 DEF LookupTypes
<1>3. (\E blk \in Blocks : ConnectTip(blk)) \/ UNCHANGED <<view, tags>>
  BY Zenon DEF Next, vars, AcceptSingleTransaction, AcceptMultipleTransactions, DisconnectTip,
         Resubmit, FinishReorg
<1> QED
  BY Zenon, <1>1, <1>2, <1>3

(* Every variable of the mempool, the chain and the queue of a             *)
(* reorganisation has its type.                                            *)
THEOREM MempoolTypeCorrect == Spec => []TypeOK
<1>1. Init => LookupTypes
  BY DEF Init, LookupTypes, EmptyLedger, Ledger, MetaMap
<1>2. MempoolInv /\ LookupTypes => TypeOK
  BY Zenon, SettledCoins DEF MempoolInv, LookupTypes, TypeOK, Grounded, PoolInv
<1> QED
  BY <1>1, <1>2, NextLookups, MempoolAlways, PTL DEF Spec

=============================================================================
