----------------------------- MODULE BaseIndex -----------------------------
(***************************************************************************)
(* An index of the block chain (BaseIndex, with CoinStatsIndex as the      *)
(* index proper) between three threads.  The thread that holds cs_main     *)
(* moves the tip and queues a notification for each block it connects and  *)
(* for each flush.  The sync thread brings the index to the tip, reading   *)
(* blocks from disk, while notifications are ignored.  Once m_synced is    *)
(* set, the thread that runs the queue keeps the index up to date.  The    *)
(* process may end at any step.                                            *)
(*                                                                         *)
(* A block is the sequence of labels from the genesis block to itself, as  *)
(* its hash commits to its ancestors.  None, the empty sequence, is the    *)
(* null pointer: no chain, or an index without a block.                    *)
(***************************************************************************)
EXTENDS Integers, Sequences, FiniteSets

CONSTANTS
    Label,     \* what tells blocks with the same parent apart
    Block,     \* the blocks that exist
    MaxQueue,  \* LimitValidationInterfaceQueue (the code: 10)
    MaxMoves,  \* bound: changes of the tip
    MaxStarts  \* bound: starts of the node after the first

None == <<>>

Parent(b) == SubSeq(b, 1, Len(b) - 1)

ASSUME BlockAssumption ==
    /\ Block \subseteq Seq(Label) \ {None}
    /\ \A b \in Block : Len(b) > 1 => Parent(b) \in Block
    /\ \A a, b \in Block : a[1] = b[1]

ASSUME BoundsAssumption == MaxQueue \in Nat /\ MaxMoves \in Nat /\ MaxStarts \in Nat

VARIABLES
    tip,        \* m_chain.Tip()
    flushed,    \* the tip of the coins database
    queue,      \* SerialTaskRunner::m_callbacks_pending
    best,       \* m_best_block_index
    synced,     \* m_synced
    sync,       \* the sync thread: where it is, and its pindex
    job,        \* Rewind and ProcessBlock while they run
    current,    \* m_current_block_hash and m_muhash of CoinStatsIndex
    byHeight,   \* its records by height ...
    byHash,     \* ... and by hash
    committed,  \* DB_BEST_BLOCK and DB_MUHASH
    mode,       \* up, stopping or down
    failed,     \* whether a thread ever gave up with FatalErrorf
    moves, starts

node == <<tip, flushed, moves>>
thread == <<best, synced, sync, job>>
index == <<current, byHeight, byHash>>
life == <<mode, failed, starts>>
vars == <<node, queue, thread, index, committed, life>>

-----------------------------------------------------------------------------
Height(b) == Len(b) - 1

Ancestor(b, n) == SubSeq(b, 1, n)

(* b->GetAncestor(a->nHeight) == a *)
Above(b, a) == Len(a) <= Len(b) /\ Ancestor(b, Len(a)) = a

FindFork(a, b) ==
    Ancestor(a, CHOOSE n \in 0..Len(a) :
        /\ n <= Len(b) /\ Ancestor(a, n) = Ancestor(b, n)
        /\ n < Len(a) /\ n < Len(b) => a[n + 1] # b[n + 1])

NextSyncBlock(pindex) ==
    LET fork == FindFork(pindex, tip)
    IN  IF fork = tip THEN None ELSE Ancestor(tip, Len(fork) + 1)

NoJob == [block |-> None, iter |-> None]

Connected(b) == [kind |-> "connected", block |-> b]

Flushed(b) == [kind |-> "flushed", block |-> b]

(* What LookUpOne finds. *)
Found(b) == byHeight[Height(b)] = b \/ b \in byHash

Heights == {Height(b) : b \in Block}

(* A new index: on an empty data directory it is in sync at once. *)
Init ==
    /\ tip \in Block \cup {None} /\ flushed = tip /\ moves = 0
    /\ queue = <<>>
    /\ best = None /\ synced = (tip = None)
    /\ sync = [at |-> IF synced THEN "done" ELSE "next", pindex |-> None]
    /\ job = NoJob
    /\ current = None /\ byHeight = [h \in Heights |-> None] /\ byHash = {}
    /\ committed = [best |-> None, muhash |-> None]
    /\ mode = "up" /\ failed = FALSE /\ starts = 0

Running == mode # "down"

-----------------------------------------------------------------------------
(* Mutant: the branch is announced from the fork on. *)
NotesFromFork(new) ==
    LET fork == FindFork(tip, new)
    IN  [n \in 1..Len(new) - Len(fork) |-> Connected(Ancestor(new, Len(fork) + n - 1))]

(* What the step queues: the blocks from the fork up. *)
Notes(new) ==
    LET fork == FindFork(tip, new)
    IN  [n \in 1..Len(new) - Len(fork) |-> Connected(Ancestor(new, Len(fork) + n))]

(* The coins and the locator of a flush inside of the step. *)
FlushesTo(new) ==
    LET fork == FindFork(tip, new)
    IN  {<<Ancestor(new, n), Ancestor(new, n - 1)>> : n \in Len(fork) + 1..Len(new)} \cup
        {<<Ancestor(tip, n - 1), Ancestor(tip, n)>> : n \in Len(fork) + 1..Len(tip)}

(* The thread that holds cs_main.  A step of ActivateBestChain goes down   *)
(* to the fork and up to another block, or InvalidateBlock goes down.      *)
(* Inside, after a block was connected or disconnected, a full cache may   *)
(* be flushed: the coins are already those after it, the tip is still the  *)
(* one before, and the notification precedes those of the blocks.  The     *)
(* genesis block is activated by itself.                                   *)
ActivateBestChainStep(new) ==
    /\ mode = "up"
    /\ moves < MaxMoves
    /\ new # tip
    /\ tip = None => Height(new) = 0
    /\ Len(queue) <= MaxQueue
    /\ tip' = new
    /\ moves' = moves + 1
    /\ \/ queue' = queue \o Notes(new) /\ UNCHANGED flushed
       \/ \E f \in FlushesTo(new) :
             /\ None \notin {f[1], f[2]}
             /\ flushed' = f[1]
             /\ queue' = Append(queue, Flushed(f[2])) \o Notes(new)
    /\ UNCHANGED <<thread, index, committed, life>>

(* Periodically, and in Shutdown. *)
FlushStateToDisk ==
    /\ Running
    /\ tip # None
    /\ flushed # tip
    /\ flushed' = tip
    /\ queue' = Append(queue, Flushed(tip))
    /\ UNCHANGED <<tip, moves, thread, index, committed, life>>

-----------------------------------------------------------------------------
(* Commit writes the best block and the state of the index in one batch. *)
Commit(b) ==
    committed' = IF b = None THEN committed ELSE [best |-> b, muhash |-> current]

(* The sync thread goes on from its pindex to block b: the blocks from     *)
(* iter down to the parent of block are removed, then block is appended.   *)
NextBlock(b) ==
    /\ job' = [block |-> b, iter |-> sync.pindex]
    /\ sync' = [sync EXCEPT !.at = "work"]

(* At the tip the sync thread commits without cs_main, then looks again    *)
(* with it.                                                                *)
SyncNext ==
    LET n == NextSyncBlock(sync.pindex)
    IN  /\ mode = "up" /\ sync.at = "next"
        /\ \/ /\ n = None
              /\ best' = sync.pindex
              /\ Commit(sync.pindex)
              /\ sync' = [sync EXCEPT !.at = "check"]
              /\ UNCHANGED job
           \/ /\ n # None
              /\ NextBlock(n)
              /\ UNCHANGED <<best, committed>>
        /\ UNCHANGED <<node, queue, synced, index, life>>

(* Mutant: the flag is set without another look at the tip. *)
SyncCheckBlind ==
    /\ Running /\ sync.at = "check"
    /\ synced' = TRUE
    /\ sync' = [sync EXCEPT !.at = "done"]
    /\ UNCHANGED <<node, queue, best, job, index, committed, life>>

(* Mutant: the loop is left in either case. *)
SyncCheckGivesUp ==
    /\ Running /\ sync.at = "check"
    /\ synced' = (NextSyncBlock(sync.pindex) = None)
    /\ sync' = [sync EXCEPT !.at = "done"]
    /\ UNCHANGED <<node, queue, best, job, index, committed, life>>

SyncCheck ==
    LET n == NextSyncBlock(sync.pindex)
    IN  /\ Running /\ sync.at = "check"
        /\ \/ /\ n = None
              /\ synced' = TRUE
              /\ sync' = [sync EXCEPT !.at = "done"]
              /\ UNCHANGED job
           \/ /\ n # None
              /\ NextBlock(n)
              /\ UNCHANGED synced
        /\ UNCHANGED <<node, queue, best, index, committed, life>>

SyncInterrupted ==
    /\ mode = "stopping" /\ sync.at = "next"
    /\ best' = sync.pindex
    /\ Commit(sync.pindex)
    /\ sync' = [sync EXCEPT !.at = "done"]
    /\ UNCHANGED <<node, queue, synced, job, index, life>>

-----------------------------------------------------------------------------
(* Rewind and ProcessBlock, by either thread. *)

Removing == Running /\ job # NoJob /\ job.iter # Parent(job.block)

Appending == Running /\ job # NoJob /\ job.iter = Parent(job.block)

(* RevertBlock needs the record of the parent.  If the height holds one of *)
(* another block it is read by hash, but as a pair of hash and value,      *)
(* whereas CopyHeightIndexToHashIndex stores the value alone: the read     *)
(* fails.                                                                  *)
RevertBlock(b) == Height(b) = 0 \/ byHeight[Height(b) - 1] = Parent(b)

(* Mutant: only the record that the next start reads is kept. *)
CopyCommitted ==
    IF job.iter = committed.best THEN byHash \cup {byHeight[Height(job.iter)]} ELSE byHash

(* Mutant: the record is left to be overwritten. *)
NoCopy == byHash

CopyHeightIndexToHashIndex == byHash \cup {byHeight[Height(job.iter)]}

(* One turn of the loop of Rewind; after the last it sets the best block.  *)
(* RevertBlock asserts that the state was that of the block removed: if it *)
(* is not, only Crash is left.                                             *)
CustomRemove ==
    /\ Removing
    /\ RevertBlock(job.iter)
    /\ current = job.iter
    /\ byHash' = CopyHeightIndexToHashIndex
    /\ current' = Parent(job.iter)
    /\ job' = [job EXCEPT !.iter = Parent(@)]
    /\ best' = IF job'.iter = Parent(job.block) THEN job'.iter ELSE best
    /\ UNCHANGED <<node, queue, synced, sync, byHeight, committed, life>>

(* The sync thread goes on, with a commit every now and then. *)
Processed(b) ==
    IF synced
    THEN best' = b /\ UNCHANGED <<sync, committed>>
    ELSE /\ sync' = [at |-> "next", pindex |-> b]
         /\ \/ UNCHANGED <<best, committed>>
            \/ best' = b /\ committed' = [best |-> b, muhash |-> b]

CustomAppend ==
    LET b == job.block
    IN  /\ Appending
        /\ Height(b) > 0 => current = Parent(b)
        /\ current' = b
        /\ byHeight' = [byHeight EXCEPT ![Height(b)] = b]
        /\ job' = NoJob
        /\ Processed(b)
        /\ UNCHANGED <<node, queue, synced, byHash, life>>

(* CustomRemove or CustomAppend refuses the block.  FatalErrorf asks the   *)
(* node to stop; the sync thread ends, and the queue goes on.              *)
Refused ==
    \/ Removing /\ ~RevertBlock(job.iter)
    \/ Appending /\ Height(job.block) > 0 /\ current # Parent(job.block)

Fatal ==
    /\ Refused
    /\ byHash' = IF Removing THEN CopyHeightIndexToHashIndex ELSE byHash
    /\ mode' = "stopping" /\ failed' = TRUE
    /\ job' = NoJob
    /\ sync' = [sync EXCEPT !.at = "done"]
    /\ UNCHANGED <<node, queue, best, synced, current, byHeight, committed, starts>>

-----------------------------------------------------------------------------
(* ProcessQueue runs one callback at a time.  Until the index is in sync   *)
(* they do nothing.                                                        *)
Pop(kind) ==
    /\ Running
    /\ synced => job = NoJob
    /\ queue # <<>> /\ Head(queue).kind = kind
    /\ queue' = Tail(queue)

(* Mutant: the blocks above the fork are not removed. *)
BlockConnectedNoRewind ==
    LET b == Head(queue).block
    IN  /\ Pop("connected")
        /\ IF synced /\ Above(best, Parent(b))
           THEN job' = [block |-> b, iter |-> Parent(b)]
           ELSE UNCHANGED job
        /\ UNCHANGED <<node, best, synced, sync, index, committed, life>>

(* A block that does not connect to an ancestor of the best is skipped,    *)
(* but for the first one, which must be the genesis block.                 *)
BlockConnected ==
    LET b == Head(queue).block
        first == synced /\ best = None
    IN  /\ Pop("connected")
        /\ job' = IF synced /\ Above(best, Parent(b)) THEN [block |-> b, iter |-> best] ELSE job
        /\ IF first /\ Height(b) > 0
           THEN mode' = "stopping" /\ failed' = TRUE
           ELSE UNCHANGED <<mode, failed>>
        /\ UNCHANGED <<node, best, synced, sync, index, committed, starts>>

ChainStateFlushed ==
    /\ Pop("flushed")
    /\ IF synced /\ Above(best, Head(queue).block) THEN Commit(best) ELSE UNCHANGED committed
    /\ UNCHANGED <<node, thread, index, life>>

-----------------------------------------------------------------------------
StopRequest ==
    /\ mode = "up"
    /\ mode' = "stopping"
    /\ UNCHANGED <<node, queue, thread, index, committed, failed, starts>>

(* The process ends, and with it everything in memory. *)
Crash ==
    /\ Running
    /\ starts < MaxStarts
    /\ mode' = "down"
    /\ queue' = <<>> /\ best' = None /\ synced' = FALSE
    /\ sync' = [at |-> "done", pindex |-> None]
    /\ job' = NoJob /\ current' = None
    /\ UNCHANGED <<node, byHeight, byHash, committed, failed, starts>>

(* What CustomInit requires: the best block has a record, and the state is *)
(* that of the record.                                                     *)
CustomInit ==
    committed.best # None => Found(committed.best) /\ committed.muhash = committed.best

Restart ==
    /\ mode = "down"
    /\ CustomInit
    /\ mode' = "up" /\ starts' = starts + 1
    /\ tip' = flushed
    /\ best' = committed.best
    /\ current' = committed.muhash
    /\ synced' = (committed.best = flushed)
    /\ sync' = [at |-> IF synced' THEN "done" ELSE "next", pindex |-> committed.best]
    /\ UNCHANGED <<flushed, moves, queue, job, byHeight, byHash, committed, failed>>

-----------------------------------------------------------------------------
Sync == SyncNext \/ SyncCheck \/ SyncInterrupted

Work == CustomRemove \/ CustomAppend \/ Fatal

ProcessQueue == BlockConnected \/ ChainStateFlushed

Next ==
    \/ (\E new \in Block : ActivateBestChainStep(new)) \/ FlushStateToDisk
    \/ Sync \/ Work \/ ProcessQueue
    \/ StopRequest \/ Crash \/ Restart

Spec == Init /\ [][Next]_vars

(* Each thread goes on while the process runs. *)
FairSpec == Spec /\ WF_vars(Sync \/ Work) /\ WF_vars(ProcessQueue)

-----------------------------------------------------------------------------
(* Every block that a thread, a notification or a record refers to exists. *)
TypeOK ==
    /\ {tip, flushed, best, current} \subseteq Block \cup {None}
    /\ \A n \in 1..Len(queue) : queue[n].block \in Block
    /\ sync.pindex \in Block \cup {None}
    /\ byHash \subseteq Block

(* A crash at any moment leaves an index that CustomInit accepts: the      *)
(* committed state is that of the committed block, whose record is still   *)
(* found although the blocks after it were removed or overwritten.         *)
CommitRecoverable ==
    ~failed /\ committed.best # None =>
        committed.muhash = committed.best /\ Found(committed.best)

(* LookUpStats answers for every block of the chain that was indexed,      *)
(* also for those whose height was written by a branch that a crash undid. *)
ChainIndexed ==
    Running => \A n \in 1..Len(current) : Found(Ancestor(current, n))

(* m_synced says that no block can be missed: the tip is indexed or its    *)
(* notification is still to come, so that after the queue has drained      *)
(* BlockUntilSyncedToCurrentChain is right to answer true.                 *)
NoBlockMissed ==
    Running /\ ~failed /\ synced /\ tip # None =>
        \/ Above(best, tip)
        \/ job.block = tip
        \/ \E n \in 1..Len(queue) : queue[n] = Connected(tip)

(* However the backlog of the queue and the moves of the tip interleave,   *)
(* neither Sync nor BlockConnected stops the node by FatalErrorf because   *)
(* the index cannot be rewound or a block does not follow it.  After a     *)
(* restart this may happen: see RevertBlock.                               *)
NoAbort == starts = 0 => ~failed

(* While the node is up the index reaches the tip, by the sync thread or   *)
(* by the notifications.                                                   *)
CatchesUp == mode = "up" ~> mode # "up" \/ (synced /\ Above(best, tip))

=============================================================================
