--------------------------- MODULE StateSnapshots ---------------------------
(***************************************************************************)
(* How the state follows the active chain through reorganisations, crashes *)
(* and restarts: the block handlers, RewindDBsAndState and mastercore_init *)
(* of src/omnicore/omnicore.cpp, and src/omnicore/persistence.cpp.         *)
(*                                                                         *)
(* A block is the path that leads to it: the labels of the blocks from the *)
(* first one on.  What the process still has to do before it waits for the *)
(* next block is todo, a sequence of tasks, and a step takes the first of  *)
(* them.  The process, not the machine, may die: between two tasks         *)
(* (Crash), and inside those whose writes matter one by one (CrashInBlock, *)
(* CrashInFiles, DeathInPrune).  Two pairs of writes are never taken       *)
(* apart, because a restart repeats the first without effect if the second *)
(* is lost: popBlock and the watermark after it, and the databases that    *)
(* clear_all_state empties, the one with the watermark first.              *)
(***************************************************************************)
EXTENDS Sequences, SequencesExt, Integers, FiniteSets

CONSTANTS Label,        \* what distinguishes the children of a block
          SpLabel,      \* labels of blocks that create a property
          FreezeLabel,  \* labels of blocks with a freeze transaction
          Spacing,      \* SNAPSHOT_SPACING_BLOCKS
          ReorgDepth,   \* MAX_REORG_DEPTH
          FaultSets,    \* the sets of faults that may happen in one behaviour
          MaxHeight,    \* bound on the height of the chain without faults
          FaultyHeight, \* the same bound with faults
          MaxConnects,  \* bound on the blocks connected in a behaviour with faults
          MaxCrashes    \* bound on the crashes of a behaviour

\* The process dies at any time, or also in the middle of RewindDBsAndState; a shutdown is
\* requested while blocks are disconnected, or during a scan.
AllFaults == {"crash", "crash in rewind", "stop in reorganisation", "stop in scan"}

ASSUME SnapshotAssumption ==
    /\ SpLabel \subseteq Label /\ FreezeLabel \subseteq Label
    /\ Spacing \in Nat \ {0} /\ ReorgDepth \in Nat
    /\ FaultSets \subseteq SUBSET AllFaults
    /\ {MaxHeight, FaultyHeight, MaxConnects, MaxCrashes} \subseteq Nat

VARIABLES chain,      \* ChainActive(): the path of the tip
          disk,       \* the chain state on disk
          index,      \* the blocks GetBlockIndex knows, if the process may die
          diskIndex,  \* the block index on disk
          mem,        \* what is in memory, as the labels of the blocks it comes from
          db,         \* blocks in the databases that are rolled back by height: fees,
                      \* non-fungible tokens, trades, receivers of Send To Owners
          list,       \* blocks with freeze transactions in the transaction list
          sp,         \* the property database: entries [id, block]
          snaps,      \* state files: block -> [full, mem]
          mark,       \* the watermark of the property database
          last,       \* lastProcessedBlock
          recovery,   \* reorgRecoveryMaxHeight, 0 outside reorgRecoveryMode
          faults,     \* the faults of this behaviour
          crashes,    \* the crashes so far
          connects,   \* the blocks connected so far, with faults
          phase,      \* "up", "stopping" (shutdown requested), "ending" or "down"
          todo        \* the tasks of the process, the next one first

node == <<chain, disk, index, diskIndex>>
store == <<db, list, sp, snaps, mark>>
control == <<last, recovery, phase>>
fault == <<faults, crashes, connects>>
vars == <<node, mem, store, control, fault, todo>>

NoMark == <<"none">>

\* The block of the chain at height h.
At(path, h) == SubSeq(path, 1, h)

Height(block) == Len(block)

InChain(block) == IsPrefix(block, chain)

HeightBound == IF faults = {} THEN MaxHeight ELSE FaultyHeight

\* GetBlockIndex answers: only a process that died may have files of a block it does not know.
Known(block) == "crash" \in faults => block \in index

Doing(task) == phase # "down" /\ todo # <<>> /\ Head(todo)[1] = task

Arg == Head(todo)[2]

\* The task is done; what it calls comes before the rest.
Then(tasks) == todo' = tasks \o Tail(todo)

-----------------------------------------------------------------------------
(* Snapshots.                                                              *)

\* -1 without a snapshot; a snapshot of any known block counts, of whatever branch.
GetLastStateSnapshotHeight ==
    LET heights == {Height(b) : b \in {c \in DOMAIN snaps : Known(c)}}
    IN  IF heights = {} THEN -1 ELSE CHOOSE h \in heights : \A i \in heights : i <= h

\* The tasks of a snapshot, none if the last one is too recent.
MaybeCreateStateSnapshot(block) ==
    IF \/ GetLastStateSnapshotHeight < 0
       \/ Height(block) - GetLastStateSnapshotHeight >= Spacing
    THEN <<<<"persist", block>>>> ELSE <<>>

Incomplete == [full |-> FALSE, mem |-> <<>>]

write_state_files(block, file) ==
    [b \in DOMAIN snaps \cup {block} |-> IF b = block THEN file ELSE snaps[b]]

\* The blocks whose files prune_state_files removes, with block as the newest one.
Removable(block) ==
    {b \in DOMAIN snaps : Known(b) /\ (~InChain(b) \/ Height(block) - Height(b) > ReorgDepth)}

\* What is left of the files when those of gone are removed, and of torn some: the blocks come
\* in the order of their hashes, which is any order, and the files of a block go one by one.
prune_state_files(files, gone, torn) ==
    [b \in DOMAIN files \ gone |-> IF b = torn THEN Incomplete ELSE files[b]]

\* The six files, the pruning, the watermark.
PersistInMemoryState ==
    /\ Doing("persist") /\ \A b \in DOMAIN snaps : Known(b)
    /\ snaps' = prune_state_files(write_state_files(Arg, [full |-> TRUE, mem |-> mem]),
                                 Removable(Arg), NoMark)
    /\ mark' = Arg
    /\ Then(<<>>)
    /\ UNCHANGED <<node, mem, db, list, sp, control, fault>>

-----------------------------------------------------------------------------
(* Blocks.                                                                 *)

\* What the transactions of a block write to disk.
Writes(block) ==
    {"db"} \cup (IF Last(block) \in SpLabel THEN {"sp"} ELSE {})
           \cup (IF Last(block) \in FreezeLabel THEN {"list"} ELSE {})

\* The identifier of the next property is in memory, and in the state files.
NextId == Len(SelectSeq(mem, LAMBDA label : label \in SpLabel)) + 1

\* putSP replaces what another block left under the same identifier.
putSP(block) == {e \in sp : e.id # NextId} \cup {[id |-> NextId, block |-> block]}

\* The transactions of a block that do these writes.
mastercore_handler_tx(block, writes) ==
    /\ db' = IF "db" \in writes THEN db \cup {block} ELSE db
    /\ sp' = IF "sp" \in writes THEN putSP(block) ELSE sp
    /\ list' = IF "list" \in writes THEN list \cup {block} ELSE list

\* A block from its first transaction to mastercore_handler_block_end, which may find a
\* snapshot due.
ProcessBlock ==
    /\ Doing("block")
    /\ mastercore_handler_tx(Arg, Writes(Arg))
    /\ mem' = Append(mem, Last(Arg)) /\ last' = Height(Arg)
    /\ Then(MaybeCreateStateSnapshot(Arg))
    /\ UNCHANGED <<node, snaps, mark, recovery, phase, fault>>

\* The block of the given height and the rest of the chain, or, on a shutdown request,
\* nothing more.
msc_initial_scan ==
    /\ Doing("scan")
    /\ \E stop \in (IF "stop in scan" \in faults THEN BOOLEAN ELSE {FALSE}) :
          /\ Then(IF stop \/ Arg > Len(chain) THEN <<>>
                  ELSE <<<<"block", At(chain, Arg)>>, <<"scan", Arg + 1>>>>)
          /\ phase' = IF stop /\ phase = "up" THEN "stopping" ELSE phase
    /\ UNCHANGED <<node, mem, store, last, recovery, fault>>

\* The databases are cleared and the tally map is not.
clear_all_state_Databases ==
    /\ Doing("clear")
    /\ db' = {} /\ list' = {} /\ sp' = {} /\ mark' = NoMark
    /\ Then(<<<<"scan", 1>>>>)
    /\ UNCHANGED <<node, mem, snaps, control, fault>>

\* Followed by a scan of the whole chain.
clear_all_state ==
    /\ Doing("clear")
    /\ mem' = <<>> /\ db' = {} /\ list' = {} /\ sp' = {} /\ mark' = NoMark
    /\ Then(<<<<"scan", 1>>>>)
    /\ UNCHANGED <<node, snaps, control, fault>>

-----------------------------------------------------------------------------
(* The most relevant state.                                                *)

\* The properties of a block are removed.
popBlock(block) == {e \in sp : e.block # block}

\* The block the state was loaded for is rolled back too.
AfterLoad_RollBackBest(initial, n) ==
    (IF initial /\ n < Len(chain) THEN <<<<"roll", n>>>> ELSE <<>>) \o <<<<"scan", n + 1>>>>

\* What follows when the state of height n is loaded; at a start RewindDBsAndState is called
\* for the blocks above it, and loads the same state again.
AfterLoad(initial, n) ==
    (IF initial /\ n < Len(chain) THEN <<<<"roll", n + 1>>>> ELSE <<>>) \o <<<<"scan", n + 1>>>>

\* No state is found.
LoadFails == Then(<<<<"clear">>>>) /\ UNCHANGED <<mem, sp, mark>>

\* The block of the watermark is unknown: one of the highest known blocks with files takes
\* its place.
FindWatermark ==
    LET found == {b \in DOMAIN snaps : Known(b)}
    IN  \/ found = {} /\ LoadFails
        \/ \E b \in found : /\ \A c \in found : Height(c) <= Height(b)
                            /\ mark' = b /\ UNCHANGED <<mem, sp, todo>>

\* The blocks whose files turned out to be incomplete so far.
Erased == Head(todo)[3]


\* The block of the watermark is popped and its parent becomes the watermark.
PopWatermark(erased) ==
    /\ sp' = popBlock(mark) /\ mark' = Front(mark)
    /\ Then(<<<<"load", Arg, erased>>>>) /\ UNCHANGED mem

\* The watermark is in the chain: its state is loaded, or it is popped too, unless there are
\* no more files for the chain or popBlock leaves no property.
LoadOrPop ==
    LET persisted == {b \in DOMAIN snaps \ Erased : Known(b) /\ InChain(b)}
        valid     == mark \in persisted /\ snaps[mark].full
    IN  \/ (persisted = {} \/ mark = <<>>) /\ LoadFails
        \/ /\ mark # <<>> /\ valid
           /\ mem' = snaps[mark].mem /\ Then(AfterLoad(Arg, Height(mark))) /\ UNCHANGED <<sp, mark>>
        \/ /\ persisted # {} /\ mark # <<>> /\ ~valid
           /\ \/ popBlock(mark) # {} /\ PopWatermark(Erased \cup ({mark} \cap persisted))
              \/ /\ popBlock(mark) = {}
                 /\ sp' = {} /\ Then(<<<<"clear">>>>) /\ UNCHANGED <<mem, mark>>

\* One round of its loops.
LoadMostRelevantInMemoryState ==
    /\ Doing("load")
    /\ \/ mark = NoMark /\ LoadFails
       \/ mark # NoMark /\ ~Known(mark) /\ FindWatermark
       \/ mark # NoMark /\ Known(mark) /\ ~InChain(mark) /\ PopWatermark({})
       \/ mark # NoMark /\ Known(mark) /\ InChain(mark) /\ LoadOrPop
    /\ UNCHANGED <<node, db, list, snaps, control, fault>>

-----------------------------------------------------------------------------
(* Reorganisations and restarts.                                           *)

ContainsFreeze(h) == \E b \in list : Height(b) >= h

\* The transaction list up to the highest block that was disconnected is rolled back, then the
\* other databases; the state is loaded, or after freeze transactions built anew.
RewindDBsAndState ==
    /\ Doing("rewind")
    /\ list' = {b \in list : Height(b) < Arg \/ Height(b) > recovery}
    /\ recovery' = 0
    /\ Then(<<<<"roll", Arg>>, IF ContainsFreeze(Arg) THEN <<"clear">> ELSE <<"load", FALSE, {}>>>>)
    /\ UNCHANGED <<node, mem, db, sp, snaps, mark, last, phase, fault>>

\* The databases without the entries of a height and above.
RollBack ==
    /\ Doing("roll") /\ db' = {b \in db : Height(b) < Arg} /\ Then(<<>>)
    /\ UNCHANGED <<node, mem, list, sp, snaps, mark, control, fault>>

\* mastercore_init.  clean: the state files and all databases are deleted, the option
\* -startclean; download: the initial block download is not finished.
mastercore_init(clean, download) ==
    /\ phase = "down" /\ phase' = "up" /\ (chain = <<>> => download)
    /\ IF clean THEN db' = {} /\ list' = {} /\ sp' = {} /\ snaps' = <<>> /\ mark' = NoMark
       ELSE UNCHANGED store
    /\ todo' = <<<<"load", TRUE, {}>>>> \o (IF download THEN <<>> ELSE <<<<"snapshot">>>>)
    /\ UNCHANGED <<node, mem, last, recovery, fault>>

\* The end of mastercore_init after the initial block download.
SnapshotAtStart ==
    /\ Doing("snapshot") /\ Then(MaybeCreateStateSnapshot(chain))
    /\ UNCHANGED <<node, mem, store, control, fault>>

Idle == phase = "up" /\ todo = <<>>

MayConnect == faults # {} => connects < MaxConnects

\* What is on disk is read again only if the process can still die.
MayDie == "crash" \in faults /\ (crashes < MaxCrashes \/ \E b \in DOMAIN snaps : ~Known(b))

\* ConnectTip up to mastercore_handler_block_begin; before it the chain state may be written,
\* with the new block.
ConnectTip(label, flush) ==
    /\ Idle /\ Len(chain) < HeightBound
    /\ flush => MayDie
    /\ \E path \in {Append(chain, label)} :
          /\ index' = IF "crash" \in faults THEN index \cup {path} ELSE index
          /\ IF flush THEN disk' = path /\ diskIndex' = index' ELSE UNCHANGED <<disk, diskIndex>>
          /\ todo' = (IF recovery > 0 THEN <<<<"rewind", Len(path)>>>> ELSE <<>>)
                     \o <<<<"tip", path>>>>
    /\ MayConnect /\ connects' = IF faults = {} THEN 0 ELSE connects + 1
    /\ UNCHANGED <<chain, mem, store, control, faults, crashes>>

\* The new block becomes the tip and its transactions are handed over.
SetTip ==
    /\ Doing("tip") /\ chain' = Arg /\ Then(<<<<"block", Arg>>>>)
    /\ UNCHANGED <<disk, index, diskIndex, mem, store, control, fault>>

\* DisconnectTip, with mastercore_handler_disc_begin.
Disconnect ==
    /\ Idle /\ chain # <<>> /\ MayConnect /\ chain' = Front(chain)
    /\ recovery' = IF Len(chain) > recovery THEN Len(chain) ELSE recovery
    /\ UNCHANGED <<disk, index, diskIndex, mem, store, last, phase, fault, todo>>

\* FlushStateToDisk writes the block index, and from time to time the chain state too; it
\* matters only to a process that may die.
Flush(all) ==
    /\ Idle /\ MayDie
    /\ diskIndex' = index /\ disk' = IF all THEN chain ELSE disk
    /\ UNCHANGED <<chain, index, mem, store, control, fault, todo>>

\* The chain state is flushed, then mastercore_shutdown stores the state.
Shutdown ==
    /\ phase \in {"up", "stopping"} /\ todo = <<>>
    /\ recovery > 0 => "stop in reorganisation" \in faults
    /\ phase' = "ending" /\ disk' = chain /\ diskIndex' = index
    /\ todo' = (IF 0 < last /\ last <= Len(chain) THEN <<<<"persist", At(chain, last)>>>> ELSE <<>>)
               \o <<<<"exit">>>>
    /\ UNCHANGED <<chain, index, mem, store, last, recovery, fault>>

\* What a process that ends leaves.
Down == phase' = "down" /\ mem' = <<>> /\ last' = 0 /\ recovery' = 0 /\ todo' = <<>>

Exit == Doing("exit") /\ Down /\ UNCHANGED <<node, store, fault>>

\* The process is gone, and the chain is again the one on disk.
Dies == Down /\ chain' = disk /\ index' = diskIndex /\ UNCHANGED <<disk, diskIndex, faults, connects>>

\* RewindDBsAndState has begun to roll the databases back and the watermark is not yet in the
\* chain.
Rewinding == \E i \in DOMAIN todo : todo[i][1] = "clear" \/ (todo[i][1] = "load" /\ ~todo[i][2])

\* The process dies between two tasks.
Crash ==
    /\ phase # "down" /\ "crash" \in faults /\ (Rewinding => "crash in rewind" \in faults)
    /\ crashes < MaxCrashes /\ crashes' = crashes + 1
    /\ Dies /\ UNCHANGED store

\* It dies in the middle of a block, with any of its writes done.
CrashInBlock ==
    /\ Doing("block") /\ "crash" \in faults
    /\ crashes < MaxCrashes /\ crashes' = crashes + 1
    /\ \E writes \in SUBSET Writes(Arg) : mastercore_handler_tx(Arg, writes)
    /\ Dies /\ UNCHANGED <<snaps, mark>>

\* It dies before the last of the six files is complete.
CrashInFiles ==
    /\ Doing("persist") /\ "crash" \in faults
    /\ crashes < MaxCrashes /\ crashes' = crashes + 1
    /\ snaps' = write_state_files(Arg, Incomplete)
    /\ Dies /\ UNCHANGED <<db, list, sp, mark>>

\* It dies while files are removed, or before the watermark is set; if there are files of a
\* block the index does not know, it does so for certain: the log message before the test for
\* such a block reads its height through a null pointer.
DeathInPrune ==
    /\ Doing("persist")
    /\ \/ "crash" \in faults /\ crashes < MaxCrashes /\ crashes' = crashes + 1
       \/ (\E b \in DOMAIN snaps : ~Known(b)) /\ UNCHANGED crashes
    /\ \E gone \in SUBSET Removable(Arg) : \E torn \in (Removable(Arg) \ gone) \cup {NoMark} :
          snaps' = prune_state_files(write_state_files(Arg, [full |-> TRUE, mem |-> mem]), gone, torn)
    /\ Dies /\ UNCHANGED <<db, list, sp, mark>>

-----------------------------------------------------------------------------
Init ==
    /\ chain = <<>> /\ disk = <<>>
    /\ index = {<<>>} /\ diskIndex = {<<>>}
    /\ mem = <<>> /\ db = {} /\ list = {} /\ sp = {}
    /\ snaps = <<>> /\ mark = NoMark /\ last = 0
    /\ recovery = 0 /\ phase = "down" /\ todo = <<>>
    /\ faults \in FaultSets /\ crashes = 0 /\ connects = 0

Next ==
    \/ \E clean, download \in BOOLEAN : mastercore_init(clean, download)
    \/ LoadMostRelevantInMemoryState \/ RewindDBsAndState \/ RollBack \/ clear_all_state
    \/ msc_initial_scan
    \/ \E label \in Label, flush \in BOOLEAN : ConnectTip(label, flush)
    \/ SetTip \/ Disconnect
    \/ ProcessBlock \/ PersistInMemoryState \/ SnapshotAtStart
    \/ \E all \in BOOLEAN : Flush(all)
    \/ Shutdown \/ Exit
    \/ Crash \/ CrashInBlock \/ CrashInFiles \/ DeathInPrune

Spec == Init /\ [][Next]_vars

-----------------------------------------------------------------------------
(* Properties.                                                             *)

Paths == UNION {[1 .. n -> Label] : n \in 0 .. HeightBound}

Tasks == {"load", "rewind", "roll", "clear", "scan", "tip", "block", "snapshot", "persist", "exit"}

\* The chains and blocks are paths, the files hold states, and no other task is ever due.
TypeOK ==
    /\ chain \in Paths /\ disk \in Paths
    /\ index \cup diskIndex \subseteq Paths
    /\ "crash" \in faults => chain \in index /\ disk \in diskIndex
    /\ mem \in Seq(Label) /\ db \cup list \subseteq Paths
    /\ \A e \in sp : e.id \in Nat \ {0} /\ e.block \in Paths
    /\ \A b \in DOMAIN snaps : b \in Paths /\ snaps[b].full \in BOOLEAN /\ snaps[b].mem \in Seq(Label)
    /\ mark \in Paths \cup {NoMark} /\ last \in 0 .. HeightBound /\ recovery \in 0 .. HeightBound
    /\ faults \in FaultSets /\ crashes \in 0 .. MaxCrashes /\ connects \in 0 .. MaxConnects
    /\ phase \in {"up", "stopping", "ending", "down"}
    /\ \A i \in DOMAIN todo : todo[i][1] \in Tasks

\* The node has processed the tip of the active chain.
Settled == Idle /\ recovery = 0

ChainBlocks == {At(chain, h) : h \in 1 .. Len(chain)}

\* However blocks were connected and disconnected, and wherever the process died, balances
\* and everything else in memory are those of the active chain, every block applied once.
MemoryFollowsChain == Settled => mem = chain

\* A full set of state files holds the state as of the block it is named after.
SnapshotsHoldTheirBlock == \A b \in DOMAIN snaps : snaps[b].full => snaps[b].mem = b

\* Unless the process died in the middle of a rewind, no block of the active chain is missing
\* from the databases that are rolled back by height or from the transaction list; and if it
\* was never interrupted they hold nothing of a block that has left the chain.
DatabasesCoverChain ==
    LET freezing == {b \in ChainBlocks : Last(b) \in FreezeLabel}
    IN  Settled => /\ "crash in rewind" \notin faults => ChainBlocks \subseteq db /\ freezing \subseteq list
                   /\ faults = {} => db = ChainBlocks /\ list = freezing


\* No block of the active chain is missing from the databases, even if the process died in
\* the middle of a rewind.
DatabasesSurviveRewind == Settled => ChainBlocks \subseteq db

\* No property of a block that is not in the active chain is in the property database.
OnlyPropertiesOfChain == Settled => \A e \in sp : InChain(e.block)

\* A block is not applied to databases that hold it already.
BlocksAppliedOnce == Doing("block") => Arg \notin db

\* A snapshot ends the process only if the process is killed: prune_state_files removes the
\* files of a block that the index does not know, as "orphan block" says.
PruneSurvivesOrphans == [][Doing("persist") /\ crashes' = crashes => phase' = phase]_vars
=============================================================================
