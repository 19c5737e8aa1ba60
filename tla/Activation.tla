----------------------------- MODULE Activation -----------------------------
(***************************************************************************)
(* Activation and deactivation of features: ActivateFeature and            *)
(* DeactivateFeature in src/omnicore/rules.cpp, the lists of pending and   *)
(* completed activations in src/omnicore/activation.cpp, and how a node    *)
(* builds them anew when it starts (LoadActivations in                     *)
(* src/omnicore/dbtxlist.cpp) or when a block is replaced                  *)
(* (RewindDBsAndState in src/omnicore/omnicore.cpp).                       *)
(*                                                                         *)
(* The blocks at which features go live are fields of the consensus        *)
(* parameters, in memory and in no state file.  A start interprets the     *)
(* recorded activations once more, though no deactivation; a               *)
(* reorganisation keeps what is in memory.  Then the blocks after the      *)
(* state file are processed again.                                         *)
(***************************************************************************)
EXTENDS Integers, TLC, FiniteSets, Sequences, SequencesExt

CONSTANTS Feature,      \* the features of this client
          FirstBlock,   \* the block each is live from, in the client's parameters
          OffBlock,     \* the block DeactivateFeature sets
          Never,        \* std::numeric_limits<int>::max()
          MinNotice,    \* MIN_ACTIVATION_BLOCKS
          MaxNotice,    \* MAX_ACTIVATION_BLOCKS
          Authorized,   \* the senders allowed to activate and to deactivate
          Tx,           \* the transactions that may occur
          MaxBlocks,    \* bound: blocks
          MaxBlockTxs,  \* bound: transactions of a block
          MaxTxs,       \* bound: transactions of the chain
          MaxReplays    \* bound: restarts and reorganisations

VARIABLES node,     \* the node: parameters, activations and recorded transactions
          chain,    \* the transactions of the active chain, by height and index
          block,    \* height of the block that is being processed
          snaps,    \* heights of the state files
          mark,     \* the watermark: the height of the file in use, 0 without one
          unsafe,   \* has the node replayed a chain it cannot replay faithfully
          replays   \* restarts and reorganisations so far

vars == <<node, chain, block, snaps, mark, unsafe, replays>>

ASSUME BlocksAssumption ==
    /\ Never \in Nat /\ MaxBlocks < Never
    /\ MinNotice \in Nat \ {0} /\ MaxNotice \in Nat

\* A node that has seen no block.
Genesis == [params |-> FirstBlock, pending |-> <<>>, completed |-> {}, valid |-> {},
            stopped |-> FALSE]

-----------------------------------------------------------------------------
(***************************************************************************)
(* Features.                                                               *)
(***************************************************************************)

IsFeatureActivated(d, f, b) == f \in Feature /\ b >= d.params[f]

NoticeGiven(at, b) == at >= b + MinNotice /\ at <= b + MaxNotice

\* Variant: only what this client does not know is announced.
ActivateFeature_Silent(d, t) ==
    IF t.feature \in Feature
    THEN [d EXCEPT !.params[t.feature] = t.at]
    ELSE [d EXCEPT !.pending = (t.feature :> [at |-> t.at, outdated |-> t.outdated]) @@ @]

\* A feature this client does not know is only added to the pending activations.
ActivateFeature(d, t) ==
    [d EXCEPT !.params = IF t.feature \in Feature THEN [@ EXCEPT ![t.feature] = t.at] ELSE @,
              !.pending = (t.feature :> [at |-> t.at, outdated |-> t.outdated]) @@ @]

DeactivateFeature(d, t) == [d EXCEPT !.params[t.feature] = OffBlock[t.feature]]

\* Variant: an activation is due in the block after its own.
Due_Late(d, b) == {f \in DOMAIN d.pending : d.pending[f].at < b}

Due(d, b) == {f \in DOMAIN d.pending : d.pending[f].at <= b}

\* The activations that go live with a block; one that asks for a newer client
\* shuts the node down.
CheckLiveActivations(d, b) ==
    [d EXCEPT !.pending = Restrict(@, DOMAIN @ \ Due(d, b)),
              !.completed = @ \cup {<<f, d.pending[f].at>> : f \in Due(d, b)},
              !.stopped = @ \/ \E f \in Due(d, b) : d.pending[f].outdated]

-----------------------------------------------------------------------------
(***************************************************************************)
(* Transactions and blocks.                                                *)
(***************************************************************************)

Accepts(d, t, b) ==
    /\ t.sender \in Authorized[t.type]
    /\ \/ /\ t.type = "Activation"
          /\ NoticeGiven(t.at, b)
          /\ ~IsFeatureActivated(d, t.feature, b)
       \/ /\ t.type = "Deactivation"
          /\ IsFeatureActivated(d, t.feature, b)

Effect(d, t) ==
    CASE t.type = "Activation"   -> ActivateFeature(d, t)
      [] t.type = "Deactivation" -> DeactivateFeature(d, t)

\* mastercore_handler_tx: interpret, and record whether the transaction was valid.
ProcessTx(d, t, pos) ==
    IF Accepts(d, t, pos[1])
    THEN [Effect(d, t) EXCEPT !.valid = @ \cup {pos}]
    ELSE [d EXCEPT !.valid = @ \ {pos}]

Before(x, y) == x[1] < y[1] \/ (x[1] = y[1] /\ x[2] < y[2])

ProcessBlock(d, c, b) ==
    FoldLeft(LAMBDA e, pos : ProcessTx(e, c[pos], pos),
             CheckLiveActivations(d, b),
             SetToSortSeq({pos \in DOMAIN c : pos[1] = b}, Before))

\* Blocks first to last; a shutdown that is requested ends the scan.
msc_initial_scan(d, c, first, last) ==
    FoldLeft(LAMBDA e, b : IF e.stopped THEN e ELSE ProcessBlock(e, c, b),
             d, [i \in 1 .. last - first + 1 |-> first + i - 1])

\* clear_all_state, and a scan of all blocks.
Reparse(c, last) == msc_initial_scan(Genesis, c, 1, last)

-----------------------------------------------------------------------------
(***************************************************************************)
(* Building the state anew.                                                *)
(***************************************************************************)

\* Activations are sorted by height and transaction hash.
LoadedBefore(c, x, y) == x[1] < y[1] \/ (x[1] = y[1] /\ c[x].hash < c[y].hash)

Recorded(d, c, type) == {pos \in d.valid : c[pos].type = type}

\* Variant: the activations of the saved block itself are not loaded.
LoadActivations_Below(d, c, b) ==
    CheckLiveActivations(
        FoldLeft(LAMBDA e, pos : IF Accepts(e, c[pos], pos[1])
                                 THEN ActivateFeature(e, c[pos]) ELSE e,
                 d, SetToSortSeq({pos \in Recorded(d, c, "Activation") : pos[1] < b - 1},
                                 LAMBDA x, y : LoadedBefore(c, x, y))),
        b)

\* Each recorded activation is interpreted again; one that is refused is skipped.
LoadActivations(d, c, b) ==
    CheckLiveActivations(
        FoldLeft(LAMBDA e, pos : IF Accepts(e, c[pos], pos[1])
                                 THEN ActivateFeature(e, c[pos]) ELSE e,
                 d, SetToSortSeq({pos \in Recorded(d, c, "Activation") : pos[1] <= b},
                                 LAMBDA x, y : LoadedBefore(c, x, y))),
        b)

\* mastercore_init with a state file, that of height m: the activations up to the
\* first scanned block are loaded, then the scan starts with that block.
StartNode(d, c, m, last) ==
    IF m = 0
    THEN Reparse(c, last)
    ELSE msc_initial_scan(LoadActivations([Genesis EXCEPT !.valid = d.valid], c, m + 1),
                          c, m + 1, last)

\* The height of the newest usable state file when block n is replaced; 0 if the
\* chain is processed from the start, as it always is with wipe: a freeze is
\* undone, or popBlock leaves no property on the way back from the watermark.
RewindTo(files, m, n, wipe) ==
    LET usable == {h \in files : h <= m /\ h < n}
    IN  IF wipe \/ usable = {} THEN 0 ELSE Max(usable)

\* RewindDBsAndState(n), to height s: the records of the replaced block n are
\* deleted, and what is in memory stays unless the chain is processed from the start.
RewindNode(d, c, s, n) ==
    IF s = 0
    THEN Reparse(c, n - 1)
    ELSE msc_initial_scan([d EXCEPT !.valid = {pos \in @ : pos[1] < n}], c, s + 1, n - 1)

-----------------------------------------------------------------------------
(***************************************************************************)
(* The conditions under which a replay is not faithful.                    *)
(***************************************************************************)

\* A deactivation that is not scanned again is forgotten; activations of one
\* feature in one block may be loaded in another order.
UnsafeStart(d, c, s) ==
    /\ s > 0
    /\ \/ \E pos \in Recorded(d, c, "Deactivation") : pos[1] <= s
       \/ \E x, y \in Recorded(d, c, "Activation") :
             /\ x[1] = y[1] /\ x[1] <= s
             /\ Before(x, y) /\ LoadedBefore(c, y, x)
             /\ c[x].feature = c[y].feature

\* The replaced block has left an activation or deactivation in memory, or a
\* deactivation is among the blocks that are processed again: it is refused then,
\* because the feature is off already.
UnsafeRewind(d, c, s, n) ==
    /\ s > 0
    /\ \/ \E pos \in d.valid : pos[1] = n
       \/ \E pos \in Recorded(d, c, "Deactivation") : pos[1] \in s + 1 .. n - 1

-----------------------------------------------------------------------------
Init ==
    /\ node = CheckLiveActivations(Genesis, 1)
    /\ chain = <<>>
    /\ block = 1
    /\ snaps = {} /\ mark = 0
    /\ unsafe = FALSE
    /\ replays = 0

InBlock == {pos \in DOMAIN chain : pos[1] = block}

\* A transaction of the current block.  Its hash compares in any way to those of
\* the other transactions in the block; what the first hash is does not matter.
Transact(t, hash) ==
    /\ ~node.stopped
    /\ Cardinality(InBlock) < MaxBlockTxs
    /\ Cardinality(DOMAIN chain) < MaxTxs
    /\ IF InBlock = {} THEN hash = 0 ELSE \A pos \in InBlock : chain[pos].hash # hash
    /\ \E pos \in {<<block, Cardinality(InBlock) + 1>>}, tx \in {t @@ [hash |-> hash]} :
           /\ chain' = (pos :> tx) @@ chain
           /\ node' = ProcessTx(node, tx, pos)
    /\ UNCHANGED <<block, snaps, mark, unsafe, replays>>

\* The state may be saved at the end of the block, and the next block begins.  A
\* forced shutdown deletes the state files.
NextBlock(save) ==
    /\ ~node.stopped
    /\ block < MaxBlocks
    /\ block' = block + 1
    /\ node' = CheckLiveActivations(node, block')
    /\ snaps' = IF node'.stopped THEN {} ELSE IF save THEN snaps \cup {block} ELSE snaps
    /\ mark' = IF node'.stopped THEN 0 ELSE IF save THEN block ELSE mark
    /\ UNCHANGED <<chain, unsafe, replays>>

\* The process starts again after the last complete block, also after a shutdown
\* that it forced itself, and the current block begins again.
Restart ==
    /\ replays < MaxReplays
    /\ replays' = replays + 1
    /\ InBlock = {}
    /\ \E d \in {StartNode(node, chain, mark, block - 1)} :
           /\ node' = IF d.stopped THEN d ELSE CheckLiveActivations(d, block)
           /\ IF node'.stopped THEN snaps' = {} /\ mark' = 0 ELSE UNCHANGED <<snaps, mark>>
    /\ unsafe' = (mark > 0 /\ (unsafe \/ UnsafeStart(node, chain, mark)))
    /\ UNCHANGED <<chain, block>>

\* The last complete block is disconnected and another one begins in its place.
Reorganise(wipe) ==
    /\ ~node.stopped
    /\ replays < MaxReplays
    /\ replays' = replays + 1
    /\ block > 1
    /\ InBlock = {}
    /\ block' = block - 1
    /\ chain' = Restrict(chain, {pos \in DOMAIN chain : pos[1] < block'})
    /\ \E s \in {RewindTo(snaps, mark, block', wipe)} : \E d \in {RewindNode(node, chain, s, block')} :
           /\ node' = IF d.stopped THEN d ELSE CheckLiveActivations(d, block')
           /\ snaps' = IF node'.stopped THEN {} ELSE {h \in snaps : h < block'}
           /\ mark' = IF node'.stopped THEN 0 ELSE s
           /\ unsafe' = (s > 0 /\ (unsafe \/ UnsafeRewind(node, chain, s, block')))

Next ==
    \/ \E t \in Tx, hash \in 1 - MaxBlockTxs .. MaxBlockTxs - 1 : Transact(t, hash)
    \/ \E save \in BOOLEAN : NextBlock(save)
    \/ Restart
    \/ \E wipe \in BOOLEAN : Reorganise(wipe)

Spec == Init /\ [][Next]_vars

-----------------------------------------------------------------------------
(***************************************************************************)
(* Properties.                                                             *)
(***************************************************************************)

Heights == 0 .. MaxBlocks + MaxNotice

\* Types: only transactions of the active chain are recorded as valid, and an
\* activation is pending only until its block begins.
TypeOK ==
    /\ node.params \in [Feature -> Heights \cup {Never}]
    /\ \A f \in DOMAIN node.pending :
          /\ node.pending[f] \in [at : Heights, outdated : BOOLEAN]
          /\ node.pending[f].at > block \/ node.stopped
    /\ \A e \in node.completed : e[2] \in Heights
    /\ node.valid \subseteq DOMAIN chain
    /\ block \in 1 .. MaxBlocks
    /\ snaps \subseteq 1 .. block - 1 /\ mark \in snaps \cup {0}

\* A node that starts again or follows a reorganisation has the features live that
\* a node has which processed the active chain once, and judged the transactions
\* alike, as long as no replay met one of the conditions named above.
FeaturesFollowChain ==
    \E ideal \in {Reparse(chain, block)} :
        ~unsafe /\ ~node.stopped =>
            /\ ~ideal.stopped
            /\ node.params = ideal.params
            /\ node.valid = ideal.valid

\* Whatever was replayed, a feature that this client is not built to have live at
\* this height is live only after an activation that was announced, which
\* omni_getactivations reports as completed.  Features that are deactivated by
\* setting a block that will come are excepted: they return without one.
LiveOnlyAnnounced ==
    ~node.stopped => \A f \in Feature : OffBlock[f] = Never /\ IsFeatureActivated(node, f, block) =>
        FirstBlock[f] <= block \/ <<f, node.params[f]>> \in node.completed

\* A client that is too old for a feature never follows the chain past the block
\* at which it goes live, also not when it is started again.
OutdatedStops ==
    ~unsafe /\ ~node.stopped =>
        \A pos \in Recorded(node, chain, "Activation") :
            chain[pos].outdated /\ chain[pos].at <= block =>
                \E later \in Recorded(node, chain, "Activation") :
                    /\ Before(pos, later) /\ later[1] <= chain[pos].at
                    /\ chain[later].feature = chain[pos].feature

\* An emergency deactivation lasts until the feature is activated again.
DeactivationLasts ==
    \A pos \in Recorded(node, chain, "Deactivation") :
        IsFeatureActivated(node, chain[pos].feature, block) =>
            \E later \in Recorded(node, chain, "Activation") :
                Before(pos, later) /\ chain[later].feature = chain[pos].feature
=============================================================================
