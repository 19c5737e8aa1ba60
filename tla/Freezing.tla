------------------------------ MODULE Freezing ------------------------------
(***************************************************************************)
(* Issuers, delegates and freezing of managed properties: the handlers of  *)
(* src/omnicore/tx.cpp, the histories of issuers and delegates in          *)
(* src/omnicore/dbspinfo.cpp, the sets of frozen addresses in              *)
(* src/omnicore/omnicore.cpp, and how a node builds these sets anew when   *)
(* it starts (LoadFreezeState in src/omnicore/dbtxlist.cpp) or when a      *)
(* block is replaced (RewindDBsAndState).                                  *)
(*                                                                         *)
(* Balances come back from a state file that may be several blocks old.    *)
(* The databases of properties and of transactions stay as they are, and   *)
(* already hold what the blocks after the state file did; only if the      *)
(* newest file belongs to a replaced block are the issuers rolled back,    *)
(* block by block, to the file before it.  The sets of frozen addresses    *)
(* are in no file: a start interprets the recorded freeze transactions     *)
(* once more, a reorganisation keeps the sets.  Then the blocks after the  *)
(* state file are processed again.                                         *)
(*                                                                         *)
(* node is the node that restarts; ideal is one that processed the blocks  *)
(* of the active chain once and never stopped.                             *)
(***************************************************************************)
EXTENDS Tally, TLC, FiniteSets, Sequences, SequencesExt

CONSTANTS FirstIssuer,  \* the creator of every property
          Supply,       \* the tokens of each property and address at the start
          Tx,           \* the transactions that may occur
          FirstTxs,     \* the transactions the chain starts with, by position
          Notices,      \* may FEATURE_FREEZENOTICE be active: a subset of BOOLEAN
          WaitPeriod,   \* OMNI_FREEZE_WAIT_PERIOD
          KeyBase,      \* base of the digits of a sort key
          KeyWide,      \* the least height with more digits than the key pads to
          MaxBlocks,    \* bound: blocks, of which the last has no transactions
          MaxBlockTxs,  \* bound: transactions of a block
          MaxTxs,       \* bound: transactions of the chain
          MaxReplays    \* bound: restarts and reorganisations

VARIABLES node,    \* the node: balances, freeze state and databases
          ideal,   \* the node that never stopped
          chain,   \* the transactions of the active chain, by position
          block,   \* height of the block that is being processed
          snaps,   \* the state files: the balances after some blocks, by height
          mark,    \* the watermark: the height of the file in use, 0 without one
          notice,  \* is FEATURE_FREEZENOTICE active
          unsafe,  \* has the node replayed a chain it cannot replay faithfully
          replays  \* restarts and reorganisations so far

vars == <<node, ideal, chain, block, snaps, mark, notice, unsafe, replays>>

NoAddress == 0

FreezeTypes == {"EnableFreezing", "DisableFreezing", "FreezeTokens", "UnfreezeTokens"}

\* A position is a height and an index within the block.
Before(x, y) == x[1] < y[1] \/ (x[1] = y[1] /\ x[2] < y[2])

LastOf(keys) == CHOOSE k \in keys : \A j \in keys : j = k \/ Before(j, k)

\* A node that has seen no block: every property has its creator as issuer.
Genesis ==
    [tally     |-> [k \in TallyKey |-> IF k[3] = "BALANCE" THEN Supply[k[1], k[2]] ELSE 0],
     enabled   |-> {},
     frozen    |-> {},
     issuers   |-> [p \in Property |-> (<<0, 0>> :> FirstIssuer)],
     delegates |-> [p \in Property |-> <<>>],
     delegate  |-> [p \in Property |-> NoAddress],
     updated   |-> [p \in Property |-> 0],
     previous  |-> [p \in Property |-> <<>>],
     valid     |-> {},
     abort     |-> NoAbort]

-----------------------------------------------------------------------------
(***************************************************************************)
(* Issuers and delegates.  historicalIssuers and historicalDelegates are   *)
(* functions on positions; the issuer of a block is the last one at or     *)
(* before the block, whatever its position in it.                          *)
(***************************************************************************)

getIssuer(d, p, b) ==
    d.issuers[p][LastOf({k \in DOMAIN d.issuers[p] : k[1] <= b})]

\* Before the first entry the answer is the delegate of the newest block.
getDelegate(d, p, b) ==
    LET past == {k \in DOMAIN d.delegates[p] : k[1] <= b}
    IN  IF past = {} THEN d.delegate[p] ELSE d.delegates[p][LastOf(past)]

\* May t be sent, with this issuer and this delegate of its property?
MaySend(t, issuer, delegate) ==
    CASE t.type \in {"EnableFreezing", "DisableFreezing", "ChangeIssuer", "AddDelegate"} ->
             t.sender = issuer
      [] t.type \in {"FreezeTokens", "UnfreezeTokens"} ->
             t.sender = IF delegate # NoAddress THEN delegate ELSE issuer
      [] t.type = "RemoveDelegate" -> t.sender \in {issuer, delegate} /\ t.receiver = delegate
      [] t.type = "SendAll" -> TRUE

authorized(d, t, b) == MaySend(t, getIssuer(d, t.property, b), getDelegate(d, t.property, b))

\* The entry of a property is replaced by one of block b; the old one is kept under b, in
\* place of any that an earlier update in the block left there.
updateSP(d, p, b) ==
    [d EXCEPT !.updated[p] = b,
              !.previous[p] = (b :> [issuers |-> d.issuers[p], updated |-> d.updated[p]]) @@ @]

ChangeIssuer(d, t, b, i) ==
    [updateSP(d, t.property, b) EXCEPT !.issuers[t.property] = (<<b, i>> :> t.receiver) @@ @]

SetDelegate(d, t, b, i, who) ==
    [updateSP(d, t.property, b) EXCEPT !.delegates[t.property] = (<<b, i>> :> who) @@ @,
                                       !.delegate[t.property] = who]

\* The entries that block b updated are what they were before its last update.  The delegates
\* are stored apart and stay.
popBlock(d, b) ==
    LET hit(p) == d.updated[p] = b /\ b \in DOMAIN d.previous[p]
    IN  [d EXCEPT !.issuers = [p \in Property |-> IF hit(p) THEN d.previous[p][b].issuers ELSE @[p]],
                  !.updated = [p \in Property |-> IF hit(p) THEN d.previous[p][b].updated ELSE @[p]],
                  !.previous = [p \in Property |-> IF hit(p) THEN Restrict(@[p], DOMAIN @[p] \ {b})
                                                   ELSE @[p]]]

-----------------------------------------------------------------------------
(***************************************************************************)
(* The sets of properties with freezing and of frozen addresses.           *)
(***************************************************************************)

isFreezingEnabled(d, p, b) == \E e \in d.enabled : e[1] = p /\ b >= e[2]

enableFreezing(d, p, live) == [d EXCEPT !.enabled = @ \cup {<<p, live>>}]

\* setFrozenAddresses is ordered by address, then by property.
NextFrozen(d, f) ==
    {g \in d.frozen : Before(f, g) /\ \A h \in d.frozen : Before(f, h) => h = g \/ Before(g, h)}

\* Variant: the addresses stay frozen.
disableFreezing_Keep(d, p, pastEnd) ==
    LET live == CHOOSE e \in d.enabled : e[1] = p /\ \A g \in d.enabled : g[1] = p => g[2] <= e[2]
    IN  [d EXCEPT !.enabled = @ \ {live}]

\* The loop asserts that the entry AFTER the erased one is not frozen, which
\* fails whenever there is one; at the end of the set it reads past the end,
\* and pastEnd says whether the assertion survives that.  Only the newest of
\* several enablings is erased, and the last assertion fails if one is left.
disableFreezing(d, p, pastEnd) ==
    LET live  == CHOOSE e \in d.enabled :
                     e[1] = p /\ \A g \in d.enabled : g[1] = p => g[2] <= e[2]
        freed == {f \in d.frozen : f[2] = p}
        rest  == d.enabled \ {live}
        fails == \/ \E f \in freed : NextFrozen(d, f) # {} \/ ~pastEnd
                 \/ \E e \in rest : e[1] = p
    IN  [d EXCEPT !.enabled = rest,
                  !.frozen = @ \ freed,
                  !.abort = IF fails THEN "disableFreezing" ELSE @]

-----------------------------------------------------------------------------
(***************************************************************************)
(* The handlers.  Accepts has the conditions under which a transaction is  *)
(* valid, Effect what a valid one does.                                    *)
(***************************************************************************)

\* The balances a SendAll moves: all that are positive and not frozen.
SentProperties(d, t) ==
    {p \in Property : <<t.sender, p>> \notin d.frozen /\ d.tally[t.sender, p, "BALANCE"] > 0}

\* Variant: frozen properties are not left out.
SendAll_Frozen(d, t) ==
    FoldSet(LAMBDA p, e : Move(e, e.frozen, t.sender, t.receiver, p, "BALANCE", "BALANCE",
                               e.tally[t.sender, p, "BALANCE"]),
            d, {p \in Property : d.tally[t.sender, p, "BALANCE"] > 0})

SendAll(d, t) ==
    FoldSet(LAMBDA p, e : Move(e, e.frozen, t.sender, t.receiver, p, "BALANCE", "BALANCE",
                               e.tally[t.sender, p, "BALANCE"]),
            d, SentProperties(d, t))

Accepts(d, t, b) ==
    /\ authorized(d, t, b)
    /\ CASE t.type = "EnableFreezing"  -> ~isFreezingEnabled(d, t.property, b)
         [] t.type = "DisableFreezing" -> isFreezingEnabled(d, t.property, b)
         [] t.type = "FreezeTokens"    -> /\ isFreezingEnabled(d, t.property, b)
                                          /\ <<t.receiver, t.property>> \notin d.frozen
         [] t.type = "UnfreezeTokens"  -> /\ isFreezingEnabled(d, t.property, b)
                                          /\ <<t.receiver, t.property>> \in d.frozen
         [] t.type = "SendAll"         -> SentProperties(d, t) # {}
         [] OTHER                      -> TRUE

liveBlock(b) == IF notice THEN b + WaitPeriod ELSE b

Effect(d, t, b, i, pastEnd) ==
    CASE t.type = "EnableFreezing"  -> enableFreezing(d, t.property, liveBlock(b))
      [] t.type = "DisableFreezing" -> disableFreezing(d, t.property, pastEnd)
      [] t.type = "FreezeTokens"    -> [d EXCEPT !.frozen = @ \cup {<<t.receiver, t.property>>}]
      [] t.type = "UnfreezeTokens"  -> [d EXCEPT !.frozen = @ \ {<<t.receiver, t.property>>}]
      [] t.type = "ChangeIssuer"    -> ChangeIssuer(d, t, b, i)
      [] t.type = "AddDelegate"     -> SetDelegate(d, t, b, i, t.receiver)
      [] t.type = "RemoveDelegate"  -> SetDelegate(d, t, b, i, NoAddress)
      [] t.type = "SendAll"         -> SendAll(d, t)

\* A frozen sender is refused before the type of the transaction is looked at;
\* SendAll names no property.
interpretPacketAccepts(d, t, b) ==
    /\ t.type # "SendAll" => <<t.sender, t.property>> \notin d.frozen
    /\ Accepts(d, t, b)

\* mastercore_handler_tx: interpret, and record whether the transaction was valid.
ProcessTx(d, t, pos, pastEnd) ==
    IF d.abort # NoAbort
    THEN d
    ELSE IF interpretPacketAccepts(d, t, pos[1])
         THEN [Effect(d, t, pos[1], pos[2], pastEnd) EXCEPT !.valid = @ \cup {pos}]
         ELSE [d EXCEPT !.valid = @ \ {pos}]

-----------------------------------------------------------------------------
(***************************************************************************)
(* Building the state anew.                                                *)
(***************************************************************************)

\* The order of the keys "%06d%010d" of height and index, as strings: keys of
\* heights with one digit more are longer, and compared digit by digit.
KeyBefore(x, y) ==
    LET shorter(n, w) == \/ n[1] < w[1] \div KeyBase
                         \/ (n[1] = w[1] \div KeyBase /\ w[1] % KeyBase > 0)
                         \/ (n[1] * KeyBase = w[1] /\ n[2] <= w[2] \div KeyBase)
    IN  CASE (x[1] < KeyWide) <=> (y[1] < KeyWide) -> Before(x, y)
          [] x[1] < KeyWide /\ y[1] >= KeyWide     -> shorter(x, y)
          [] x[1] >= KeyWide /\ y[1] < KeyWide     -> ~shorter(y, x)

RecordedFreezes(d, c) == {pos \in d.valid : c[pos].type \in FreezeTypes}

\* Each recorded freeze transaction up to a height is interpreted again with the
\* databases as they are now; the first that is not accepted ends the node.
LoadFreezeState(d, c, height, pastEnd) ==
    FoldLeft(LAMBDA e, pos : IF e.abort # NoAbort THEN e
                             ELSE IF interpretPacketAccepts(e, c[pos], pos[1])
                             THEN Effect(e, c[pos], pos[1], pos[2], pastEnd)
                             ELSE [e EXCEPT !.abort = "LoadFreezeState"],
             d, SetToSortSeq({pos \in RecordedFreezes(d, c) : pos[1] <= height}, KeyBefore))

\* msc_initial_scan: the transactions from a block on, in the order of the chain.
msc_initial_scan(d, c, first, pastEnd) ==
    FoldLeft(LAMBDA e, pos : ProcessTx(e, c[pos], pos, pastEnd),
             d, SetToSortSeq({pos \in DOMAIN c : pos[1] >= first}, Before))

\* clear_all_state, and a scan of the whole chain.
Reparse(c, pastEnd) == msc_initial_scan(Genesis, c, 0, pastEnd)

\* mastercore_init: with a state file, that of height m, the freeze transactions up to the
\* FIRST SCANNED block are loaded, then the scan starts with that block.
StartNode(d, c, files, m, pastEnd) ==
    IF m = 0
    THEN Reparse(c, pastEnd)
    ELSE msc_initial_scan(
             LoadFreezeState([d EXCEPT !.tally = files[m], !.enabled = {}, !.frozen = {}],
                             c, m + 1, pastEnd),
             c, m + 1, pastEnd)

\* Variant: freeze transactions are not looked for.
CheckForFreezeTxs_Never(c, n) == FALSE

\* CheckForFreezeTxs: any recorded freeze transaction, valid or not.
CheckForFreezeTxs(c, n) == \E pos \in DOMAIN c : pos[1] >= n /\ c[pos].type \in FreezeTypes

\* The blocks from the watermark m back to the one after height s.
PoppedBlocks(m, s) == Reverse([i \in 1 .. m - s |-> s + i])

\* popBlock finds no older entry to restore, because the block was popped before.
PopFails(d, m, s) ==
    LET blocks == PoppedBlocks(m, s)
        popped(i) == FoldLeft(popBlock, d, SubSeq(blocks, 1, i - 1))
    IN  \E i \in DOMAIN blocks, p \in Property :
            popped(i).updated[p] = blocks[i] /\ blocks[i] \notin DOMAIN popped(i).previous[p]

\* The height of the newest usable state file when block n is replaced; 0 if the chain is
\* processed from the start, as it always is if a freeze transaction is rolled back.
RewindTo(d, c, files, m, n) ==
    LET usable == {h \in DOMAIN files : h <= m /\ h < n}
    IN  IF CheckForFreezeTxs(c, n) \/ usable = {} \/ PopFails(d, m, Max(usable)) THEN 0
        ELSE Max(usable)

\* The records of block n and above are deleted and the state of height s is loaded.  Block n
\* never returns, so that its height may stand for the block that follows.
LoadState(d, files, m, s, n) ==
    LET e == FoldLeft(popBlock, [d EXCEPT !.valid = {pos \in @ : pos[1] < n}], PoppedBlocks(m, s))
    IN  [e EXCEPT !.tally = files[s],
                  !.updated = [p \in Property |-> IF @[p] = n THEN -1 ELSE @[p]],
                  !.previous = [p \in Property |-> Restrict(@[p], DOMAIN @[p] \ {n})]]

\* RewindDBsAndState(n): what is in memory, the freeze state included, stays unless the chain
\* is processed from the start.
RewindNode(d, c, files, m, n, pastEnd) ==
    LET kept == Restrict(c, {pos \in DOMAIN c : pos[1] < n})
        s    == RewindTo(d, c, files, m, n)
    IN  IF s = 0 THEN Reparse(kept, pastEnd)
        ELSE msc_initial_scan(LoadState(d, files, m, s, n), kept, s + 1, pastEnd)

-----------------------------------------------------------------------------
(***************************************************************************)
(* The conditions under which a replay is not faithful.                    *)
(***************************************************************************)

RightsKeys(d, p) == (DOMAIN d.issuers[p] \cup DOMAIN d.delegates[p]) \ {<<0, 0>>}

\* Was t allowed when it was first processed, with what came before it?
WasAllowed(d, t, pos) ==
    LET p    == t.property
        past == {k \in DOMAIN d.delegates[p] : Before(k, pos)}
    IN  MaySend(t, d.issuers[p][LastOf({k \in DOMAIN d.issuers[p] : Before(k, pos)})],
                IF past = {} THEN NoAddress ELSE d.delegates[p][LastOf(past)])

\* A transaction that is replayed is allowed by rights that were granted after it, or refused
\* because of them: rights of the same block, or a first delegate of a later one.
RightsOutrun(d, c, replayed) ==
    \E pos \in replayed : authorized(d, c[pos], pos[1]) # WasAllowed(d, c[pos], pos)

\* A freeze transaction is among the blocks that are both loaded and scanned.
FreezeLoadedTwice(d, c, s) == \E pos \in RecordedFreezes(d, c) : pos[1] = s + 1

FreezesMisordered(d, c) ==
    \E x, y \in RecordedFreezes(d, c) : Before(x, y) /\ KeyBefore(y, x)

UnsafeStart(d, c, m) ==
    /\ m > 0
    /\ \/ RightsOutrun(d, c, RecordedFreezes(d, c) \cup {pos \in DOMAIN c : pos[1] > m})
       \/ FreezeLoadedTwice(d, c, m)
       \/ FreezesMisordered(d, c)

\* Freeze transactions between the state file and the replaced block are processed again on
\* top of themselves; rights of the replaced block stay.
UnsafeRewind(d, c, files, m, n) ==
    LET s == RewindTo(d, c, files, m, n)
        e == LoadState(d, files, m, s, n)
    IN  /\ s > 0
        /\ \/ RightsOutrun(e, c, {pos \in DOMAIN c : pos[1] \in s + 1 .. n - 1})
           \/ \E pos \in RecordedFreezes(d, c) : pos[1] \in s + 1 .. n - 1
           \/ \E p \in Property : \E k \in RightsKeys(e, p) : k[1] >= n

-----------------------------------------------------------------------------
Init ==
    /\ notice \in Notices
    /\ chain = FirstTxs
    /\ node = Reparse(chain, TRUE)
    /\ ideal = node
    /\ block = 1
    /\ snaps = <<>> /\ mark = 0
    /\ unsafe = FALSE
    /\ replays = 0

InBlock == {pos \in DOMAIN chain : pos[1] = block}

\* A transaction of the current block.
Transact(t) ==
    /\ node.abort = NoAbort
    /\ block < MaxBlocks /\ Cardinality(InBlock) < MaxBlockTxs
    /\ Cardinality(DOMAIN chain) < MaxTxs
    /\ \E pastEnd \in BOOLEAN, pos \in {<<block, Cardinality(InBlock) + 1>>} :
           /\ chain' = (pos :> t) @@ chain
           /\ node' = ProcessTx(node, t, pos, pastEnd)
           /\ ideal' = ProcessTx(ideal, t, pos, pastEnd)
    /\ UNCHANGED <<block, snaps, mark, notice, unsafe, replays>>

\* The end of a block, at which the state may be saved.
EndBlock(save) ==
    /\ node.abort = NoAbort
    /\ block < MaxBlocks
    /\ block' = block + 1
    /\ IF save THEN snaps' = (block :> node.tally) @@ snaps /\ mark' = block
       ELSE UNCHANGED <<snaps, mark>>
    /\ UNCHANGED <<node, ideal, chain, notice, unsafe, replays>>

\* The process stops between two blocks and starts again.
Restart ==
    /\ node.abort = NoAbort
    /\ InBlock = {}
    /\ replays < MaxReplays
    /\ replays' = replays + 1
    /\ \E pastEnd \in BOOLEAN : node' = StartNode(node, chain, snaps, mark, pastEnd)
    /\ unsafe' = (unsafe \/ UnsafeStart(node, chain, mark))
    /\ UNCHANGED <<ideal, chain, block, snaps, mark, notice>>

\* The last block is disconnected and another one takes its place.
Reorganise ==
    /\ node.abort = NoAbort
    /\ replays < MaxReplays
    /\ replays' = replays + 1
    /\ block > 1
    /\ InBlock = {}
    /\ block' = block - 1
    /\ chain' = Restrict(chain, {pos \in DOMAIN chain : pos[1] < block - 1})
    /\ \E pastEnd \in BOOLEAN :
           /\ node' = RewindNode(node, chain, snaps, mark, block - 1, pastEnd)
           /\ ideal' = Reparse(chain', pastEnd)
    /\ snaps' = Restrict(snaps, {h \in DOMAIN snaps : h < block - 1})
    /\ mark' = RewindTo(node, chain, snaps, mark, block - 1)
    /\ unsafe' = (unsafe \/ UnsafeRewind(node, chain, snaps, mark, block - 1))
    /\ UNCHANGED notice

Next ==
    \/ \E t \in Tx : Transact(t)
    \/ \E save \in BOOLEAN : EndBlock(save)
    \/ Restart
    \/ Reorganise

Spec == Init /\ [][Next]_vars

-----------------------------------------------------------------------------
(***************************************************************************)
(* Properties.                                                             *)
(***************************************************************************)

Position == (1 .. MaxBlocks) \X (1 .. MaxBlockTxs)

IsNode(d) ==
    /\ d.tally \in Tallies
    /\ d.enabled \subseteq Property \X (1 .. MaxBlocks + WaitPeriod)
    /\ d.frozen \subseteq Address \X Property
    /\ \A p \in Property :
          /\ RightsKeys(d, p) \subseteq Position
          /\ \A k \in DOMAIN d.issuers[p] : d.issuers[p][k] \in Address
          /\ \A k \in DOMAIN d.delegates[p] : d.delegates[p][k] \in Address \cup {NoAddress}
    /\ \A p \in Property : d.updated[p] \in -1 .. MaxBlocks /\ DOMAIN d.previous[p] \subseteq 1 .. MaxBlocks
    /\ d.valid \subseteq DOMAIN chain

\* Types: only transactions of the active chain are recorded as valid, by the
\* node and by the ideal one (isMPinBlockRange deletes those of replaced blocks).
TypeOK ==
    /\ IsNode(node)
    /\ IsNode(ideal)
    /\ DOMAIN chain \subseteq Position
    /\ block \in 1 .. MaxBlocks
    /\ DOMAIN snaps \subseteq 1 .. block - 1 /\ mark \in DOMAIN snaps \cup {0}
    /\ \A h \in DOMAIN snaps : snaps[h] \in Tallies

\* An address is frozen only while freezing is enabled for the property: what
\* disableFreezing, the load and the rewind leave behind.
FrozenOnlyWhileEnabled ==
    node.abort = NoAbort => \A f \in node.frozen : isFreezingEnabled(node, f[2], block)

\* A node that starts again or follows a reorganisation agrees with one that
\* processed the chain once, on balances, freezing, issuers and delegates, as
\* long as no replay met one of the conditions named above.
ReplaysAreFaithful ==
    ~unsafe /\ node.abort = NoAbort /\ ideal.abort = NoAbort =>
        /\ node.tally = ideal.tally
        /\ node.enabled = ideal.enabled
        /\ node.frozen = ideal.frozen
        /\ \A p \in Property : /\ getIssuer(node, p, block) = getIssuer(ideal, p, block)
                              /\ getDelegate(node, p, block) = getDelegate(ideal, p, block)

\* No assertion about balances fails, also not the one that a frozen balance is
\* never debited, and the node stops only in disableFreezing or in an unsafe load.
StopsAreExplained ==
    /\ node.abort \in {NoAbort, "disableFreezing", "LoadFreezeState"}
    /\ node.abort = "LoadFreezeState" => unsafe

\* A start succeeds in loading the freeze state that was recorded.
StartsSucceed == node.abort # "LoadFreezeState"

\* The assertions in disableFreezing hold.
DisablingAssertsHold == node.abort # "disableFreezing"
=============================================================================
