----------------------------- MODULE NonFungible -----------------------------
(***************************************************************************)
(* Non-fungible tokens: CMPNonFungibleTokensDB (src/omnicore/nftdb.cpp)    *)
(* and the handlers of src/omnicore/tx.cpp that use it.                    *)
(*                                                                         *)
(* The owners and the data of the tokens of one property are kept as       *)
(* ranges, keyed by storage type, first and last token.  Every write first *)
(* keeps the old value of its key in blockData; the end of a block writes  *)
(* these values to the database, under the height of the block, and        *)
(* RollBackAboveBlock restores them.                                       *)
(*                                                                         *)
(* A node that restarts loads the balances saved at some block w of the    *)
(* active chain and rolls the database back to w: blockData, which was in  *)
(* memory only, is lost.  Block w may be any block with saved balances: a  *)
(* reorganisation or a damaged file can make every later one useless.      *)
(***************************************************************************)
EXTENDS Tally, Sequences, FiniteSets, FiniteSetsExt, Functions

CONSTANTS NFT,         \* the non-fungible property, a managed one
          Issuer,      \* its issuer; no delegate is appointed
          Data,        \* texts attached to tokens
          DataInput,   \* <<storage, first, last, data>> of the data transactions
          ByteBase,    \* 256: number of values of a byte
          Feature,     \* possible states of FEATURE_NONFUNGIBLE_ISSUER
          MaxBlocks,   \* bound on the number of blocks
          MaxTxs,      \* bound on the transactions of a block
          CrashInBlock \* whether the node may crash between two transactions of a block

ASSUME NonFungibleAssumption ==
    /\ NFT \in Property /\ Issuer \in Address
    /\ ByteBase \in Nat \ {0, 1} /\ MaxInt < ByteBase * ByteBase
    /\ MaxBlocks \in Nat \ {0} /\ MaxTxs \in Nat /\ CrashInBlock \in BOOLEAN /\ Feature \subseteq BOOLEAN
    /\ Address \cap Data = {}

VARIABLES tally,         \* mp_tally_map
          db,            \* the records with prefix 'A': <<storage, first, last>> -> owner or data
          blockData,     \* the old values of the keys written in this block
          undo,          \* the records with prefix 'H': height -> blockData of that block
          saved,         \* saved[n]: the balances at the end of block n - 1
          past,          \* history: the records 'A' at the end of these blocks
          txs,           \* the number of transactions in this block
          issuerFeature, \* whether FEATURE_NONFUNGIBLE_ISSUER is active
          abort          \* the assertion or check that stopped the node

vars == <<tally, db, blockData, undo, saved, past, txs, issuerFeature, abort>>

\* The height of the block that is processed.
height == Len(saved)

Token == 1 .. MaxInt

DataStorage == {"GrantData", "IssuerData", "HolderData"}

Key == ({"RangeIndex"} \cup DataStorage) \X Token \X Token

DELETE_KEY == "DELETE_KEY"

-----------------------------------------------------------------------------
(* The database.  Numbers are stored with the low byte first, and the      *)
(* iterators see the keys in the order of their bytes.                     *)

Byte(n, i) == (n \div ByteBase^i) % ByteBase

NumberBefore(m, n) ==
    \/ Byte(m, 0) < Byte(n, 0)
    \/ Byte(m, 0) = Byte(n, 0) /\ Byte(m, 1) < Byte(n, 1)

KeyBefore(k, l) == NumberBefore(k[2], l[2]) \/ (k[2] = l[2] /\ NumberBefore(k[3], l[3]))

FirstKey(keys) == CHOOSE k \in keys : \A l \in keys \ {k} : KeyBefore(k, l)

\* The ranges of a storage type that hold all of first .. last.
RangesWith(f, storage, first, last) ==
    {k \in DOMAIN f : k[1] = storage /\ k[2] <= first /\ last <= k[3]}

NoRange == <<"none", 0, 0>>

GetRange(f, storage, t) ==
    IF RangesWith(f, storage, t, t) = {} THEN NoRange ELSE FirstKey(RangesWith(f, storage, t, t))

NoValue == "empty"

ValueIn(f, keys) == IF keys = {} THEN NoValue ELSE f[FirstKey(keys)]

GetNonFungibleTokenValue(f, storage, t) == ValueIn(f, RangesWith(f, storage, t, t))

GetNonFungibleTokenValueInRange(f, first, last) ==
    ValueIn(f, RangesWith(f, "RangeIndex", first, last))

GetHighestRangeEnd(f) ==
    LET ends == {k[3] : k \in {l \in DOMAIN f : l[1] = "RangeIndex"}}
    IN  IF ends = {} THEN 0 ELSE CHOOSE n \in ends : \A m \in ends : m <= n

Put(f, k, v) == [l \in DOMAIN f \cup {k} |-> IF l = k THEN v ELSE f[l]]

Present(f, k) == IF k \in DOMAIN f THEN f[k] ELSE DELETE_KEY

\* Variant: the last old value of a key is kept, not the first.
StoreBlockCache_Last(d, keys) ==
    [d EXCEPT !.blockData = [k \in DOMAIN @ \cup keys |->
                                IF k \in keys THEN Present(d.db, k) ELSE @[k]]]

\* The old values of keys that are written for the first time in the block.
StoreBlockCache(d, keys) ==
    [d EXCEPT !.blockData = [k \in DOMAIN @ \cup keys |->
                                IF k \in DOMAIN @ THEN @[k] ELSE Present(d.db, k)]]

\* DeleteRange, for a set of ranges.
DeleteRanges(d, keys) == [StoreBlockCache(d, keys) EXCEPT !.db = Restrict(@, DOMAIN @ \ keys)]

DeleteRange(d, k) == DeleteRanges(d, {k})

AddRange(d, k, v) == [StoreBlockCache(d, {k}) EXCEPT !.db = Put(@, k, v)]

-----------------------------------------------------------------------------
(* Ranges of owners.                                                       *)

\* Variant: what is left above the tokens that are sent is forgotten.
Split_DropAbove(d, k, first, last, from) ==
    IF k[2] < first THEN AddRange(DeleteRange(d, k), <<k[1], k[2], first - 1>>, from)
    ELSE DeleteRange(d, k)

\* What is left of the sender's range k when first .. last leaves it.
Split(d, k, first, last, from) ==
    LET gone  == DeleteRange(d, k)
        below == IF k[2] < first THEN AddRange(gone, <<k[1], k[2], first - 1>>, from) ELSE gone
    IN  IF k[3] > last THEN AddRange(below, <<k[1], last + 1, k[3]>>, from) ELSE below

Neighbour(d, joins, t) == IF joins THEN GetRange(d.db, "RangeIndex", t) ELSE NoRange

DropRange(d, k) == IF k = NoRange THEN d ELSE DeleteRange(d, k)

\* The new range of the receiver, merged with the neighbours below and above.
Merge(d, first, last, to, below, above) ==
    AddRange(DropRange(DropRange(d, below), above),
             <<"RangeIndex", IF below = NoRange THEN first ELSE below[2],
                             IF above = NoRange THEN last ELSE above[3]>>, to)

Receive(d, first, last, to, joinsBelow, joinsAbove) ==
    Merge(d, first, last, to, Neighbour(d, joinsBelow, first - 1), Neighbour(d, joinsAbove, last + 1))

\* Variant: the receiver's neighbours are read before the sender's range is split.
MoveNonFungibleTokens_StaleNeighbours(d, first, last, from, to) ==
    Merge(Split(d, GetRange(d.db, "RangeIndex", first), first, last, from), first, last, to,
          Neighbour(d, GetNonFungibleTokenValue(d.db, "RangeIndex", first - 1) = to, first - 1),
          Neighbour(d, GetNonFungibleTokenValue(d.db, "RangeIndex", last + 1) = to, last + 1))

\* Variant: the receiver's range above is not looked for.
MoveNonFungibleTokens_NoJoinAbove(d, first, last, from, to) ==
    Receive(Split(d, GetRange(d.db, "RangeIndex", first), first, last, from), first, last, to,
            GetNonFungibleTokenValue(d.db, "RangeIndex", first - 1) = to, FALSE)

MoveNonFungibleTokens(d, first, last, from, to) ==
    IF d.abort # NoAbort THEN d
    ELSE IF GetNonFungibleTokenValueInRange(d.db, first, last) # from
         THEN [d EXCEPT !.abort = "MoveNonFungibleTokens"]
         ELSE Receive(Split(d, GetRange(d.db, "RangeIndex", first), first, last, from),
                      first, last, to,
                      GetNonFungibleTokenValue(d.db, "RangeIndex", first - 1) = to,
                      GetNonFungibleTokenValue(d.db, "RangeIndex", last + 1) = to)

\* The tokens highest + 1 .. newEnd, in one range with the owner's tokens below them.
CreateAbove(d, highest, newEnd, owner, info) ==
    Receive(AddRange(d, <<"GrantData", highest + 1, newEnd>>, info), highest + 1, newEnd, owner,
            GetNonFungibleTokenValue(d.db, "RangeIndex", highest) = owner, FALSE)

CreateNonFungibleTokens(d, amount, owner, info) ==
    LET highest == GetHighestRangeEnd(d.db)
    IN  IF d.abort # NoAbort THEN d
        ELSE CreateAbove(d, highest, IF highest > MaxInt - amount THEN MaxInt ELSE highest + amount,
                         owner, info)

-----------------------------------------------------------------------------
(* Data of tokens.                                                         *)

\* The ranges met on the way from first to last; the way ends at a token without data.
DataRanges(f, storage, first, last) ==
    LET Met[t \in 1 .. MaxInt + 1] ==
            IF t > last \/ GetRange(f, storage, t) = NoRange THEN {}
            ELSE {GetRange(f, storage, t)} \cup Met[GetRange(f, storage, t)[3] + 1]
    IN  Met[first]

\* The order of a std::set of pairs.
Lowest(ranges) ==
    CHOOSE k \in ranges : \A l \in ranges : k[2] < l[2] \/ (k[2] = l[2] /\ k[3] <= l[3])

Topmost(ranges) ==
    CHOOSE k \in ranges : \A l \in ranges : k[2] > l[2] \/ (k[2] = l[2] /\ k[3] >= l[3])


\* The ends of the ranges that stick out of first .. last keep their data.
KeepEnds(d, low, top, first, last, beforeData, afterData) ==
    LET below == IF low[2] < first THEN AddRange(d, <<low[1], low[2], first - 1>>, beforeData) ELSE d
    IN  IF top[3] > last THEN AddRange(below, <<top[1], last + 1, top[3]>>, afterData) ELSE below

ReplaceRanges(d, ranges, storage, first, last) ==
    IF ranges = {} THEN d
    ELSE KeepEnds(DeleteRanges(d, ranges), Lowest(ranges), Topmost(ranges), first, last,
                  GetNonFungibleTokenValue(d.db, storage, Lowest(ranges)[2]),
                  GetNonFungibleTokenValue(d.db, storage, Topmost(ranges)[2]))

ChangeNonFungibleTokenData(d, storage, first, last, data) ==
    AddRange(ReplaceRanges(d, DataRanges(d.db, storage, first, last), storage, first, last),
             <<storage, first, last>>, data)

-----------------------------------------------------------------------------
(* Undo records.                                                           *)

getTotalTokens(t) == MapThenSumSet(LAMBDA a : t[<<a, NFT, "BALANCE">>], Address)

SanityCheckFails(d) ==
    /\ \E k \in DOMAIN d.blockData : k[1] = "RangeIndex"
    /\ getTotalTokens(d.tally) # GetHighestRangeEnd(d.db)

\* The value of k in the oldest of some undo records: emplace keeps the first it is given.
OldValue(u, heights, k) ==
    u[CHOOSE h \in heights : k \in DOMAIN u[h]
        /\ \A i \in heights : k \in DOMAIN u[i] => h <= i][k]

\* f with the old values of the blocks at these heights.
Undone(f, u, heights) ==
    LET keys == UNION {DOMAIN u[h] : h \in heights}
        gone == {k \in keys : OldValue(u, heights, k) = DELETE_KEY}
    IN  [k \in (DOMAIN f \cup keys) \ gone |->
            IF k \in keys THEN OldValue(u, heights, k) ELSE f[k]]

\* The records 'A' once the blocks from h on are undone.
RollBackAboveBlock(f, u, h) == Undone(f, u, {i \in DOMAIN u : i >= h})

-----------------------------------------------------------------------------
(* Transactions.                                                           *)

Init ==
    /\ tally = [k \in TallyKey |-> 0]
    /\ db = <<>> /\ blockData = <<>> /\ undo = <<>>
    /\ saved = <<tally>> /\ past = <<db>>
    /\ txs = 0 /\ issuerFeature \in Feature
    /\ abort = NoAbort

Working == [tally |-> tally, db |-> db, blockData |-> blockData, abort |-> abort]

Install(d) ==
    /\ txs < MaxTxs /\ txs' = txs + 1
    /\ tally' = d.tally /\ db' = d.db /\ blockData' = d.blockData /\ abort' = d.abort
    /\ UNCHANGED <<undo, saved, past, issuerFeature>>

Running == abort = NoAbort /\ height <= MaxBlocks

\* logicMath_GrantTokens, for a non-fungible property.
GrantTokens(sender, receiver, amount, info) ==
    /\ Running
    /\ sender = Issuer
    /\ amount <= MaxInt - getTotalTokens(tally)
    /\ Install(AssertUpdate(CreateNonFungibleTokens(Working, amount, receiver, info),
                            {}, receiver, NFT, amount, "BALANCE"))

SendNonFungible(sender, receiver, first, last) ==
    /\ Running
    /\ first <= last
    /\ tally[<<sender, NFT, "BALANCE">>] >= last - first + 1
    /\ GetNonFungibleTokenValueInRange(db, first, last) = sender
    /\ Install(MoveNonFungibleTokens(
                  Move(Working, {}, sender, receiver, NFT, "BALANCE", "BALANCE", last - first + 1),
                  first, last, sender, receiver))

\* Variant: a send of all tokens takes the non-fungible ones as well.
SendAllMoves_Always(sender) == tally[<<sender, NFT, "BALANCE">>] > 0

\* Whether a send of all tokens moves the balance of the property.
SendAllMoves(sender) == tally[<<sender, NFT, "BALANCE">>] > 0 /\ ~issuerFeature

SendAll(sender, receiver) ==
    /\ Running
    /\ SendAllMoves(sender)
    /\ Install(Move(Working, {}, sender, receiver, NFT, "BALANCE", "BALANCE",
                    tally[<<sender, NFT, "BALANCE">>]))

\* Holders set data of the tokens they own; the issuer sets data of any token, and
\* before the feature is active anyone does.
NonFungibleData(sender, storage, first, last, data) ==
    /\ Running
    /\ first <= last
    /\ storage = "HolderData" => GetNonFungibleTokenValueInRange(db, first, last) = sender
    /\ storage = "IssuerData" => sender = Issuer \/ ~issuerFeature
    /\ Install(ChangeNonFungibleTokenData(Working, storage, first, last, data))

\* The block ends: WriteBlockCache, after which the balances are saved.
BlockEnd ==
    /\ Running
    /\ abort' = IF blockData # <<>> /\ SanityCheckFails(Working) THEN "SanityCheck" ELSE abort
    /\ undo' = IF blockData # <<>> THEN Put(undo, height, blockData) ELSE undo
    /\ blockData' = <<>> /\ txs' = 0
    /\ saved' = Append(saved, tally) /\ past' = Append(past, db)
    /\ UNCHANGED <<tally, db, issuerFeature>>

\* The node stops and starts again with the balances of block n - 1: blocks after it
\* are rolled back, and without a state file all is cleared.
Restart(n) ==
    /\ CrashInBlock \/ blockData = <<>>
    /\ db' = CASE n = 1 -> <<>>
               [] n \in 2 .. height - 1 -> RollBackAboveBlock(db, undo, n)
               [] n = height -> db
    /\ undo' = Restrict(undo, {h \in DOMAIN undo : h < n})
    /\ tally' = saved[n]
    /\ saved' = SubSeq(saved, 1, n) /\ past' = SubSeq(past, 1, n)
    /\ blockData' = <<>> /\ txs' = 0 /\ abort' = NoAbort
    /\ UNCHANGED issuerFeature

Next ==
    \/ \E sender, receiver \in Address, amount \in Token, info \in Data :
            GrantTokens(sender, receiver, amount, info)
    \/ \E sender, receiver \in Address, first, last \in Token :
            SendNonFungible(sender, receiver, first, last)
    \/ \E sender, receiver \in Address : SendAll(sender, receiver)
    \/ \E sender \in Address, i \in DataInput : NonFungibleData(sender, i[1], i[2], i[3], i[4])
    \/ BlockEnd
    \/ \E n \in DOMAIN saved : Restart(n)

Spec == Init /\ [][Next]_vars

-----------------------------------------------------------------------------
(* Properties.                                                             *)

Values == Address \cup Data

\* The records of the database map keys to owners and data, the undo records hold
\* old values of such keys, and there are balances for every block.
TypeOK ==
    /\ tally \in Tallies
    /\ DOMAIN db \subseteq Key
    /\ \A k \in DOMAIN db : db[k] \in IF k[1] = "RangeIndex" THEN Address ELSE Data
    /\ \A u \in {blockData} \cup {undo[h] : h \in DOMAIN undo} :
          DOMAIN u \subseteq Key /\ \A k \in DOMAIN u : u[k] \in Values \cup {DELETE_KEY}
    /\ DOMAIN undo \subseteq 1 .. height - 1
    /\ Len(saved) = Len(past) /\ \A n \in DOMAIN saved : saved[n] \in Tallies

\* The owners of the tokens, as the database answers for each of them.
Owners(f) ==
    [t \in 1 .. GetHighestRangeEnd(f) |-> GetNonFungibleTokenValue(f, "RangeIndex", t)]

Abstract == INSTANCE TokenOwners WITH
    Limit <- MaxInt, owner <- Owners(db), past <- [n \in DOMAIN past |-> Owners(past[n])]

\* The ranges implement owners of single tokens: whatever splits and merges a grant or a
\* send makes, only the tokens it names change hands, and the undo records of
\* RollBackAboveBlock bring back the owners of the block the node returns to.
ImplementsTokenOwners == Abstract!Spec

\* Tokens of one owner in a row are one range, never two that touch or overlap: it is what
\* GetNonFungibleTokenValueInRange rests on when a send or a data transaction asks for a
\* whole row and gets the answer of the first range that holds all of it.
RowsAreRanges ==
    \A first, last \in 1 .. GetHighestRangeEnd(db) : \A a \in Address :
        (first <= last /\ \A t \in first .. last : GetNonFungibleTokenValue(db, "RangeIndex", t) = a)
            => GetNonFungibleTokenValueInRange(db, first, last) = a

\* While FEATURE_NONFUNGIBLE_ISSUER is active, the balance of an address is the number of
\* tokens it owns: the tally and the ranges, two stores updated by separate calls and
\* restored from separate places, never drift apart.
BalancesMatchRanges ==
    issuerFeature => \A a \in Address :
        tally[<<a, NFT, "BALANCE">>] =
            Cardinality({t \in Token : GetNonFungibleTokenValue(db, "RangeIndex", t) = a})

\* At the end of a block, rolling back to any earlier block gives exactly the records, of
\* owners and of data, that block ended with.
RollBackIsExact ==
    blockData = <<>> => \A n \in DOMAIN past : RollBackAboveBlock(db, undo, n) = past[n]

\* The asserts of the handlers and the sanity check at the end of a block hold: the
\* highest token is the number of tokens in the balances.
ChecksHold == abort = NoAbort

\* A data transaction gives its data to the tokens it names and changes the data of no
\* other token, as GetNonFungibleTokenValue reads them.
DataGoesWhereAsked ==
    \A i \in DataInput : \A f \in {ChangeNonFungibleTokenData(Working, i[1], i[2], i[3], i[4]).db} :
        \A t \in Token : GetNonFungibleTokenValue(f, i[1], t) =
            IF t \in i[2] .. i[3] THEN i[4] ELSE GetNonFungibleTokenValue(db, i[1], t)
=============================================================================
