----------------------------- MODULE IBFT2Seals -----------------------------
(***************************************************************************)
(* The validator sets and commit seals of the IBFT 2.0 light client        *)
(* (IBFT2Client.sol), over a chain whose blocks name their validators, and *)
(* the relayer's preparation of a header (pkg/chains/besu.go).  IBCClient  *)
(* takes the acceptance of a header as given; this module is about it.     *)
(*                                                                         *)
(* A seal is the address its signature recovers to, or None for the empty  *)
(* bytes; hashes and signatures are abstracted to who may have signed.     *)
(* Honest validators sign the blocks of the chain and nothing else; faulty *)
(* validators and nodes outside the set sign anything.                     *)
(***************************************************************************)
EXTENDS Naturals, Sequences, FiniteSets

CONSTANTS
    None,           \* the empty bytes
    Outsider,       \* an address that was never a validator
    Chains,         \* the chains considered: sequences of blocks, each with
                    \* the addresses in its extra data and its seals there
    OtherLists,     \* validator lists of headers that are of no block
    MaxSeals,       \* bound on the seals of a submitted header
    UINT8           \* the range of the counters of verified seals

Elements(list) == {list[i] : i \in DOMAIN list}

Lists == OtherLists \cup UNION {{chain[h].validators : h \in DOMAIN chain} :
                                  chain \in Chains}

\* The validators of a block are distinct, more than two thirds of them seal
\* it, and the set changes by at most one address per block.
ChainsAssumption ==
    \A chain \in Chains :
      /\ chain \in Seq(Elements(chain)) /\ chain # <<>>
      /\ \A h \in DOMAIN chain :
           LET list == chain[h].validators
               V == Elements(list)
               S == Elements(chain[h].seals)
           IN /\ \A i, j \in DOMAIN list : list[i] = list[j] => i = j
              /\ S \subseteq V /\ None \notin V /\ Outsider \notin V
              /\ 3 * Cardinality(S) > 2 * Cardinality(V)
      /\ \A h \in DOMAIN chain \ {1} :
           LET V == Elements(chain[h - 1].validators)
               W == Elements(chain[h].validators)
           IN Cardinality((V \ W) \cup (W \ V)) <= 1

\* The empty bytes are no consensus state.
ListsAssumption ==
    \A list \in Lists :
      /\ list \in Seq(Elements(list))
      /\ None \notin [validators : Seq(Elements(list) \cup {None}),
                      root : {"chain", "other"}]
CounterAssumption == UINT8 \in Nat \ {0}
ASSUME SealsAssumption ==
    ChainsAssumption /\ ListsAssumption /\ CounterAssumption

VARIABLES
    blocks,             \* the chain the client tracks
    faulty,             \* its faulty validators
    latest_height,      \* of the client state
    consensusStates     \* height -> None, or validators and root

vars == <<blocks, faulty, latest_height, consensusStates>>

Height == DOMAIN blocks
Validators == UNION {Elements(blocks[h].validators) : h \in Height}
f(n) == (n - 1) \div 3

\* A header: a block's own if its root is the chain's, otherwise of no block.
Header(height, validators, root, seals, trusted_height) ==
    [height |-> height, validators |-> validators, root |-> root,
     seals |-> seals, trusted_height |-> trusted_height]

------------------------------------------------------------------------------
(* The contract *)

\* Faulty variant: every seal counts, also a repeated one.
markedPerSeal(trustedVals, seals) ==
    {k \in (DOMAIN seals) \X (DOMAIN trustedVals) :
       seals[k[1]] # None /\ seals[k[1]] = trustedVals[k[2]]}

\* The entries of the trusted set that one of the seals recovers to; the code
\* marks an entry so that it counts once.
marked(trustedVals, seals) ==
    {j \in DOMAIN trustedVals :
       \E i \in DOMAIN seals : seals[i] # None /\ seals[i] = trustedVals[j]}

\* Comparing a seal with an empty entry reverts: no address has 0 bytes.
verifyCommitSealsTrusting(trustedVals, seals) ==
    /\ (\E i \in DOMAIN seals : seals[i] # None) => None \notin Elements(trustedVals)
    /\ Cardinality(marked(trustedVals, seals)) % UINT8 >= Len(trustedVals) \div 3

\* Seals are compared with the validators at their positions; a seal too many
\* is an index out of range.
verifyCommitSeals(untrustedVals, seals) ==
    /\ DOMAIN seals \subseteq DOMAIN untrustedVals
    /\ Cardinality({i \in DOMAIN seals : seals[i] = untrustedVals[i]}) % UINT8
         > (Len(untrustedVals) * 2) \div 3

\* What is stored: only positions that have a seal, or its empty bytes, are
\* filled in.
sealedValidators(untrustedVals, seals) ==
    [i \in DOMAIN untrustedVals |->
       IF i \in DOMAIN seals THEN untrustedVals[i] ELSE None]

verify(header) ==
    /\ consensusStates[header.trusted_height] # None
    /\ header.height > header.trusted_height
    /\ verifyCommitSealsTrusting(
         consensusStates[header.trusted_height].validators, header.seals)
    /\ verifyCommitSeals(header.validators, header.seals)

\* Faulty variant: the last update is taken for the latest height.
lastUpdated(height) == height

higher(height) == IF height > latest_height THEN height ELSE latest_height

checkHeaderAndUpdateState(header) ==
    /\ verify(header)
    /\ consensusStates' = [consensusStates EXCEPT ![header.height] =
         [validators |-> sealedValidators(header.validators, header.seals),
          root |-> header.root]]
    /\ latest_height' = higher(header.height)

------------------------------------------------------------------------------
(* The relayer *)

\* Faulty variant: the seals as the block has them.
UnorderedCommitSeals(block) == block.seals

\* Faulty variant: the missing seals left out.
CompactCommitSeals(block) ==
    SelectSeq(block.validators, LAMBDA v : v \in Elements(block.seals))

\* The seals of a block in the order of its validators, empty where a
\* validator's is missing.
ValidateAndGetCommitSeals(block) ==
    [i \in DOMAIN block.validators |->
       IF block.validators[i] \in Elements(block.seals)
       THEN block.validators[i] ELSE None]

\* With fewer the relayer gives up.
sufficientVoting(block) ==
    Cardinality(Elements(block.validators) \cap Elements(block.seals))
      > (Len(block.validators) * 2) \div 3

\* The header ConstructIBFT2MsgUpdateClient makes of block h: trusted is
\* always the client's latest height.
RelayedHeader(h) ==
    Header(h, blocks[h].validators, "chain",
           ValidateAndGetCommitSeals(blocks[h]), latest_height)

------------------------------------------------------------------------------
(* The system *)

\* Who may have signed a header of the given root at height h.
Signers(h, root) ==
    faulty \cup {Outsider}
      \cup (IF root = "chain" THEN Elements(blocks[h].validators) ELSE {})

\* The client was created with the first block.
Init ==
    /\ blocks \in Chains
    /\ faulty \in {F \in SUBSET Validators :
                     \A h \in Height :
                       LET V == Elements(blocks[h].validators) IN
                       Cardinality(F \cap V) <= f(Cardinality(V))}
    /\ latest_height = 1
    /\ consensusStates = [h \in 1 .. Len(blocks) + 1 |->
                            IF h = 1 THEN [validators |-> blocks[1].validators,
                                           root |-> "chain"]
                            ELSE None]

Relay(h) ==
    /\ sufficientVoting(blocks[h])
    /\ checkHeaderAndUpdateState(RelayedHeader(h))
    /\ UNCHANGED <<blocks, faulty>>

\* Anyone submits a header with any seals that exist, in any order.
Submit(h, root) ==
    /\ \E validators \in IF root = "chain" THEN {blocks[h].validators}
                         ELSE OtherLists,
          n \in 0 .. MaxSeals, trusted_height \in DOMAIN consensusStates :
         /\ n <= Len(validators) + 1
         /\ \E seals \in [1 .. n -> Signers(h, root) \cup {None}] :
              checkHeaderAndUpdateState(
                Header(h, validators, root, seals, trusted_height))
    /\ UNCHANGED <<blocks, faulty>>

Next ==
    \/ \E h \in Height : Relay(h) \/ Submit(h, "chain")
    \/ \E h \in DOMAIN consensusStates : Submit(h, "other")

Spec == Init /\ [][Next]_vars

------------------------------------------------------------------------------
(* Properties *)

\* What the light client promises: every consensus state it stores is of a
\* block of the chain, and its validators are validators of that block.
OnlyChainBlocks ==
    \A h \in DOMAIN consensusStates : consensusStates[h] # None =>
      /\ h \in Height /\ consensusStates[h].root = "chain"
      /\ \A i \in DOMAIN consensusStates[h].validators :
           consensusStates[h].validators[i] \in
             {None, blocks[h].validators[i]}

\* The promise holds where a third of each set, rounded down as the code
\* does, is more than the faulty validators in it.
ThirdExceedsFaults ==
    \A h \in Height :
      LET V == Elements(blocks[h].validators) IN
      Cardinality(faulty \cap V) < Cardinality(V) \div 3
SafeAboveThird == ThirdExceedsFaults => OnlyChainBlocks

\* However often the validators change, a client whose latest consensus state
\* is whole can be brought to the next block by the relayer, whatever was
\* submitted before (docs/ibft2-light-client.md, "Liveness analysis").
Whole(h) == None \notin Elements(consensusStates[h].validators)
NextBlockVerifiable ==
    (OnlyChainBlocks /\ Whole(latest_height) /\ latest_height + 1 \in Height)
      => /\ sufficientVoting(blocks[latest_height + 1])
         /\ verify(RelayedHeader(latest_height + 1))

\* An update by the relayer stores the validators of the block without gaps,
\* so that the client can be updated from it.
RelayedWhole ==
    [][\A h \in Height :
         Relay(h) => consensusStates'[h].validators = blocks[h].validators]_vars

\* The latest height is the highest one with a consensus state: the relayer
\* trusts it for the next update and verifies all its proofs at it, even
\* after updates came out of order.
LatestIsHighest ==
    /\ consensusStates[latest_height] # None
    /\ \A h \in DOMAIN consensusStates :
         consensusStates[h] # None => h <= latest_height
=============================================================================
