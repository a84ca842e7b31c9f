-------------------------- MODULE IBFT2Seals_proofs --------------------------
(***************************************************************************)
(* Safety of the light client for every chain, every set of faulty         *)
(* validators and every header, where a third of each set, rounded down,   *)
(* exceeds the faults; that the latest height is the highest; and that the *)
(* relayer can bring the client to the next block.                         *)
(***************************************************************************)
EXTENDS IBFT2Seals, FiniteSetTheorems, TLAPS

------------------------------------------------------------------------------
(* Counting                                                                *)

\* A list without repetitions has as many elements as entries.
LEMMA DistinctElements ==
    ASSUME NEW list, list \in Seq(Elements(list)),
           \A i, j \in DOMAIN list : list[i] = list[j] => i = j
    PROVE  /\ IsFiniteSet(Elements(list))
           /\ Cardinality(Elements(list)) = Len(list)
<1>0. /\ Len(list) \in Nat /\ DOMAIN list = 1 .. Len(list)
      /\ list \in [1 .. Len(list) -> Elements(list)]
  OBVIOUS
<1>1. /\ IsFiniteSet(1 .. Len(list))
      /\ Cardinality(1 .. Len(list)) = Len(list)
  BY <1>0, FS_Interval
<1>2. list \in Bijection(1 .. Len(list), Elements(list))
  BY <1>0 DEF Elements, Bijection, Injection, Surjection, IsInjective
<1>3. ExistsBijection(1 .. Len(list), Elements(list))
  BY <1>2 DEF ExistsBijection
<1> QED BY <1>1, <1>3, FS_Bijection

\* The entries of a stored list that faulty validators sealed are no more than
\* the faulty validators of the block it is of.
LEMMA MarkedByFaulty ==
    ASSUME NEW list, list \in Seq(Elements(list)),
           \A i, j \in DOMAIN list : list[i] = list[j] => i = j,
           None \notin Elements(list), Outsider \notin Elements(list),
           NEW F,
           NEW stored, DOMAIN stored = DOMAIN list,
           \A i \in DOMAIN list : stored[i] \in {None, list[i]},
           NEW n \in Nat, NEW seals \in [1 .. n -> F \cup {Outsider, None}]
    PROVE  /\ Cardinality(marked(stored, seals)) \in Nat
           /\ Cardinality(marked(stored, seals))
                <= Cardinality(F \cap Elements(list))
<1> DEFINE M == marked(stored, seals)
           sealer == [j \in M |-> list[j]]
<1>1. IsFiniteSet(F \cap Elements(list))
  BY DistinctElements, FS_Intersection
<1>2. \A j \in M : j \in DOMAIN list /\ list[j] \in F \cap Elements(list)
  <2> SUFFICES ASSUME NEW j \in M
               PROVE  j \in DOMAIN list /\ list[j] \in F \cap Elements(list)
    OBVIOUS
  <2>1. PICK i \in DOMAIN seals : seals[i] # None /\ seals[i] = stored[j]
    BY DEF marked
  <2>2. j \in DOMAIN list /\ stored[j] = list[j]
    BY <2>1 DEF marked
  <2>3. list[j] \in Elements(list)
    BY <2>2 DEF Elements
  <2> QED BY <2>1, <2>2, <2>3
<1>3. sealer \in Injection(M, F \cap Elements(list))
  BY <1>2 DEF Injection, IsInjective
<1>4. IsFiniteSet(M) /\ Cardinality(M) <= Cardinality(F \cap Elements(list))
  BY <1>1, <1>3, FS_Injection
<1> HIDE DEF M
<1>5. Cardinality(M) \in Nat
  BY <1>4, FS_CardinalityType
<1> QED BY <1>4, <1>5 DEF M

LEMMA CounterBounded == ASSUME NEW k \in Nat PROVE k % UINT8 <= k
BY SealsAssumption DEF CounterAssumption

\* A header of no block is not trusted from a consensus state of a block.
LEMMA ForgedRejected ==
    ASSUME NEW list, list \in Seq(Elements(list)),
           \A i, j \in DOMAIN list : list[i] = list[j] => i = j,
           None \notin Elements(list), Outsider \notin Elements(list),
           NEW F,
           Cardinality(F \cap Elements(list))
             < Cardinality(Elements(list)) \div 3,
           NEW stored, stored \in Seq(Elements(list) \cup {None}),
           Len(stored) = Len(list),
           \A i \in DOMAIN list : stored[i] \in {None, list[i]},
           NEW n \in Nat, NEW seals \in [1 .. n -> F \cup {Outsider, None}]
    PROVE  ~ verifyCommitSealsTrusting(stored, seals)
<1>0. DOMAIN stored = DOMAIN list
  OBVIOUS
<1>1. /\ Cardinality(marked(stored, seals)) \in Nat
      /\ Cardinality(marked(stored, seals))
           <= Cardinality(F \cap Elements(list))
  BY <1>0, MarkedByFaulty
<1>2. /\ IsFiniteSet(Elements(list))
      /\ Cardinality(Elements(list)) = Len(list)
  BY DistinctElements
<1>3. Cardinality(F \cap Elements(list)) \in Nat
  BY <1>2, FS_Intersection, FS_CardinalityType
<1>4. Len(list) \in Nat
  OBVIOUS
<1>5. /\ Cardinality(marked(stored, seals)) % UINT8 \in Int
      /\ Cardinality(marked(stored, seals)) % UINT8
           <= Cardinality(marked(stored, seals))
  BY <1>1, CounterBounded, SealsAssumption DEF CounterAssumption
<1>6. Cardinality(marked(stored, seals)) % UINT8 < Len(stored) \div 3
  BY <1>1, <1>2, <1>3, <1>4, <1>5
<1> QED BY <1>4, <1>5, <1>6 DEF verifyCommitSealsTrusting

------------------------------------------------------------------------------
(* Safety                                                                  *)

ListAssumed(list) ==
    /\ list \in Seq(Elements(list))
    /\ \A i, j \in DOMAIN list : list[i] = list[j] => i = j
    /\ None \notin Elements(list) /\ Outsider \notin Elements(list)

LEMMA BlockLists ==
    ASSUME NEW chain \in Chains
    PROVE  /\ Len(chain) \in Nat \ {0} /\ DOMAIN chain = 1 .. Len(chain)
           /\ \A h \in DOMAIN chain : ListAssumed(chain[h].validators)
<1>1. chain \in Seq(Elements(chain)) /\ chain # <<>>
  BY SealsAssumption DEF SealsAssumption, ChainsAssumption
<1>2. \A h \in DOMAIN chain : chain[h].validators \in Lists
  BY DEF Lists
<1>3. \A h \in DOMAIN chain : ListAssumed(chain[h].validators)
  BY <1>2, SealsAssumption
     DEF SealsAssumption, ChainsAssumption, ListsAssumption, ListAssumed
<1> QED BY <1>1, <1>3

StateHeight == 1 .. Len(blocks) + 1
ChainFixed ==
    /\ blocks \in Chains
    /\ consensusStates = [h \in StateHeight |-> consensusStates[h]]

\* What is stored at height h is of block h: also the length of the list, which
\* the threshold is a third of, is the block's.
OfBlock(h) ==
    /\ h \in Height
    /\ consensusStates[h].root = "chain"
    /\ LET list == blocks[h].validators
           stored == consensusStates[h].validators
       IN /\ stored \in Seq(Elements(list) \cup {None})
          /\ Len(stored) = Len(list)
          /\ \A i \in DOMAIN list : stored[i] \in {None, list[i]}
SafetyInv ==
    /\ ChainFixed
    /\ ThirdExceedsFaults =>
         \A h \in StateHeight : consensusStates[h] # None => OfBlock(h)

LEMMA SafetyInit == Init => SafetyInv
<1> SUFFICES ASSUME Init PROVE SafetyInv
  OBVIOUS
<1>1. ChainFixed
  BY DEF Init, ChainFixed, StateHeight
<1>2. ASSUME NEW h \in StateHeight, consensusStates[h] # None
      PROVE  OfBlock(h)
  <2>1. h = 1 /\ h \in DOMAIN blocks
    BY <1>2, BlockLists DEF Init, StateHeight
  <2>2. consensusStates[1] = [validators |-> blocks[1].validators,
                              root |-> "chain"]
    BY <2>1 DEF Init, StateHeight
  <2>3. ListAssumed(blocks[1].validators)
    BY <2>1, BlockLists DEF Init
  <2>4. blocks[1].validators \in
          Seq(Elements(blocks[1].validators) \cup {None})
    BY <2>3 DEF ListAssumed
  <2> QED BY <2>1, <2>2, <2>4 DEF OfBlock, Height
<1> QED BY <1>1, <1>2 DEF SafetyInv

\* An accepted header of a block stores what is of the block.
LEMMA BlockStored ==
    ASSUME SafetyInv, NEW h \in Height, NEW n \in Nat,
           NEW seals, DOMAIN seals = 1 .. n, NEW t,
           checkHeaderAndUpdateState(
             Header(h, blocks[h].validators, "chain", seals, t)),
           UNCHANGED <<blocks, faulty>>
    PROVE  SafetyInv'
<1> DEFINE list == blocks[h].validators
           stored == sealedValidators(list, seals)
<1>1. /\ h \in StateHeight
      /\ ListAssumed(list)
  BY BlockLists DEF SafetyInv, ChainFixed, StateHeight, Height
<1>2. consensusStates' = [consensusStates EXCEPT ![h] =
                            [validators |-> stored, root |-> "chain"]]
  BY DEF checkHeaderAndUpdateState, Header
<1>3. /\ stored \in Seq(Elements(list) \cup {None})
      /\ Len(stored) = Len(list)
      /\ \A i \in DOMAIN list : stored[i] \in {None, list[i]}
  BY <1>1 DEF sealedValidators, ListAssumed, Elements
<1> HIDE DEF stored
<1>4. ChainFixed'
  BY <1>1, <1>2 DEF SafetyInv, ChainFixed, StateHeight
<1>5. ASSUME ThirdExceedsFaults', NEW k \in StateHeight,
             consensusStates'[k] # None
      PROVE  OfBlock(k)'
  <2>1. ThirdExceedsFaults
    BY <1>5 DEF ThirdExceedsFaults, Height
  <2>2. CASE k = h
    BY <1>1, <1>2, <1>3, <2>2 DEF OfBlock, Height, SafetyInv, ChainFixed
  <2>3. CASE k # h
    <3>1. consensusStates'[k] = consensusStates[k]
      BY <1>2, <2>3 DEF SafetyInv, ChainFixed
    <3>2. OfBlock(k)
      BY <1>5, <2>1, <3>1 DEF SafetyInv
    <3> QED BY <3>1, <3>2 DEF OfBlock, Height
  <2> QED BY <2>2, <2>3
<1> QED BY <1>4, <1>5 DEF SafetyInv, StateHeight

\* Where the faults are below the threshold, no header of no block is accepted;
\* where they are not, the invariant only fixes the chain.
LEMMA OtherRejected ==
    ASSUME SafetyInv, NEW h \in StateHeight, Submit(h, "other")
    PROVE  SafetyInv'
<1>0. PICK list \in OtherLists, n \in 0 .. MaxSeals,
           t \in DOMAIN consensusStates :
           \E seals \in [1 .. n -> Signers(h, "other") \cup {None}] :
             checkHeaderAndUpdateState(Header(h, list, "other", seals, t))
  BY DEF Submit
<1>1. PICK seals \in [1 .. n -> Signers(h, "other") \cup {None}] :
             checkHeaderAndUpdateState(Header(h, list, "other", seals, t))
  BY <1>0
<1>2. UNCHANGED <<blocks, faulty>>
  BY DEF Submit
<1>3. PICK x : consensusStates' = [consensusStates EXCEPT ![h] = x]
  BY <1>1 DEF checkHeaderAndUpdateState, Header
<1>4. ChainFixed'
  BY <1>2, <1>3 DEF SafetyInv, ChainFixed, StateHeight
<1>5. ASSUME ThirdExceedsFaults' PROVE FALSE
  <2>1. ThirdExceedsFaults
    BY <1>2, <1>5 DEF ThirdExceedsFaults, Height
  <2>2. /\ t \in StateHeight
        /\ consensusStates[t] # None
        /\ verifyCommitSealsTrusting(consensusStates[t].validators, seals)
    BY <1>1 DEF checkHeaderAndUpdateState, verify, Header, SafetyInv, ChainFixed
  <2>3. OfBlock(t)
    BY <2>1, <2>2 DEF SafetyInv
  <2>4. ListAssumed(blocks[t].validators)
    BY <2>3, BlockLists DEF OfBlock, Height, SafetyInv, ChainFixed
  <2>5. Cardinality(faulty \cap Elements(blocks[t].validators))
          < Cardinality(Elements(blocks[t].validators)) \div 3
    BY <2>1, <2>3 DEF ThirdExceedsFaults, OfBlock
  <2>6. n \in Nat /\ seals \in [1 .. n -> faulty \cup {Outsider, None}]
    BY <1>1 DEF Signers
  <2>7. ~ verifyCommitSealsTrusting(consensusStates[t].validators, seals)
    BY <2>3, <2>4, <2>5, <2>6, ForgedRejected DEF ListAssumed, OfBlock
  <2> QED BY <2>2, <2>7
<1> QED BY <1>4, <1>5 DEF SafetyInv

LEMMA SafetyNext == SafetyInv /\ [Next]_vars => SafetyInv'
<1> SUFFICES ASSUME SafetyInv, [Next]_vars PROVE SafetyInv'
  OBVIOUS
<1>1. ASSUME NEW h \in Height, Relay(h) PROVE SafetyInv'
  <2>1. checkHeaderAndUpdateState(RelayedHeader(h))
        /\ UNCHANGED <<blocks, faulty>>
    BY <1>1 DEF Relay
  <2>2. ListAssumed(blocks[h].validators)
    BY <1>1, BlockLists DEF Height, SafetyInv, ChainFixed
  <2>3. /\ Len(blocks[h].validators) \in Nat
        /\ DOMAIN ValidateAndGetCommitSeals(blocks[h])
             = 1 .. Len(blocks[h].validators)
    BY <2>2 DEF ListAssumed, ValidateAndGetCommitSeals
  <2> QED BY <2>1, <2>3, BlockStored DEF RelayedHeader
<1>2. ASSUME NEW h \in Height, Submit(h, "chain") PROVE SafetyInv'
  <2>0. PICK n \in 0 .. MaxSeals, t \in DOMAIN consensusStates :
          \E seals \in [1 .. n -> Signers(h, "chain") \cup {None}] :
            checkHeaderAndUpdateState(
              Header(h, blocks[h].validators, "chain", seals, t))
    BY <1>2 DEF Submit
  <2>1. PICK seals \in [1 .. n -> Signers(h, "chain") \cup {None}] :
          checkHeaderAndUpdateState(
            Header(h, blocks[h].validators, "chain", seals, t))
    BY <2>0
  <2>2. n \in Nat /\ DOMAIN seals = 1 .. n /\ UNCHANGED <<blocks, faulty>>
    BY <1>2, <2>1 DEF Submit
  <2> QED BY <2>1, <2>2, BlockStored
<1>3. ASSUME NEW h \in DOMAIN consensusStates, Submit(h, "other")
      PROVE  SafetyInv'
  BY <1>3, OtherRejected DEF SafetyInv, ChainFixed
<1>4. CASE UNCHANGED vars
  BY <1>4 DEF SafetyInv, ChainFixed, StateHeight, ThirdExceedsFaults, OfBlock,
              Height, vars
<1> QED BY <1>1, <1>2, <1>3, <1>4 DEF Next

\* Every consensus state the light client stores is of a block of the chain it
\* tracks, whatever headers are submitted, if fewer validators of each block
\* are faulty than a third of them rounded down: the claim of IBFT2Client's
\* checkHeaderAndUpdateState, for validator sets of any size.
THEOREM ClientFollowsChain == Spec => []SafeAboveThird
<1>1. SafetyInv => SafeAboveThird
  <2> SUFFICES ASSUME SafetyInv, ThirdExceedsFaults,
                      NEW h \in DOMAIN consensusStates,
                      consensusStates[h] # None
               PROVE  /\ h \in Height /\ consensusStates[h].root = "chain"
                      /\ \A i \in DOMAIN consensusStates[h].validators :
                           consensusStates[h].validators[i] \in
                             {None, blocks[h].validators[i]}
    BY DEF SafeAboveThird, OnlyChainBlocks
  <2>1. OfBlock(h)
    BY DEF SafetyInv, ChainFixed
  <2> QED BY <2>1 DEF OfBlock
<1> QED BY <1>1, SafetyInit, SafetyNext, PTL DEF Spec

------------------------------------------------------------------------------
(* The latest height                                                       *)

HighestInv ==
    /\ ChainFixed
    /\ latest_height \in StateHeight
    /\ LatestIsHighest

\* What an update stores is a consensus state, not the empty bytes.
LEMMA HighestStep ==
    ASSUME HighestInv, NEW h \in StateHeight, NEW list \in Lists,
           NEW root \in {"chain", "other"}, NEW seals, NEW t,
           checkHeaderAndUpdateState(Header(h, list, root, seals, t)),
           UNCHANGED <<blocks, faulty>>
    PROVE  HighestInv'
<1> DEFINE new == [validators |-> sealedValidators(list, seals), root |-> root]
<1>1. /\ consensusStates' = [consensusStates EXCEPT ![h] = new]
      /\ latest_height' = IF h > latest_height THEN h ELSE latest_height
  BY DEF checkHeaderAndUpdateState, Header, higher
<1>2. new # None
  <2>1. list \in Seq(Elements(list))
        /\ None \notin [validators : Seq(Elements(list) \cup {None}),
                        root : {"chain", "other"}]
    BY SealsAssumption DEF SealsAssumption, ListsAssumption
  <2>2. sealedValidators(list, seals) \in Seq(Elements(list) \cup {None})
    BY <2>1 DEF sealedValidators, Elements
  <2>3. new \in [validators : Seq(Elements(list) \cup {None}),
                 root : {"chain", "other"}]
    BY <2>2
  <2> QED BY <2>1, <2>3
<1> HIDE DEF new
<1>3. StateHeight \subseteq Nat /\ StateHeight' = StateHeight
  BY BlockLists DEF HighestInv, ChainFixed, StateHeight
<1>4. ChainFixed'
  BY <1>1, <1>3 DEF HighestInv, ChainFixed
<1>5. consensusStates[latest_height] # None
      /\ \A k \in StateHeight : consensusStates[k] # None => k <= latest_height
  BY DEF HighestInv, LatestIsHighest, ChainFixed
<1>6. \A k \in StateHeight :
        consensusStates'[k] = IF k = h THEN new ELSE consensusStates[k]
  BY <1>1 DEF HighestInv, ChainFixed
<1>7. latest_height' \in StateHeight
  BY <1>1 DEF HighestInv
<1>8. consensusStates'[latest_height'] # None
  BY <1>1, <1>2, <1>5, <1>6, <1>7 DEF HighestInv
<1>9. \A k \in StateHeight :
        consensusStates'[k] # None => k <= latest_height'
  BY <1>1, <1>3, <1>5, <1>6 DEF HighestInv
<1> QED BY <1>3, <1>4, <1>7, <1>8, <1>9
        DEF HighestInv, LatestIsHighest, ChainFixed

LEMMA HighestInit == Init => HighestInv
<1> SUFFICES ASSUME Init PROVE HighestInv
  OBVIOUS
<1>1. /\ Len(blocks) \in Nat \ {0} /\ 1 \in DOMAIN blocks
      /\ blocks[1].validators \in Lists
  BY BlockLists DEF Init, Lists
<1>2. ListAssumed(blocks[1].validators)
  BY <1>1, BlockLists DEF Init
<1>3. [validators |-> blocks[1].validators, root |-> "chain"] # None
  <2> DEFINE list == blocks[1].validators
  <2>1. None \notin [validators : Seq(Elements(list) \cup {None}),
                     root : {"chain", "other"}]
    BY <1>1, SealsAssumption DEF SealsAssumption, ListsAssumption
  <2>2. list \in Seq(Elements(list) \cup {None})
    BY <1>2 DEF ListAssumed
  <2> HIDE DEF list
  <2>3. [validators |-> list, root |-> "chain"] \in
          [validators : Seq(Elements(list) \cup {None}),
           root : {"chain", "other"}]
    BY <2>2
  <2> QED BY <2>1, <2>3 DEF list
<1>4. ChainFixed /\ latest_height \in StateHeight
  BY <1>1 DEF Init, ChainFixed, StateHeight
<1> QED BY <1>1, <1>3, <1>4
        DEF Init, HighestInv, LatestIsHighest, StateHeight, ChainFixed

LEMMA HighestNext == HighestInv /\ [Next]_vars => HighestInv'
<1> SUFFICES ASSUME HighestInv, [Next]_vars PROVE HighestInv'
  OBVIOUS
<1>1. ASSUME NEW h \in Height
      PROVE  h \in StateHeight /\ blocks[h].validators \in Lists
  BY <1>1, BlockLists DEF HighestInv, ChainFixed, StateHeight, Height, Lists
<1>2. ASSUME NEW h \in Height, Relay(h) PROVE HighestInv'
  BY <1>1, <1>2, HighestStep DEF Relay, RelayedHeader
<1>3. ASSUME NEW h \in StateHeight, NEW root \in {"chain", "other"},
             Submit(h, root), root = "chain" => h \in Height
      PROVE  HighestInv'
  <2>1. PICK list \in IF root = "chain" THEN {blocks[h].validators}
                      ELSE OtherLists,
             n \in 0 .. MaxSeals, t \in DOMAIN consensusStates :
          \E seals \in [1 .. n -> Signers(h, root) \cup {None}] :
            checkHeaderAndUpdateState(Header(h, list, root, seals, t))
    BY <1>3 DEF Submit
  <2>2. list \in Lists
    BY <1>1, <1>3 DEF Lists
  <2> QED BY <1>3, <2>1, <2>2, HighestStep DEF Submit
<1>4. CASE UNCHANGED vars
  BY <1>4 DEF HighestInv, ChainFixed, StateHeight, LatestIsHighest, vars
<1> QED BY <1>1, <1>2, <1>3, <1>4 DEF Next, HighestInv, ChainFixed

\* IBFT2Client's latest_height is the highest height it has a consensus state
\* of, in whatever order updates are submitted.
THEOREM LatestHeightHighest == Spec => []LatestIsHighest
<1>1. HighestInv => LatestIsHighest
  BY DEF HighestInv
<1> QED BY <1>1, HighestInit, HighestNext, PTL DEF Spec

------------------------------------------------------------------------------
(* The relayer's updates                                                   *)

\* The relayer gives every validator of the block a position among the seals,
\* so the contract fills in every entry.
LEMMA AllSealsFillIn ==
    ASSUME NEW block, block.validators \in Seq(Elements(block.validators))
    PROVE  sealedValidators(block.validators, ValidateAndGetCommitSeals(block))
             = block.validators
<1>1. DOMAIN ValidateAndGetCommitSeals(block) = DOMAIN block.validators
  BY DEF ValidateAndGetCommitSeals
<1> QED BY <1>1 DEF sealedValidators

LEMMA RelayedStep ==
    ASSUME HighestInv, NEW h \in Height, Relay(h)
    PROVE  consensusStates'[h].validators = blocks[h].validators
<1>1. h \in StateHeight /\ ListAssumed(blocks[h].validators)
  BY BlockLists DEF HighestInv, ChainFixed, StateHeight, Height
<1>2. h \in DOMAIN consensusStates
  BY <1>1 DEF HighestInv, ChainFixed
<1>3. consensusStates' =
        [consensusStates EXCEPT ![h] =
           [validators |-> sealedValidators(blocks[h].validators,
                             ValidateAndGetCommitSeals(blocks[h])),
            root |-> "chain"]]
  BY DEF Relay, RelayedHeader, Header, checkHeaderAndUpdateState
<1>4. sealedValidators(blocks[h].validators,
                       ValidateAndGetCommitSeals(blocks[h]))
        = blocks[h].validators
  BY <1>1, AllSealsFillIn DEF ListAssumed
<1> QED BY <1>2, <1>3, <1>4

\* A header made by besu.go's ConstructIBFT2MsgUpdateClient leaves a consensus
\* state without gaps, however many validators did not seal the block.
THEOREM RelayedUpdatesWhole == Spec => RelayedWhole
<1>1. HighestInv /\ [Next]_vars =>
        [\A h \in Height :
           Relay(h) => consensusStates'[h].validators = blocks[h].validators]_vars
  BY RelayedStep
<1> QED BY <1>1, HighestInit, HighestNext, PTL DEF Spec, RelayedWhole
------------------------------------------------------------------------------
(* The next block                                                          *)

\* The contract counts seals in a uint8: no block may have so many validators
\* that the counter wraps around.
CountersSuffice ==
    \A chain \in Chains : \A h \in DOMAIN chain :
      Len(chain[h].validators) < UINT8

\* What is stored of the chain is of the block, whatever is faulty.
StoredInv ==
    /\ HighestInv
    /\ \A h \in Height :
         (consensusStates[h] # None /\ consensusStates[h].root = "chain")
           => OfBlock(h)

\* The positions of a list whose addresses are in a set are counted by the
\* addresses.
LEMMA CountedByAddress ==
    ASSUME NEW list, ListAssumed(list), NEW X
    PROVE  LET P == {i \in DOMAIN list : list[i] \in X} IN
           /\ IsFiniteSet(P) /\ IsFiniteSet(X \cap Elements(list))
           /\ Cardinality(P) = Cardinality(X \cap Elements(list))
           /\ Cardinality(P) \in Nat /\ Cardinality(P) <= Len(list)
<1> DEFINE P == {i \in DOMAIN list : list[i] \in X}
           address == [i \in P |-> list[i]]
<1>0. /\ list \in Seq(Elements(list)) /\ Len(list) \in Nat
      /\ \A i, j \in DOMAIN list : list[i] = list[j] => i = j
  BY DEF ListAssumed
<1>1. IsFiniteSet(Elements(list)) /\ Cardinality(Elements(list)) = Len(list)
  BY <1>0, DistinctElements
<1>2. /\ IsFiniteSet(X \cap Elements(list))
      /\ Cardinality(X \cap Elements(list)) <= Cardinality(Elements(list))
  BY <1>1, FS_Subset, FS_Intersection
<1>3. address \in Bijection(P, X \cap Elements(list))
  <2>1. \A i \in P : address[i] = list[i] /\ list[i] \in X \cap Elements(list)
    BY DEF Elements
  <2>2. \A x \in X \cap Elements(list) : \E i \in P : list[i] = x
    BY DEF Elements
  <2>3. P \subseteq DOMAIN list /\ address \in [P -> X \cap Elements(list)]
    BY <2>1
  <2> HIDE DEF P, address
  <2>4. address \in Injection(P, X \cap Elements(list))
    BY <1>0, <2>1, <2>3 DEF Injection, IsInjective
  <2>5. address \in Surjection(P, X \cap Elements(list))
    BY <2>1, <2>2, <2>3 DEF Surjection
  <2> QED BY <2>4, <2>5 DEF Bijection
<1>4. ExistsBijection(P, X \cap Elements(list))
  BY <1>3 DEF ExistsBijection
<1>5. IsFiniteSet(P)
  <2>1. DOMAIN list = 1 .. Len(list) /\ IsFiniteSet(1 .. Len(list))
    BY <1>0, FS_Interval
  <2> QED BY <2>1, FS_Subset
<1> HIDE DEF P
<1>6. Cardinality(P) = Cardinality(X \cap Elements(list))
  BY <1>4, <1>5, FS_Bijection
<1> QED BY <1>0, <1>1, <1>2, <1>5, <1>6, FS_CardinalityType DEF P

\* The relayer's seals are compared with the addresses that sealed the block,
\* both by those of the trusted list and by position.
LEMMA SealsCounted ==
    ASSUME NEW block, ListAssumed(block.validators),
           NEW trusted, ListAssumed(trusted),
           Elements(block.seals) \subseteq Elements(block.validators)
    PROVE  LET S == Elements(block.seals)
               seals == ValidateAndGetCommitSeals(block)
           IN /\ marked(trusted, seals)
                   = {j \in DOMAIN trusted : trusted[j] \in S}
              /\ {i \in DOMAIN seals : seals[i] = block.validators[i]}
                   = {i \in DOMAIN block.validators : block.validators[i] \in S}
<1> DEFINE S == Elements(block.seals)
           seals == ValidateAndGetCommitSeals(block)
<1>1. /\ DOMAIN seals = DOMAIN block.validators
      /\ \A i \in DOMAIN seals :
           seals[i] = IF block.validators[i] \in S
                      THEN block.validators[i] ELSE None
      /\ \A i \in DOMAIN block.validators : block.validators[i] # None
      /\ \A j \in DOMAIN trusted : trusted[j] # None
  BY DEF ValidateAndGetCommitSeals, ListAssumed, Elements
<1>2. \A a \in S : \E i \in DOMAIN block.validators : block.validators[i] = a
  BY DEF Elements
<1> HIDE DEF S, seals
<1>3. marked(trusted, seals) = {j \in DOMAIN trusted : trusted[j] \in S}
  BY <1>1, <1>2 DEF marked
<1>4. {i \in DOMAIN seals : seals[i] = block.validators[i]}
        = {i \in DOMAIN block.validators : block.validators[i] \in S}
  BY <1>1
<1> QED BY <1>3, <1>4 DEF S, seals

\* More than two thirds of a set that differs from V by one address at most are
\* at least a third, rounded down, of V.
LEMMA ThirdRemains ==
    ASSUME NEW V, IsFiniteSet(V), NEW W, IsFiniteSet(W),
           Cardinality((V \ W) \cup (W \ V)) <= 1,
           NEW S, S \subseteq W, 3 * Cardinality(S) > 2 * Cardinality(W)
    PROVE  Cardinality(S \cap V) >= Cardinality(V) \div 3
<1>1. /\ IsFiniteSet(S) /\ IsFiniteSet(V \ W) /\ IsFiniteSet(W \ V)
      /\ IsFiniteSet(S \cap V) /\ IsFiniteSet(S \ V) /\ IsFiniteSet(V \cap W)
  BY FS_Subset, FS_Difference, FS_Intersection
<1>2. /\ Cardinality(S) \in Nat /\ Cardinality(V) \in Nat
      /\ Cardinality(W) \in Nat /\ Cardinality(V \ W) \in Nat
      /\ Cardinality(W \ V) \in Nat /\ Cardinality(S \cap V) \in Nat
      /\ Cardinality(S \ V) \in Nat /\ Cardinality(V \cap W) \in Nat
  BY <1>1, FS_CardinalityType
<1>3. /\ Cardinality(V \ W) = Cardinality(V) - Cardinality(V \cap W)
      /\ Cardinality(W \ V) = Cardinality(W) - Cardinality(V \cap W)
      /\ Cardinality(S \ V) = Cardinality(S) - Cardinality(S \cap V)
  <2>1. W \cap V = V \cap W
    OBVIOUS
  <2>2. /\ Cardinality(V \ W) = Cardinality(V) - Cardinality(V \cap W)
        /\ Cardinality(S \ V) = Cardinality(S) - Cardinality(S \cap V)
    BY <1>1, FS_Difference
  <2>3. Cardinality(W \ V) = Cardinality(W) - Cardinality(W \cap V)
    BY FS_Difference
  <2> QED BY <2>1, <2>2, <2>3
<1>4. Cardinality(S \ V) <= Cardinality(W \ V)
  <2>1. S \ V \subseteq W \ V
    OBVIOUS
  <2> QED BY <1>1, <2>1, FS_Subset
<1>5. Cardinality(V \ W) + Cardinality(W \ V) <= 1
  <2>1. (V \ W) \cap (W \ V) = {}
    OBVIOUS
  <2>2. Cardinality((V \ W) \cup (W \ V))
          = Cardinality(V \ W) + Cardinality(W \ V) - Cardinality({})
    BY <1>1, <2>1, FS_Union
  <2> QED BY <1>2, <2>2, FS_EmptySet
<1>6. 3 * Cardinality(S \cap V) >= Cardinality(V)
  BY <1>2, <1>3, <1>4, <1>5
<1> QED BY <1>2, <1>6
LEMMA CounterExact ==
    ASSUME NEW k \in Nat, k < UINT8 PROVE k % UINT8 = k
<1>1. UINT8 \in Nat \ {0}
  BY SealsAssumption DEF SealsAssumption, CounterAssumption
<1>2. /\ k % UINT8 \in 0 .. UINT8 - 1
      /\ k = UINT8 * (k \div UINT8) + (k % UINT8) /\ k \div UINT8 \in Nat
  BY <1>1, Z3
<1>3. k \div UINT8 = 0
  BY <1>1, <1>2, Z3
<1> QED BY <1>1, <1>2, <1>3

LEMMA TwoThirds ==
    ASSUME NEW s \in Nat, NEW w \in Nat, 3 * s > 2 * w
    PROVE  s > (w * 2) \div 3
OBVIOUS

\* What the relayer needs of a block that follows the one trusted is there.
LEMMA NextVerified ==
    ASSUME StoredInv, CountersSuffice, OnlyChainBlocks, Whole(latest_height),
           latest_height + 1 \in Height
    PROVE  /\ sufficientVoting(blocks[latest_height + 1])
           /\ verify(RelayedHeader(latest_height + 1))
<1> DEFINE now == latest_height
           next == latest_height + 1
           trusted == blocks[now].validators
           list == blocks[next].validators
           S == Elements(blocks[next].seals)
           V == Elements(trusted)
           W == Elements(list)
           seals == ValidateAndGetCommitSeals(blocks[next])
<1>1. /\ blocks \in Chains /\ Height = 1 .. Len(blocks) /\ Len(blocks) \in Nat
      /\ now \in StateHeight /\ consensusStates[now] # None
      /\ now \in DOMAIN consensusStates
  BY BlockLists
     DEF StoredInv, HighestInv, ChainFixed, LatestIsHighest, Height
<1>2. /\ now \in Height /\ next \in Height \ {1} /\ next - 1 = now
      /\ next > now /\ consensusStates[now].root = "chain"
  BY <1>1 DEF OnlyChainBlocks, StateHeight
<1>3. ListAssumed(trusted) /\ ListAssumed(list)
  BY <1>1, <1>2, BlockLists DEF Height
<1>4. /\ Len(trusted) \in Nat /\ Len(trusted) < UINT8
      /\ Len(list) \in Nat /\ Len(list) < UINT8 /\ UINT8 \in Nat \ {0}
  BY <1>1, <1>2, <1>3, SealsAssumption
     DEF CountersSuffice, Height, ListAssumed, SealsAssumption, CounterAssumption
<1>5. consensusStates[now].validators = trusted
  <2> DEFINE stored == consensusStates[now].validators
  <2>1. OfBlock(now)
    BY <1>1, <1>2 DEF StoredInv
  <2>2. /\ stored \in Seq(V \cup {None}) /\ Len(stored) = Len(trusted)
        /\ \A i \in DOMAIN trusted : stored[i] \in {None, trusted[i]}
    BY <2>1 DEF OfBlock
  <2>3. DOMAIN stored = 1 .. Len(trusted) /\ DOMAIN trusted = 1 .. Len(trusted)
    BY <1>3, <2>2 DEF ListAssumed
  <2>4. \A i \in DOMAIN stored : stored[i] # None
    BY DEF Whole, Elements
  <2>5. \A i \in 1 .. Len(trusted) : stored[i] = trusted[i]
    BY <2>2, <2>3, <2>4
  <2>6. trusted \in Seq(V)
    BY <1>3 DEF ListAssumed
  <2> HIDE DEF stored, trusted
  <2> QED BY <2>2, <2>5, <2>6 DEF stored
<1>6. /\ S \subseteq W /\ 3 * Cardinality(S) > 2 * Cardinality(W)
      /\ Cardinality((V \ W) \cup (W \ V)) <= 1
  BY <1>1, <1>2, SealsAssumption DEF SealsAssumption, ChainsAssumption, Height
<1>7. /\ IsFiniteSet(V) /\ Cardinality(V) = Len(trusted)
      /\ IsFiniteSet(W) /\ Cardinality(W) = Len(list)
  BY <1>3, DistinctElements DEF ListAssumed
<1>8. IsFiniteSet(S) /\ Cardinality(S) \in Nat
  BY <1>6, <1>7, FS_Subset, FS_CardinalityType
<1>9. Cardinality(S \cap W) > (Len(list) * 2) \div 3
  <2>1. S \cap W = S
    BY <1>6
  <2>2. 3 * Cardinality(S) > 2 * Len(list)
    BY <1>6, <1>7
  <2> HIDE DEF S, W, list
  <2> QED BY <1>4, <1>8, <2>1, <2>2, TwoThirds
<1>10. sufficientVoting(blocks[next])
  <2>1. S \cap W = W \cap S
    OBVIOUS
  <2> QED BY <1>9, <2>1 DEF sufficientVoting
<1>11. /\ marked(trusted, seals) = {j \in DOMAIN trusted : trusted[j] \in S}
       /\ {i \in DOMAIN seals : seals[i] = list[i]}
            = {i \in DOMAIN list : list[i] \in S}
  BY <1>3, <1>6, SealsCounted
<1>12. verifyCommitSealsTrusting(trusted, seals)
  <2>0. LET P == {j \in DOMAIN trusted : trusted[j] \in S} IN
          /\ Cardinality(P) = Cardinality(S \cap V)
          /\ Cardinality(P) \in Nat /\ Cardinality(P) <= Len(trusted)
    <3> HIDE DEF S, trusted
    <3> QED BY <1>3, CountedByAddress
  <2>1. /\ Cardinality(marked(trusted, seals)) = Cardinality(S \cap V)
        /\ Cardinality(marked(trusted, seals)) \in Nat
        /\ Cardinality(marked(trusted, seals)) <= Len(trusted)
    BY <1>11, <2>0
  <2>2. Cardinality(S \cap V) >= Len(trusted) \div 3
    BY <1>6, <1>7, ThirdRemains
  <2>3. None \notin V
    BY <1>3 DEF ListAssumed
  <2> HIDE DEF S, V, trusted, seals
  <2>4. Cardinality(marked(trusted, seals)) % UINT8
          = Cardinality(marked(trusted, seals))
    BY <1>4, <2>1, CounterExact
  <2> QED BY <2>1, <2>2, <2>3, <2>4 DEF verifyCommitSealsTrusting, V
<1>13. verifyCommitSeals(list, seals)
  <2> DEFINE P == {i \in DOMAIN seals : seals[i] = list[i]}
  <2>0. LET Q == {i \in DOMAIN list : list[i] \in S} IN
          /\ Cardinality(Q) = Cardinality(S \cap W)
          /\ Cardinality(Q) \in Nat /\ Cardinality(Q) <= Len(list)
    <3> HIDE DEF S, list
    <3> QED BY <1>3, CountedByAddress
  <2>1. /\ Cardinality(P) = Cardinality(S \cap W)
        /\ Cardinality(P) \in Nat /\ Cardinality(P) <= Len(list)
    BY <1>11, <2>0
  <2>2. DOMAIN seals \subseteq DOMAIN list
    BY DEF ValidateAndGetCommitSeals
  <2> HIDE DEF P, S, W, list, seals
  <2>3. Cardinality(P) % UINT8 = Cardinality(P)
    BY <1>4, <2>1, CounterExact
  <2> QED BY <1>9, <2>1, <2>2, <2>3 DEF verifyCommitSeals, P
<1>14. RelayedHeader(next) =
         [height |-> next, validators |-> list, root |-> "chain",
          seals |-> seals, trusted_height |-> now]
  BY DEF RelayedHeader, Header
<1> HIDE DEF now, next, list, seals, trusted
<1>15. verify(RelayedHeader(next))
  BY <1>1, <1>2, <1>5, <1>12, <1>13, <1>14 DEF verify
<1> QED BY <1>10, <1>15 DEF next

\* An update that is accepted for a block stores what is of the block, and one
\* that is of no block is not stored as the chain's.
LEMMA StoredStep ==
    ASSUME StoredInv, NEW h \in StateHeight, NEW list \in Lists,
           NEW root \in {"chain", "other"},
           root = "chain" => (h \in Height /\ list = blocks[h].validators),
           NEW n \in Nat, NEW seals, DOMAIN seals = 1 .. n, NEW t,
           checkHeaderAndUpdateState(Header(h, list, root, seals, t)),
           UNCHANGED <<blocks, faulty>>
    PROVE  StoredInv'
<1> DEFINE stored == sealedValidators(list, seals)
<1>1. HighestInv'
  BY HighestStep DEF StoredInv
<1>2. consensusStates' = [consensusStates EXCEPT ![h] =
                            [validators |-> stored, root |-> root]]
  BY DEF checkHeaderAndUpdateState, Header
<1>3. ASSUME root = "chain"
      PROVE  /\ stored \in Seq(Elements(list) \cup {None})
             /\ Len(stored) = Len(list)
             /\ \A i \in DOMAIN list : stored[i] \in {None, list[i]}
  <2>1. ListAssumed(list)
    BY <1>3, BlockLists DEF StoredInv, HighestInv, ChainFixed, Height
  <2>2. /\ list \in Seq(Elements(list))
        /\ \A i \in DOMAIN list : list[i] \in Elements(list)
        /\ Len(list) \in Nat /\ DOMAIN list = 1 .. Len(list)
    BY <2>1 DEF ListAssumed, Elements
  <2>3. \A i \in DOMAIN list : stored[i] \in {None, list[i]}
    BY DEF sealedValidators
  <2>4. stored \in [1 .. Len(list) -> Elements(list) \cup {None}]
    BY <2>2 DEF sealedValidators
  <2> HIDE DEF stored
  <2> QED BY <2>2, <2>3, <2>4
<1>4. Height' = Height /\ Height \subseteq StateHeight
  BY BlockLists DEF StoredInv, HighestInv, ChainFixed, Height, StateHeight
<1>5. h \in DOMAIN consensusStates /\ Height \subseteq DOMAIN consensusStates
  BY <1>4 DEF StoredInv, HighestInv, ChainFixed
<1> HIDE DEF stored
<1>6. ASSUME NEW k \in Height, consensusStates'[k] # None,
             consensusStates'[k].root = "chain"
      PROVE  OfBlock(k)'
  <2>1. CASE k = h
    <3>1. consensusStates'[k] = [validators |-> stored, root |-> root]
      BY <1>2, <1>5, <2>1
    <3>2. root = "chain" /\ consensusStates'[k].validators = stored
      BY <1>6, <3>1
    <3>3. list = blocks'[k].validators /\ k \in Height'
      BY <1>4, <2>1, <3>2
    <3> HIDE DEF Height
    <3> QED BY <1>3, <1>6, <3>2, <3>3 DEF OfBlock
  <2>2. CASE k # h
    <3>1. consensusStates'[k] = consensusStates[k]
      BY <1>2, <1>5, <2>2
    <3>2. OfBlock(k)
      BY <1>6, <3>1 DEF StoredInv
    <3> QED BY <3>1, <3>2 DEF OfBlock, Height
  <2> QED BY <2>1, <2>2
<1> QED BY <1>1, <1>4, <1>6 DEF StoredInv
LEMMA StoredInit == Init => StoredInv
<1> SUFFICES ASSUME Init PROVE StoredInv
  OBVIOUS
<1>1. HighestInv
  BY HighestInit
<1>2. ASSUME NEW h \in Height, consensusStates[h] # None PROVE OfBlock(h)
  <2>1. h \in StateHeight
    BY BlockLists DEF Init, Height, StateHeight
  <2>2. h = 1 /\ consensusStates[1] = [validators |-> blocks[1].validators,
                                       root |-> "chain"]
    BY <1>2, <2>1 DEF Init, StateHeight
  <2>3. ListAssumed(blocks[1].validators)
    BY <1>2, <2>2, BlockLists DEF Init, Height
  <2>4. blocks[1].validators \in
          Seq(Elements(blocks[1].validators) \cup {None})
    BY <2>3 DEF ListAssumed
  <2> QED BY <2>2, <2>4 DEF OfBlock
<1> QED BY <1>1, <1>2 DEF StoredInv

LEMMA StoredNext == StoredInv /\ [Next]_vars => StoredInv'
<1> SUFFICES ASSUME StoredInv, [Next]_vars PROVE StoredInv'
  OBVIOUS
<1>1. ASSUME NEW h \in Height
      PROVE  /\ h \in StateHeight /\ blocks[h].validators \in Lists
             /\ ListAssumed(blocks[h].validators)
  BY <1>1, BlockLists
     DEF StoredInv, HighestInv, ChainFixed, StateHeight, Height, Lists
<1>2. ASSUME NEW h \in Height, Relay(h) PROVE StoredInv'
  <2>1. /\ Len(blocks[h].validators) \in Nat
        /\ DOMAIN ValidateAndGetCommitSeals(blocks[h])
             = 1 .. Len(blocks[h].validators)
    BY <1>1 DEF ListAssumed, ValidateAndGetCommitSeals
  <2>2. checkHeaderAndUpdateState(
          Header(h, blocks[h].validators, "chain",
                 ValidateAndGetCommitSeals(blocks[h]), latest_height))
        /\ UNCHANGED <<blocks, faulty>>
    BY <1>2 DEF Relay, RelayedHeader
  <2> QED BY <1>1, <2>1, <2>2, StoredStep
<1>3. ASSUME NEW h \in StateHeight, NEW root \in {"chain", "other"},
             Submit(h, root), root = "chain" => h \in Height
      PROVE  StoredInv'
  <2>1. PICK list \in IF root = "chain" THEN {blocks[h].validators}
                      ELSE OtherLists,
             n \in 0 .. MaxSeals, t \in DOMAIN consensusStates :
          \E seals \in [1 .. n -> Signers(h, root) \cup {None}] :
            checkHeaderAndUpdateState(Header(h, list, root, seals, t))
    BY <1>3 DEF Submit
  <2>2. PICK seals \in [1 .. n -> Signers(h, root) \cup {None}] :
          checkHeaderAndUpdateState(Header(h, list, root, seals, t))
    BY <2>1
  <2>3. list \in Lists
    BY <1>1, <1>3 DEF Lists
  <2>4. n \in Nat /\ DOMAIN seals = 1 .. n /\ UNCHANGED <<blocks, faulty>>
    BY <1>3 DEF Submit
  <2>5. root = "chain" => (h \in Height /\ list = blocks[h].validators)
    BY <1>3
  <2> QED BY <2>2, <2>3, <2>4, <2>5, StoredStep
<1>4. CASE UNCHANGED vars
  BY <1>4 DEF StoredInv, HighestInv, ChainFixed, StateHeight, LatestIsHighest,
              OfBlock, Height, vars
<1> QED BY <1>1, <1>2, <1>3, <1>4 DEF Next, StoredInv, HighestInv, ChainFixed

\* However the validators change, at most one address per block, and whatever
\* was submitted before, a client whose latest consensus state is a whole one of
\* the chain accepts the header besu.go makes of the next block, for validator
\* sets of any size below the range of the contract's counters.
THEOREM NextBlockAccepted ==
    CountersSuffice => (Spec => []NextBlockVerifiable)
<1> SUFFICES ASSUME CountersSuffice PROVE Spec => []NextBlockVerifiable
  OBVIOUS
<1>1. StoredInv => NextBlockVerifiable
  BY NextVerified DEF NextBlockVerifiable
<1> QED BY <1>1, StoredInit, StoredNext, PTL DEF Spec
=============================================================================
