------------------------ MODULE IBCConnection_proofs -------------------------
(***************************************************************************)
(* The connection handshake, between chains whose clients track each       *)
(* other: ends that are OPEN agree, whatever is relayed and in whatever    *)
(* order, and however old the blocks are that the proofs are taken from.   *)
(***************************************************************************)
EXTENDS IBCHandler_proofs

\* Chains come in pairs.  validateSelfClient does not enforce it: this is what
\* the deployment has to provide for the handshake to be safe.
Paired == \A c \in Chain : \A d \in Remotes[c] : d # c /\ Remotes[d] = {c}

-----------------------------------------------------------------------------
(* The inductive invariant                                                 *)

\* Clients track a remote chain and know only blocks it has sealed.
ClientsKnowBlocks ==
    \A c \in Chain, id \in ClientId :
      IF clientStates[c][id] = None
      THEN consensusStates[c][id] = {}
      ELSE /\ clientStates[c][id].chain \in Remotes[c]
           /\ consensusStates[c][id] \subseteq
                1 .. Len(blocks[clientStates[c][id].chain])

\* Identifiers still to be generated are unused; used ones name a client.
ConnectionsAllocated ==
    \A c \in Chain, id \in ConnectionId :
      IF id >= nextConnectionSequence[c]
      THEN connections[c][id].state = "UNINITIALIZED_UNSPECIFIED"
      ELSE connections[c][id].client_id \in ClientId

\* What a sealed block shows of an end is a stage the end has passed through.
SealedForward ==
    \A c \in Chain, id \in ConnectionId : \A h \in 1 .. Len(blocks[c]) :
      MovesForward(blocks[c][h].connections[id], connections[c][id])

\* An end that has verified another one names it.
Linked(c, e) ==
    /\ e.client_id \in ClientId
    /\ clientStates[c][e.client_id] # None
    /\ e.counterparty.connection_id \in ConnectionId

peerOf(c, e) ==
    connections[trackedChain(c, e.client_id)][e.counterparty.connection_id]

Answered(c, e) == Linked(c, e) /\ peerOf(c, e).state \in {"INIT", "OPEN"}

\* A TRYOPEN end, now or in a sealed block, answers an end that is INIT or OPEN.
TryOpenAnswered ==
    \A c \in Chain, id \in ConnectionId :
      connections[c][id].state = "TRYOPEN" => Answered(c, connections[c][id])

SealedTryOpenAnswered ==
    \A c \in Chain, id \in ConnectionId : \A h \in 1 .. Len(blocks[c]) :
      blocks[c][h].connections[id].state = "TRYOPEN" =>
        Answered(c, blocks[c][h].connections[id])

\* End e, the value of `id` on chain c, agrees with the end it names.
Agreed(c, id, e) ==
    /\ Linked(c, e)
    /\ peerOf(c, e).state \in {"TRYOPEN", "OPEN"}
    /\ peerOf(c, e).client_id = e.counterparty.client_id
    /\ peerOf(c, e).counterparty.client_id = e.client_id
    /\ peerOf(c, e).counterparty.connection_id = id
    /\ peerOf(c, e).versions = e.versions
    /\ peerOf(c, e).delay_period = e.delay_period

OpenAgreed ==
    \A c \in Chain, id \in ConnectionId :
      connections[c][id].state = "OPEN" => Agreed(c, id, connections[c][id])

ConnectionInv ==
    /\ TypeOK
    /\ ClientsKnowBlocks
    /\ ConnectionsAllocated
    /\ SealedForward
    /\ TryOpenAnswered
    /\ SealedTryOpenAnswered
    /\ OpenAgreed

-----------------------------------------------------------------------------
(* Lemmas about the relation between two stages of an end                  *)

LEMMA ForwardTransitive ==
    ASSUME NEW e, NEW f, NEW g, MovesForward(e, f), MovesForward(f, g)
    PROVE  MovesForward(e, g)
BY DEF MovesForward

LEMMA ForwardAnswers ==
    ASSUME NEW e, NEW f, MovesForward(e, f), e.state \in {"INIT", "OPEN"}
    PROVE  f.state \in {"INIT", "OPEN"}
BY DEF MovesForward

\* What an end agreed to as TRYOPEN or OPEN is what it has later.
LEMMA ForwardKeeps ==
    ASSUME NEW e, NEW f, MovesForward(e, f), e.state \in {"TRYOPEN", "OPEN"}
    PROVE  /\ f.state \in {"TRYOPEN", "OPEN"}
           /\ f.client_id = e.client_id
           /\ f.counterparty = e.counterparty
           /\ f.versions = e.versions
           /\ f.delay_period = e.delay_period
BY DEF MovesForward

LEMMA RemoteUnique ==
    ASSUME Paired, NEW c \in Chain, NEW d \in Remotes[c], NEW e \in Remotes[c]
    PROVE  /\ d = e /\ d \in Chain /\ d # c
           /\ c \in Remotes[d]
BY ChainAssumption DEF Paired

LEMMA KnownClient ==
    ASSUME ClientTypeOK, ClientsKnowBlocks, NEW c \in Chain, NEW id \in ClientId,
           clientStates[c][id] # None
    PROVE  /\ clientStates[c][id] \in ClientState
           /\ trackedChain(c, id) \in Remotes[c]
           /\ trackedChain(c, id) \in Chain
           /\ consensusStates[c][id] \subseteq 1 .. Len(blocks[trackedChain(c, id)])
BY ChainAssumption DEF ClientTypeOK, ClientsKnowBlocks, trackedChain, ClientState

\* A proof shows an end as it was, and the end has only moved forward since.
LEMMA VerifiedConnection ==
    ASSUME ClientTypeOK, ClientsKnowBlocks, SealedForward, NEW c \in Chain,
           NEW clientId \in ClientId, NEW height, NEW prefix, NEW id, NEW e,
           verifyConnectionState(c, clientId, height, prefix, id, e)
    PROVE  /\ clientStates[c][clientId] # None
           /\ id \in ConnectionId
           /\ height \in 1 .. Len(blocks[trackedChain(c, clientId)])
           /\ blocks[trackedChain(c, clientId)][height].connections[id] = e
           /\ MovesForward(e, connections[trackedChain(c, clientId)][id])
<1>1. /\ clientStates[c][clientId] # None
      /\ height \in consensusStates[c][clientId]
      /\ id \in ConnectionId
      /\ blocks[trackedChain(c, clientId)][height].connections[id] = e
  BY DEF verifyConnectionState, validateArgs, clientStateFound, provenStore,
         trackedChain
<1> QED
  BY <1>1, KnownClient DEF SealedForward

-----------------------------------------------------------------------------
(* Steps of clients                                                        *)

\* Clients stay, go on tracking the same chain, and learn only sealed blocks.
LEMMA ClientStep ==
    ASSUME Paired, TypeOK, ClientsKnowBlocks, NEW c \in Chain, ClientNext(c)
    PROVE  /\ ClientsKnowBlocks'
           /\ \A d \in Chain, id \in ClientId :
                clientStates[d][id] # None =>
                  /\ clientStates'[d][id] # None
                  /\ trackedChain(d, id)' = trackedChain(d, id)
<1> USE DEF TypeOK, HostTypeOK
<1>1. CASE RegisterClient(c)
  BY <1>1 DEF RegisterClient, registerClient, ClientsKnowBlocks, trackedChain
<1>2. CASE CreateClient(c)
  <2>1. PICK type \in ClientType, chain \in Remotes[c] :
          \E height \in SubmittedHeights(chain) :
            createClient(c, type, chain, height)
    BY <1>2 DEF CreateClient
  <2>2. PICK height \in SubmittedHeights(chain) :
          createClient(c, type, chain, height)
    BY <2>1
  <2> DEFINE new == [chain |-> chain, latest_height |-> height]
  <2>3. PICK id \in ClientId :
          /\ clientStates' = [clientStates EXCEPT ![c][id] = new]
          /\ consensusStates' = [consensusStates EXCEPT ![c][id] = @ \cup {height}]
    BY <2>2 DEF createClient, setClientState, setConsensusState
  <2>4. UNCHANGED blocks
    BY <2>2 DEF createClient
  <2>5. /\ chain \in Chain
        /\ height \in 1 .. Len(blocks[chain])
    BY ChainAssumption DEF SubmittedHeights
  <2>6. new # None /\ new.chain = chain
    BY <2>5, SlotAssumption, SubmittedHeightType DEF ClientState
  <2>7. clientStates[c][id] # None => clientStates[c][id].chain = chain
    BY RemoteUnique, KnownClient DEF trackedChain
  <2>8. consensusStates[c][id] \subseteq 1 .. Len(blocks[chain])
    BY <2>7, KnownClient DEF ClientsKnowBlocks
  <2> HIDE DEF new
  <2> QED
    BY <2>3, <2>4, <2>5, <2>6, <2>7, <2>8
    DEF ClientTypeOK, ClientsKnowBlocks, trackedChain
<1>3. CASE \E id \in ClientId : UpdateClient(c, id)
  <2>1. PICK id \in ClientId : UpdateClient(c, id)
    BY <1>3
  <2>2. clientStates[c][id] # None
    BY <2>1 DEF UpdateClient, clientStateFound
  <2>3. PICK height \in SubmittedHeights(clientStates[c][id].chain),
             trustedHeight \in consensusStates[c][id] :
          updateClient(c, id, height, trustedHeight)
    BY <2>1 DEF UpdateClient
  <2> DEFINE new == [clientStates[c][id] EXCEPT
                       !.latest_height = IF height > @ THEN height ELSE @]
  <2>4. /\ clientStates' = [clientStates EXCEPT ![c][id] = new]
        /\ consensusStates' = [consensusStates EXCEPT ![c][id] = @ \cup {height}]
        /\ UNCHANGED blocks
    BY <2>3 DEF updateClient, setClientState, setConsensusState
  <2>5. height \in 1 .. Len(blocks[clientStates[c][id].chain])
    BY DEF SubmittedHeights
  <2>6. clientStates[c][id] \in ClientState
    BY <2>2, KnownClient
  <2>7. /\ new \in ClientState
        /\ new.chain = clientStates[c][id].chain
    BY <2>5, <2>6, KnownClient, <2>2 DEF ClientState, Height, trackedChain
  <2>8. new # None
    BY <2>7, SlotAssumption
  <2> HIDE DEF new
  <2> QED
    BY <2>2, <2>4, <2>5, <2>7, <2>8
    DEF ClientTypeOK, ClientsKnowBlocks, trackedChain
<1> QED
  BY <1>1, <1>2, <1>3 DEF ClientNext

\* What holds of the ends does not depend on what else clients learn.
LEMMA ClientStepInv ==
    ASSUME Paired, ConnectionInv, NEW c \in Chain, ClientNext(c)
    PROVE  ConnectionInv'
<1>1. TypeOK'
  BY ClientStepType DEF ConnectionInv
<1>2. /\ ClientsKnowBlocks'
      /\ \A d \in Chain, id \in ClientId :
           clientStates[d][id] # None =>
             /\ clientStates'[d][id] # None
             /\ trackedChain(d, id)' = trackedChain(d, id)
  BY ClientStep DEF ConnectionInv
<1>3. UNCHANGED <<connections, nextConnectionSequence, blocks>>
  BY DEF ClientNext, RegisterClient, registerClient, CreateClient, createClient,
         UpdateClient, updateClient, connectionVars
<1>4. ConnectionsAllocated' /\ SealedForward'
  BY <1>3 DEF ConnectionInv, ConnectionsAllocated, SealedForward
<1>5. \A d \in Chain : \A e : Linked(d, e) =>
        Linked(d, e)' /\ peerOf(d, e)' = peerOf(d, e)
  BY <1>2, <1>3 DEF Linked, peerOf
<1>6. TryOpenAnswered' /\ SealedTryOpenAnswered'
  BY <1>3, <1>5
  DEF ConnectionInv, TryOpenAnswered, SealedTryOpenAnswered, Answered
<1>7. OpenAgreed'
  BY <1>3, <1>5 DEF ConnectionInv, OpenAgreed, Agreed
<1> QED
  BY <1>1, <1>2, <1>4, <1>6, <1>7 DEF ConnectionInv

-----------------------------------------------------------------------------
(* Steps that seal a block, and steps that change neither                  *)

\* Blocks are only added, and the one that is added shows the store as it is.
LEMMA BlockAppended ==
    ASSUME TypeOK, NEW c \in Chain, SealBlock(c), NEW d \in Chain
    PROVE  /\ Len(blocks[d]) \in Nat
           /\ Len(blocks'[d]) >= Len(blocks[d])
           /\ \A h \in 1 .. Len(blocks'[d]) :
                \/ h \in 1 .. Len(blocks[d]) /\ blocks'[d][h] = blocks[d][h]
                \/ blocks'[d][h] = Store(d)
<1>1. blocks' = [blocks EXCEPT ![c] = Append(blocks[c], Store(c))]
  BY DEF SealBlock
<1>2. blocks \in [Chain -> Seq(StoreType)]
  BY DEF TypeOK, HostTypeOK, BlocksTypeOK
<1>3. CASE d = c
  <2>1. blocks'[d] = Append(blocks[d], Store(d))
    BY <1>1, <1>2, <1>3
  <2> QED
    BY <1>2, <2>1
<1>4. CASE d # c
  <2>1. blocks'[d] = blocks[d]
    BY <1>1, <1>2, <1>4
  <2> QED
    BY <1>2, <2>1
<1> QED
  BY <1>3, <1>4

\* The new block shows the ends as they are.
LEMMA SealBlockInv ==
    ASSUME ConnectionInv, NEW c \in Chain, SealBlock(c), UNCHANGED eventVars
    PROVE  ConnectionInv'
<1>1. TypeOK'
  BY SealStepType DEF ConnectionInv
<1>2. /\ UNCHANGED <<clientStates, consensusStates, connections,
                    nextConnectionSequence>>
      /\ blocks' = [blocks EXCEPT ![c] = Append(blocks[c], Store(c))]
  BY DEF SealBlock, clientVars, connectionVars
<1>3. \A d \in Chain :
        /\ Len(blocks[d]) \in Nat
        /\ Len(blocks'[d]) >= Len(blocks[d])
        /\ \A h \in 1 .. Len(blocks'[d]) :
             \/ h \in 1 .. Len(blocks[d]) /\ blocks'[d][h] = blocks[d][h]
             \/ blocks'[d][h] = Store(d)
  BY BlockAppended DEF ConnectionInv
<1>4. \A d \in Chain : Store(d).connections = connections[d]
  BY DEF Store
<1>5. ClientsKnowBlocks'
  <2>1. \A d \in Chain, id \in ClientId :
          clientStates[d][id] # None =>
            /\ clientStates[d][id].chain \in Chain
            /\ consensusStates[d][id] \subseteq
                 1 .. Len(blocks[clientStates[d][id].chain])
    BY KnownClient DEF ConnectionInv, TypeOK, HostTypeOK, trackedChain
  <2> QED
    BY <1>2, <1>3, <2>1 DEF ConnectionInv, ClientsKnowBlocks
<1>6. ConnectionsAllocated'
  BY <1>2 DEF ConnectionInv, ConnectionsAllocated
<1>7. SealedForward'
  <2>1. \A e : MovesForward(e, e)
    BY DEF MovesForward
  <2> QED
    BY <1>2, <1>3, <1>4, <2>1 DEF ConnectionInv, SealedForward
<1>8. \A d \in Chain : \A e : Answered(d, e)' = Answered(d, e)
  BY <1>2 DEF Answered, Linked, peerOf, trackedChain
<1>9. TryOpenAnswered'
  BY <1>2, <1>8 DEF ConnectionInv, TryOpenAnswered
<1>10. SealedTryOpenAnswered'
  BY <1>2, <1>3, <1>4, <1>8
  DEF ConnectionInv, TryOpenAnswered, SealedTryOpenAnswered
<1>11. \A d \in Chain, k \in ConnectionId : \A e :
         Agreed(d, k, e)' = Agreed(d, k, e)
  BY <1>2 DEF Agreed, Linked, peerOf, trackedChain
<1>12. OpenAgreed'
  BY <1>2, <1>11 DEF ConnectionInv, OpenAgreed
<1> QED
  BY <1>1, <1>5, <1>6, <1>7, <1>9, <1>10, <1>12 DEF ConnectionInv

LEMMA OtherStepInv ==
    ASSUME ConnectionInv, TypeOK', UNCHANGED <<clientVars, connectionVars, blocks>>
    PROVE  ConnectionInv'
<1>1. UNCHANGED <<clientStates, consensusStates, connections,
                  nextConnectionSequence, blocks>>
  BY DEF clientVars, connectionVars
<1>2. ClientsKnowBlocks' /\ ConnectionsAllocated' /\ SealedForward'
  BY <1>1
  DEF ConnectionInv, ClientsKnowBlocks, ConnectionsAllocated, SealedForward
<1>3. \A c \in Chain : \A e : Answered(c, e)' = Answered(c, e)
  BY <1>1 DEF Answered, Linked, peerOf, trackedChain
<1>4. TryOpenAnswered' /\ SealedTryOpenAnswered'
  BY <1>1, <1>3 DEF ConnectionInv, TryOpenAnswered, SealedTryOpenAnswered
<1>5. \A c \in Chain, id \in ConnectionId : \A e :
        Agreed(c, id, e)' = Agreed(c, id, e)
  BY <1>1 DEF Agreed, Linked, peerOf, trackedChain
<1>6. OpenAgreed'
  BY <1>1, <1>5 DEF ConnectionInv, OpenAgreed
<1> QED
  BY <1>2, <1>4, <1>6 DEF ConnectionInv

-----------------------------------------------------------------------------
(* Steps of the handshake.  Whatever handler it is, a step that moves one  *)
(* end forward to a value that is answered or agreed is safe.              *)

EndsForward ==
    \A c \in Chain, id \in ConnectionId :
      MovesForward(connections[c][id], connections'[c][id])

LEMMA ChangedEndInv ==
    ASSUME Paired, ConnectionInv, TypeOK', UNCHANGED <<clientVars, blocks>>,
           ConnectionsAllocated',
           NEW c \in Chain, NEW id \in ConnectionId, NEW f,
           connections' = [connections EXCEPT ![c][id] = f],
           MovesForward(connections[c][id], f),
           f.state = "TRYOPEN" => Answered(c, f),
           f.state = "OPEN" => Agreed(c, id, f)
    PROVE  ConnectionInv' /\ EndsForward
<1>1. UNCHANGED <<clientStates, consensusStates, blocks>>
  BY DEF clientVars
<1>2. \A d \in Chain, k \in ConnectionId :
        /\ connections'[d][k] = IF d = c /\ k = id THEN f ELSE connections[d][k]
        /\ MovesForward(connections[d][k], connections'[d][k])
  BY DEF ConnectionInv, TypeOK, HostTypeOK, ConnectionTypeOK, MovesForward
<1>3. ClientsKnowBlocks'
  BY <1>1 DEF ConnectionInv, ClientsKnowBlocks
<1>4. SealedForward'
  BY <1>1, <1>2, ForwardTransitive DEF ConnectionInv, SealedForward
<1>5. \A d \in Chain : \A e : Linked(d, e) =>
        /\ Linked(d, e)'
        /\ trackedChain(d, e.client_id)' = trackedChain(d, e.client_id)
        /\ trackedChain(d, e.client_id) \in Chain
        /\ trackedChain(d, e.client_id) # d
        /\ MovesForward(peerOf(d, e), peerOf(d, e)')
  <2> SUFFICES ASSUME NEW d \in Chain, NEW e, Linked(d, e)
               PROVE  /\ Linked(d, e)'
                      /\ trackedChain(d, e.client_id)' = trackedChain(d, e.client_id)
                      /\ trackedChain(d, e.client_id) \in Chain
                      /\ trackedChain(d, e.client_id) # d
                      /\ MovesForward(peerOf(d, e), peerOf(d, e)')
    OBVIOUS
  <2>1. Linked(d, e)' /\ trackedChain(d, e.client_id)' = trackedChain(d, e.client_id)
    BY <1>1 DEF Linked, trackedChain
  <2>2. /\ trackedChain(d, e.client_id) \in Chain
        /\ trackedChain(d, e.client_id) # d
    BY KnownClient, RemoteUnique DEF Linked, ConnectionInv, TypeOK, HostTypeOK
  <2> QED
    BY <1>2, <2>1, <2>2 DEF Linked, peerOf
<1>6. \A d \in Chain : \A e : Answered(d, e) => Answered(d, e)'
  BY <1>5, ForwardAnswers DEF Answered
<1>7. TryOpenAnswered'
  BY <1>2, <1>6 DEF ConnectionInv, TryOpenAnswered
<1>8. SealedTryOpenAnswered'
  BY <1>1, <1>6 DEF ConnectionInv, SealedTryOpenAnswered
<1>9. \A d \in Chain, k \in ConnectionId : \A e :
        Agreed(d, k, e) => Agreed(d, k, e)'
  BY <1>5, ForwardKeeps DEF Agreed
<1>10. OpenAgreed'
  BY <1>2, <1>9 DEF ConnectionInv, OpenAgreed
<1> QED
  BY <1>2, <1>3, <1>4, <1>7, <1>8, <1>10 DEF ConnectionInv, EndsForward

\* A generated identifier was unused, and the counter is past it.
LEMMA NewConnection ==
    ASSUME TypeOK, ConnectionsAllocated, NEW c \in Chain, NEW f,
           NEW id \in ConnectionId, f.client_id \in ClientId,
           generateConnectionIdentifier(c, id), setConnection(c, id, f)
    PROVE  /\ connections[c][id].state = "UNINITIALIZED_UNSPECIFIED"
           /\ ConnectionsAllocated'
<1>1. /\ id = nextConnectionSequence[c]
      /\ nextConnectionSequence' = [nextConnectionSequence EXCEPT ![c] = id + 1]
      /\ connections' = [connections EXCEPT ![c][id] = f]
  BY DEF generateConnectionIdentifier, setConnection
<1>2. /\ connections \in [Chain -> [ConnectionId -> ConnectionEnd]]
      /\ nextConnectionSequence \in [Chain -> 0 .. MaxConnections]
  BY DEF TypeOK, HostTypeOK, ConnectionTypeOK
<1>3. connections[c][id].state = "UNINITIALIZED_UNSPECIFIED"
  BY <1>1, <1>2, NumberAssumption DEF ConnectionsAllocated, ConnectionId
<1>4. \A d \in Chain, k \in ConnectionId :
        /\ k \in Nat
        /\ connections'[d][k] = IF d = c /\ k = id THEN f ELSE connections[d][k]
        /\ nextConnectionSequence'[d] =
              IF d = c THEN id + 1 ELSE nextConnectionSequence[d]
  BY <1>1, <1>2, NumberAssumption DEF ConnectionId
<1>5. ASSUME NEW d \in Chain, NEW k \in ConnectionId
      PROVE  IF k >= nextConnectionSequence'[d]
             THEN connections'[d][k].state = "UNINITIALIZED_UNSPECIFIED"
             ELSE connections'[d][k].client_id \in ClientId
  <2>1. IF k >= nextConnectionSequence[d]
        THEN connections[d][k].state = "UNINITIALIZED_UNSPECIFIED"
        ELSE connections[d][k].client_id \in ClientId
    BY DEF ConnectionsAllocated
  <2>2. k \in Nat /\ id \in Nat /\ nextConnectionSequence[d] \in Nat
    BY <1>2, <1>4, NumberAssumption
  <2> QED
    BY <1>1, <1>4, <2>1, <2>2
<1> QED
  BY <1>3, <1>5 DEF ConnectionsAllocated

\* A changed end keeps its client.
LEMMA ChangedConnection ==
    ASSUME TypeOK, ConnectionsAllocated, NEW c \in Chain, NEW f,
           NEW id \in ConnectionId, connectionFound(c, id),
           f.client_id = connections[c][id].client_id,
           setConnection(c, id, f), UNCHANGED nextConnectionSequence
    PROVE  /\ connections[c][id].client_id \in ClientId
           /\ ConnectionsAllocated'
<1>1. connections' = [connections EXCEPT ![c][id] = f]
  BY DEF setConnection
<1>2. connections \in [Chain -> [ConnectionId -> ConnectionEnd]]
  BY DEF TypeOK, HostTypeOK, ConnectionTypeOK
<1>3. ~ (id >= nextConnectionSequence[c])
  BY DEF ConnectionsAllocated, connectionFound
<1>4. connections[c][id].client_id \in ClientId
  BY <1>3 DEF ConnectionsAllocated
<1> QED
  BY <1>1, <1>2, <1>3, <1>4 DEF ConnectionsAllocated

LEMMA OpenInitInv ==
    ASSUME Paired, ConnectionInv, TypeOK', NEW c \in Chain, ConnectionOpenInit(c)
    PROVE  ConnectionInv' /\ EndsForward
<1>1. PICK clientId \in ClientId, counterpartyClient \in ClientId,
           delay \in DelayPeriod, connectionId \in InitCounterpartyConnection,
           prefix \in Prefix :
        connectionOpenInit(c, clientId,
          [client_id |-> counterpartyClient, connection_id |-> connectionId,
           prefix |-> prefix], delay)
  BY DEF ConnectionOpenInit
<1> DEFINE f == [client_id |-> clientId, versions |-> getVersions,
                 state |-> "INIT", delay_period |-> delay,
                 counterparty |-> [client_id |-> counterpartyClient,
                                   connection_id |-> connectionId,
                                   prefix |-> prefix]]
<1>2. f.client_id \in ClientId /\ f.state = "INIT"
  OBVIOUS
<1>3. PICK id \in ConnectionId :
        generateConnectionIdentifier(c, id) /\ setConnection(c, id, f)
  BY <1>1 DEF connectionOpenInit
<1>4. UNCHANGED <<clientVars, blocks>>
  BY <1>1 DEF connectionOpenInit
<1> HIDE DEF f
<1>5. /\ connections[c][id].state = "UNINITIALIZED_UNSPECIFIED"
      /\ ConnectionsAllocated'
  BY <1>2, <1>3, NewConnection DEF ConnectionInv
<1>6. connections' = [connections EXCEPT ![c][id] = f]
  BY <1>3 DEF setConnection
<1> QED
  BY <1>2, <1>4, <1>5, <1>6, ChangedEndInv DEF MovesForward

\* Try has verified an INIT end, which may be OPEN by now, but not TRYOPEN.
LEMMA OpenTryInv ==
    ASSUME Paired, ConnectionInv, TypeOK', NEW c \in Chain, ConnectionOpenTry(c)
    PROVE  ConnectionInv' /\ EndsForward
<1>1. PICK clientId \in ClientId, counterpartyClient \in ClientId,
           delay \in DelayPeriod, connectionId \in ConnectionId,
           prefix \in Prefix, chain \in Chain, version \in Version,
           proofHeight \in 1 .. MaxHeight :
        connectionOpenTry(c, clientId,
          [client_id |-> counterpartyClient, connection_id |-> connectionId,
           prefix |-> prefix], delay, chain, <<version>>, proofHeight)
  BY DEF ConnectionOpenTry
<1> DEFINE counterparty == [client_id |-> counterpartyClient,
                            connection_id |-> connectionId, prefix |-> prefix]
           f == [client_id |-> clientId, versions |-> getVersions,
                 state |-> "TRYOPEN", delay_period |-> delay,
                 counterparty |-> counterparty]
           e == expectedInit(clientId, counterparty, delay, <<version>>)
<1>2. /\ f.client_id = clientId /\ f.state = "TRYOPEN"
      /\ f.counterparty.connection_id = connectionId
      /\ e.state = "INIT"
  BY DEF expectedInit
<1>3. verifyConnectionState(c, clientId, proofHeight, prefix, connectionId, e)
  BY <1>1 DEF connectionOpenTry
<1>4. PICK id \in ConnectionId :
        generateConnectionIdentifier(c, id) /\ setConnection(c, id, f)
  BY <1>1 DEF connectionOpenTry
<1>5. UNCHANGED <<clientVars, blocks>>
  BY <1>1 DEF connectionOpenTry
<1> HIDE DEF counterparty, e, f
<1>6. /\ connections[c][id].state = "UNINITIALIZED_UNSPECIFIED"
      /\ ConnectionsAllocated'
  BY <1>2, <1>4, NewConnection DEF ConnectionInv
<1>7. connections' = [connections EXCEPT ![c][id] = f]
  BY <1>4 DEF setConnection
<1>8. /\ clientStates[c][clientId] # None
      /\ MovesForward(e, connections[trackedChain(c, clientId)][connectionId])
  BY <1>3, VerifiedConnection DEF ConnectionInv, TypeOK, HostTypeOK
<1>9. Answered(c, f)
  BY <1>2, <1>8, ForwardAnswers DEF Answered, Linked, peerOf
<1> QED
  BY <1>2, <1>5, <1>6, <1>7, <1>9, ChangedEndInv DEF MovesForward

\* Ack has verified a TRYOPEN end that names this one.  So this one is INIT,
\* as crossing hellos never merge, and the other end still stands by its word.
LEMMA OpenAckInv ==
    ASSUME Paired, ConnectionInv, TypeOK', NEW c \in Chain, ConnectionOpenAck(c)
    PROVE  ConnectionInv' /\ EndsForward
<1>1. PICK id \in ConnectionId, connectionId \in ConnectionId, chain \in Chain,
           version \in Version, proofHeight \in 1 .. MaxHeight :
        connectionOpenAck(c, id, chain, version, connectionId, proofHeight)
  BY DEF ConnectionOpenAck
<1> DEFINE e == connections[c][id]
           d == trackedChain(c, e.client_id)
           f == [e EXCEPT !.state = "OPEN",
                          !.versions = makeVersionArray(version),
                          !.counterparty.connection_id = connectionId]
           p == expectedPeer(e, id, makeVersionArray(version), "TRYOPEN")
<1>2. e \in ConnectionEnd
  BY DEF ConnectionInv, TypeOK, HostTypeOK, ConnectionTypeOK
<1>3. /\ f.state = "OPEN" /\ f.client_id = e.client_id
      /\ f.versions = makeVersionArray(version)
      /\ f.delay_period = e.delay_period
      /\ f.counterparty.client_id = e.counterparty.client_id
      /\ f.counterparty.connection_id = connectionId
  BY <1>2 DEF ConnectionEnd, Counterparty
<1>4. /\ p.state = "TRYOPEN"
      /\ p.client_id = e.counterparty.client_id
      /\ p.versions = makeVersionArray(version)
      /\ p.delay_period = e.delay_period
      /\ p.counterparty.client_id = e.client_id
      /\ p.counterparty.connection_id = id
  BY DEF expectedPeer
<1>5. /\ connectionFound(c, id)
      /\ e.state \in {"INIT", "TRYOPEN"}
      /\ verifyConnectionState(c, e.client_id, proofHeight,
             e.counterparty.prefix, connectionId, p)
      /\ setConnection(c, id, f)
      /\ UNCHANGED nextConnectionSequence
      /\ UNCHANGED <<clientVars, blocks>>
  BY <1>1 DEF connectionOpenAck, acknowledgeable
<1> HIDE DEF e, f, p
<1>6. e.client_id \in ClientId /\ ConnectionsAllocated'
  BY <1>3, <1>5, ChangedConnection DEF ConnectionInv, e
<1>7. /\ clientStates[c][e.client_id] # None
      /\ proofHeight \in 1 .. Len(blocks[d])
      /\ blocks[d][proofHeight].connections[connectionId] = p
      /\ MovesForward(p, connections[d][connectionId])
  BY <1>5, <1>6, VerifiedConnection DEF ConnectionInv, TypeOK, HostTypeOK
<1>8. /\ d \in Chain
      /\ c \in Remotes[d]
  BY <1>6, <1>7, KnownClient, RemoteUnique
  DEF ConnectionInv, TypeOK, HostTypeOK
<1>9. e.state = "INIT"
  <2>1. Answered(d, p)
    BY <1>4, <1>7, <1>8 DEF ConnectionInv, SealedTryOpenAnswered
  <2>2. trackedChain(d, p.client_id) = c
    BY <1>8, <2>1, KnownClient, RemoteUnique
    DEF Answered, Linked, ConnectionInv, TypeOK, HostTypeOK
  <2>3. peerOf(d, p) = e
    BY <1>4, <2>2 DEF peerOf, e
  <2> QED
    BY <1>5, <2>1, <2>3 DEF Answered
<1>10. MovesForward(e, f)
  BY <1>3, <1>9 DEF MovesForward
<1>11. Agreed(c, id, f)
  <2>1. Linked(c, f)
    BY <1>3, <1>6, <1>7 DEF Linked
  <2>2. peerOf(c, f) = connections[d][connectionId]
    BY <1>3 DEF peerOf
  <2> QED
    BY <1>3, <1>4, <1>7, <2>1, <2>2, ForwardKeeps DEF Agreed
<1>12. connections' = [connections EXCEPT ![c][id] = f]
  BY <1>5 DEF setConnection
<1>13. MovesForward(connections[c][id], f)
  BY <1>10 DEF e
<1> QED
  BY <1>3, <1>5, <1>6, <1>11, <1>12, <1>13, ChangedEndInv

\* Confirm has verified an OPEN end that names this one: it is final.
LEMMA OpenConfirmInv ==
    ASSUME Paired, ConnectionInv, TypeOK', NEW c \in Chain,
           ConnectionOpenConfirm(c)
    PROVE  ConnectionInv' /\ EndsForward
<1>1. PICK id \in ConnectionId, proofHeight \in 1 .. MaxHeight :
        connectionOpenConfirm(c, id, proofHeight)
  BY DEF ConnectionOpenConfirm
<1> DEFINE e == connections[c][id]
           d == trackedChain(c, e.client_id)
           f == [e EXCEPT !.state = "OPEN"]
           p == expectedPeer(e, id, e.versions, "OPEN")
<1>2. e \in ConnectionEnd
  BY DEF ConnectionInv, TypeOK, HostTypeOK, ConnectionTypeOK
<1>3. /\ f.state = "OPEN" /\ f.client_id = e.client_id
      /\ f.versions = e.versions
      /\ f.delay_period = e.delay_period
      /\ f.counterparty = e.counterparty
  BY <1>2 DEF ConnectionEnd
<1>4. /\ p.state = "OPEN"
      /\ p.client_id = e.counterparty.client_id
      /\ p.versions = e.versions
      /\ p.delay_period = e.delay_period
      /\ p.counterparty.client_id = e.client_id
      /\ p.counterparty.connection_id = id
  BY DEF expectedPeer
<1>5. /\ connectionFound(c, id)
      /\ e.state = "TRYOPEN"
      /\ verifyConnectionState(c, e.client_id, proofHeight,
             e.counterparty.prefix, e.counterparty.connection_id, p)
      /\ setConnection(c, id, f)
      /\ UNCHANGED nextConnectionSequence
      /\ UNCHANGED <<clientVars, blocks>>
  BY <1>1 DEF connectionOpenConfirm
<1> HIDE DEF e, f, p
<1>6. e.client_id \in ClientId /\ ConnectionsAllocated'
  BY <1>3, <1>5, ChangedConnection DEF ConnectionInv, e
<1>7. /\ clientStates[c][e.client_id] # None
      /\ e.counterparty.connection_id \in ConnectionId
      /\ MovesForward(p, connections[d][e.counterparty.connection_id])
  BY <1>5, <1>6, VerifiedConnection DEF ConnectionInv, TypeOK, HostTypeOK
<1>8. MovesForward(connections[c][id], f)
  BY <1>3, <1>5 DEF MovesForward, e
<1>9. Agreed(c, id, f)
  <2>1. Linked(c, f)
    BY <1>3, <1>6, <1>7 DEF Linked
  <2>2. peerOf(c, f) = connections[d][e.counterparty.connection_id]
    BY <1>3 DEF peerOf
  <2> QED
    BY <1>3, <1>4, <1>7, <2>1, <2>2, ForwardKeeps DEF Agreed
<1>10. connections' = [connections EXCEPT ![c][id] = f]
  BY <1>5 DEF setConnection
<1> QED
  BY <1>3, <1>5, <1>6, <1>8, <1>9, <1>10, ChangedEndInv

-----------------------------------------------------------------------------
(* The specification                                                       *)

LEMMA ConnectionInit == Init => ConnectionInv
<1> SUFFICES ASSUME Init PROVE ConnectionInv
  OBVIOUS
<1>1. TypeOK
  BY InitType
<1>2. \A c \in Chain, id \in ConnectionId :
        /\ connections[c][id] = NoConnection
        /\ nextConnectionSequence[c] = 0
        /\ id >= 0
  BY NumberAssumption DEF Init, HostInit, ConnectionId
<1>3. \A c \in Chain : /\ Len(blocks[c]) = 1
                       /\ blocks[c][1].connections = connections[c]
  BY DEF Init, HostInit, Store
<1>4. NoConnection.state = "UNINITIALIZED_UNSPECIFIED"
  BY DEF NoConnection
<1>5. ClientsKnowBlocks
  BY DEF Init, HostInit, ClientsKnowBlocks
<1>6. ConnectionsAllocated /\ TryOpenAnswered /\ OpenAgreed
  BY <1>2, <1>4 DEF ConnectionsAllocated, TryOpenAnswered, OpenAgreed
<1>7. SealedForward /\ SealedTryOpenAnswered
  BY <1>2, <1>3, <1>4 DEF SealedForward, SealedTryOpenAnswered, MovesForward
<1> QED
  BY <1>1, <1>5, <1>6, <1>7 DEF ConnectionInv

LEMMA UnchangedEnds == UNCHANGED connections => EndsForward
BY DEF EndsForward, MovesForward

LEMMA ConnectionStep ==
    ASSUME Paired, ConnectionInv, [Next]_vars
    PROVE  ConnectionInv' /\ EndsForward
<1>1. TypeOK'
  BY TypeStep DEF ConnectionInv
<1>2. CASE UNCHANGED vars
  BY <1>1, <1>2, OtherStepInv, UnchangedEnds DEF vars, hostVars, connectionVars
<1>3. ASSUME NEW c \in Chain, ClientNext(c)
      PROVE  ConnectionInv' /\ EndsForward
  <2>1. UNCHANGED connections
    BY <1>3 DEF ClientNext, RegisterClient, registerClient, CreateClient,
                createClient, UpdateClient, updateClient, connectionVars
  <2> QED
    BY <1>3, <2>1, ClientStepInv, UnchangedEnds
<1>4. ASSUME NEW c \in Chain, ConnectionNext(c)
      PROVE  ConnectionInv' /\ EndsForward
  BY <1>1, <1>4, OpenInitInv, OpenTryInv, OpenAckInv, OpenConfirmInv
  DEF ConnectionNext
<1>5. ASSUME NEW c \in Chain, ChannelNext(c)
      PROVE  ConnectionInv' /\ EndsForward
  <2>1. UNCHANGED <<clientVars, connectionVars, blocks>>
    BY <1>5, ChannelFrame
  <2> QED
    BY <1>1, <2>1, OtherStepInv, UnchangedEnds DEF connectionVars
<1>6. ASSUME NEW c \in Chain, PacketNext(c)
      PROVE  ConnectionInv' /\ EndsForward
  <2>1. UNCHANGED <<clientVars, connectionVars, blocks>>
    BY <1>6, PacketFrame
  <2> QED
    BY <1>1, <2>1, OtherStepInv, UnchangedEnds DEF connectionVars
<1>7. ASSUME NEW c \in Chain, SealBlock(c), UNCHANGED eventVars
      PROVE  ConnectionInv' /\ EndsForward
  <2>1. UNCHANGED connections
    BY <1>7 DEF SealBlock, connectionVars
  <2> QED
    BY <1>7, <2>1, SealBlockInv, UnchangedEnds
<1> QED
  BY <1>2, <1>3, <1>4, <1>5, <1>6, <1>7 DEF Next

\* Between paired chains the checks of the four connection steps keep every end
\* forward of what sealed blocks show of it, and every OPEN end in agreement
\* with the end it names.
THEOREM ConnectionInvariant == Paired => (Spec => []ConnectionInv)
<1> SUFFICES ASSUME Paired PROVE Spec => []ConnectionInv
  OBVIOUS
<1>1. Init => ConnectionInv
  BY ConnectionInit
<1>2. ConnectionInv /\ [Next]_vars => ConnectionInv'
  BY ConnectionStep
<1> QED
  BY <1>1, <1>2, PTL DEF Spec

LEMMA InvAgrees == ConnectionInv => ConnectionsAgree
<1>1. ASSUME ConnectionInv, NEW c \in Chain, NEW id \in ConnectionId,
             connections[c][id].state = "OPEN"
      PROVE  LET e == connections[c][id]
                 p == peerConnection(c, id)
             IN /\ p.state \in {"TRYOPEN", "OPEN"}
                /\ p.client_id = e.counterparty.client_id
                /\ p.counterparty.client_id = e.client_id
                /\ p.counterparty.connection_id = id
                /\ p.versions = e.versions
                /\ p.delay_period = e.delay_period
  <2>1. Agreed(c, id, connections[c][id])
    BY <1>1 DEF ConnectionInv, OpenAgreed
  <2>2. peerOf(c, connections[c][id]) = peerConnection(c, id)
    BY DEF peerOf, peerConnection
  <2> QED
    BY <2>1, <2>2 DEF Agreed
<1> QED
  BY <1>1 DEF ConnectionsAgree

\* Between paired chains an OPEN end and the end it names always agree: no
\* interleaving of the four steps, no replayed, late or mismatched message
\* opens a connection whose ends differ.
THEOREM ConnectionsAlwaysAgree == Paired => (Spec => []ConnectionsAgree)
<1> SUFFICES ASSUME Paired PROVE Spec => []ConnectionsAgree
  OBVIOUS
<1>1. Spec => []ConnectionInv
  BY ConnectionInvariant
<1>2. ConnectionInv => ConnectionsAgree
  BY InvAgrees
<1> QED
  BY <1>1, <1>2, PTL

\* Between paired chains no TRYOPEN end answers another TRYOPEN end, so the
\* branch of connectionOpenAck for an end in TRYOPEN is never taken.
THEOREM NoCrossingHellos == Paired => (Spec => []TryOpenAnswersInit)
<1> SUFFICES ASSUME Paired PROVE Spec => []TryOpenAnswersInit
  OBVIOUS
<1>1. Spec => []ConnectionInv
  BY ConnectionInvariant
<1>2. ConnectionInv => TryOpenAnswersInit
  BY DEF ConnectionInv, TryOpenAnswered, Answered, peerOf, TryOpenAnswersInit,
         peerConnection
<1> QED
  BY <1>1, <1>2, PTL

\* Between paired chains the client at the other end of an OPEN connection
\* tracks this chain, although validateSelfClient accepts every client state.
THEOREM PairedConnectionsMutual == Paired => (Spec => []ConnectionsMutual)
<1> SUFFICES ASSUME Paired PROVE Spec => []ConnectionsMutual
  OBVIOUS
<1>1. Spec => []ConnectionInv
  BY ConnectionInvariant
<1>2. ConnectionInv => ConnectionsMutual
  <2> SUFFICES ASSUME ConnectionInv, NEW c \in Chain, NEW id \in ConnectionId,
                      connections[c][id].state = "OPEN"
               PROVE  clientStates[trackedChain(c, connections[c][id].client_id)]
                        [connections[c][id].counterparty.client_id].chain = c
    BY DEF ConnectionsMutual
  <2> DEFINE e == connections[c][id]
             d == trackedChain(c, e.client_id)
             k == e.counterparty.connection_id
  <2>1. Agreed(c, id, e)
    BY DEF ConnectionInv, OpenAgreed
  <2>2. /\ d \in Chain
        /\ c \in Remotes[d]
        /\ k \in ConnectionId
    BY <2>1, KnownClient, RemoteUnique
    DEF Agreed, Linked, ConnectionInv, TypeOK, HostTypeOK
  <2>3. Linked(d, connections[d][k])
    BY <2>1, <2>2 DEF Agreed, peerOf, ConnectionInv, TryOpenAnswered, Answered,
                      OpenAgreed
  <2>4. trackedChain(d, connections[d][k].client_id) = c
    <3> DEFINE clientId == connections[d][k].client_id
    <3>1. clientId \in ClientId /\ clientStates[d][clientId] # None
      BY <2>3 DEF Linked
    <3>2. ClientTypeOK /\ ClientsKnowBlocks
      BY DEF ConnectionInv, TypeOK, HostTypeOK
    <3> HIDE DEF clientId, d
    <3>3. trackedChain(d, clientId) \in Remotes[d]
      BY <2>2, <3>1, <3>2, KnownClient
    <3>4. trackedChain(d, clientId) = c
      BY <2>2, <3>3, RemoteUnique
    <3> QED
      BY <3>4 DEF clientId
  <2> QED
    BY <2>1, <2>4 DEF Agreed, peerOf, trackedChain
<1> QED
  BY <1>1, <1>2, PTL

\* Between paired chains an end only moves forward, keeps what it has settled
\* and is final once it is OPEN.
THEOREM HandshakeForward == Paired => (Spec => ConnectionMovesForward)
<1> SUFFICES ASSUME Paired PROVE Spec => ConnectionMovesForward
  OBVIOUS
<1>1. Spec => []ConnectionInv
  BY ConnectionInvariant
<1>2. ConnectionInv /\ [Next]_vars => [EndsForward]_<<connections, blocks>>
  BY ConnectionStep
<1>3. ConnectionMovesForward <=> [][EndsForward]_<<connections, blocks>>
  BY DEF ConnectionMovesForward, EndsForward
<1> QED
  BY <1>1, <1>2, <1>3, PTL DEF Spec

-----------------------------------------------------------------------------
(* The handshake implements an abstract one                                *)

LEMMA ClientsKept ==
    ASSUME Paired, ConnectionInv, [Next]_vars,
           NEW c \in Chain, NEW id \in ClientId, clientStates[c][id] # None
    PROVE  /\ clientStates'[c][id] # None
           /\ trackedChain(c, id)' = trackedChain(c, id)
<1>1. CASE UNCHANGED clientStates
  BY <1>1 DEF trackedChain
<1>2. ASSUME NEW d \in Chain, ClientNext(d)
      PROVE  /\ clientStates'[c][id] # None
             /\ trackedChain(c, id)' = trackedChain(c, id)
  BY <1>2, ClientStep DEF ConnectionInv
<1>3. ASSUME NEW d \in Chain, ConnectionNext(d) PROVE UNCHANGED clientStates
  BY <1>3, ConnectionFrame DEF clientVars
<1>4. ASSUME NEW d \in Chain, ChannelNext(d) PROVE UNCHANGED clientStates
  BY <1>4, ChannelFrame DEF clientVars
<1>5. ASSUME NEW d \in Chain, PacketNext(d) PROVE UNCHANGED clientStates
  BY <1>5, PacketFrame DEF clientVars
<1>6. ASSUME NEW d \in Chain, SealBlock(d) PROVE UNCHANGED clientStates
  BY <1>6 DEF SealBlock, clientVars
<1>7. UNCHANGED vars => UNCHANGED clientStates
  BY DEF vars, hostVars, clientVars
<1> QED
  BY <1>1, <1>2, <1>3, <1>4, <1>5, <1>6, <1>7 DEF Next

\* What the ends in X have agreed on, if p names their partners and t their
\* terms, and whether e is one of those bound by agreements A.
AgreementsOf(X, p, t) == {[ends |-> {x, p[x]}, terms |-> t[x]] : x \in X}
BoundBy(A, e) == \E a \in A : e \in a.ends

\* One end at most opens, those that were open stay so, and p pairs each open end
\* with another one that names it back, on the same terms.  O and N are the open
\* ends before and after.
OneMayOpen(Ends, Terms, O, N, p, t) ==
    /\ O \subseteq N /\ N \subseteq Ends
    /\ \E n : N \subseteq O \cup {n}
    /\ \A x \in N : /\ p[x] \in Ends /\ p[x] # x /\ p[p[x]] = x
                    /\ t[x] \in Terms /\ t[p[x]] = t[x]

\* A step of an abstract handshake, by which agreements A become B.
HandshakeMove(Ends, Terms, O, N, A, B) ==
    \/ O = N
    \/ \E e \in Ends :
         /\ e \notin O /\ N = O \cup {e}
         /\ \/ /\ ~ BoundBy(A, e)
               /\ \E f \in Ends \ {e}, terms \in Terms :
                    /\ ~ BoundBy(A, f)
                    /\ B = A \cup {[ends |-> {e, f}, terms |-> terms]}
            \/ BoundBy(A, e) /\ B = A

\* Either the partner of the end that opens was open, and the agreements stay the
\* same, or neither of them has agreed with anyone.
LEMMA OneOpens ==
    ASSUME NEW Ends, NEW Terms, NEW O, NEW N, NEW p, NEW t,
           OneMayOpen(Ends, Terms, O, N, p, t)
    PROVE  HandshakeMove(Ends, Terms, O, N,
                         AgreementsOf(O, p, t), AgreementsOf(N, p, t))
<1> DEFINE agreement(x) == [ends |-> {x, p[x]}, terms |-> t[x]]
           made(X) == AgreementsOf(X, p, t)
           settled(e) == BoundBy(made(O), e)
<1> SUFFICES ASSUME O # N
             PROVE  HandshakeMove(Ends, Terms, O, N, made(O), made(N))
  BY DEF HandshakeMove
<1>1. PICK n : N \subseteq O \cup {n}
  BY DEF OneMayOpen
<1>2. /\ n \in Ends /\ n \in N /\ n \notin O /\ N = O \cup {n}
      /\ \A x \in N : /\ p[x] \in Ends /\ p[x] # x /\ p[p[x]] = x
                      /\ t[x] \in Terms /\ t[p[x]] = t[x]
  BY <1>1 DEF OneMayOpen
<1>3. made(N) = made(O) \cup {agreement(n)}
  BY <1>2 DEF AgreementsOf
<1>4. ASSUME NEW e PROVE settled(e) <=> \E x \in O : e = x \/ e = p[x]
  <2>1. settled(e) <=> \E x \in O : e \in agreement(x).ends
    BY DEF BoundBy, AgreementsOf
  <2>2. \A x : e \in agreement(x).ends <=> e = x \/ e = p[x]
    OBVIOUS
  <2> QED
    BY <2>1, <2>2
<1>5. CASE p[n] \in O
  <2>1. agreement(p[n]) = agreement(n)
    BY <1>2
  <2>2. agreement(n) \in made(O)
    BY <1>5, <2>1 DEF AgreementsOf
  <2>3. made(N) = made(O)
    BY <1>3, <2>2
  <2>4. settled(n)
    BY <1>2, <1>4, <1>5
  <2> HIDE DEF made
  <2> QED
    BY <1>2, <2>3, <2>4 DEF HandshakeMove
<1>6. CASE p[n] \notin O
  <2>1. ~ settled(n) /\ ~ settled(p[n])
    BY <1>2, <1>4, <1>6
  <2>2. p[n] \in Ends \ {n} /\ t[n] \in Terms
    BY <1>2
  <2>3. made(N) = made(O) \cup {[ends |-> {n, p[n]}, terms |-> t[n]]}
    BY <1>3
  <2> HIDE DEF made
  <2>4. \E f \in Ends \ {n}, terms \in Terms :
          /\ ~ settled(f)
          /\ made(N) = made(O) \cup {[ends |-> {n, f}, terms |-> terms]}
    BY <2>1, <2>2, <2>3
  <2> QED
    BY <1>2, <2>1, <2>4 DEF HandshakeMove
<1> QED
  BY <1>5, <1>6

\* An end that exists has settled on one version.
VersionsChosen ==
    \A c \in Chain, id \in ConnectionId :
      connections[c][id].state # "UNINITIALIZED_UNSPECIFIED" =>
        \E v \in Version : connections[c][id].versions = <<v>>

\* A step changes one end at most.
LEMMA OneConnectionChanges ==
    ASSUME TypeOK, [Next]_vars, VersionsChosen
    PROVE  /\ VersionsChosen'
           /\ \E n : \A c \in Chain, id \in ConnectionId :
                <<c, id>> # n => connections'[c][id] = connections[c][id]
<1> DEFINE Goal == /\ VersionsChosen'
                   /\ \E n : \A c \in Chain, id \in ConnectionId :
                        <<c, id>> # n => connections'[c][id] = connections[c][id]
<1>1. ASSUME UNCHANGED connections PROVE Goal
  BY <1>1 DEF VersionsChosen
<1>2. ASSUME NEW c \in Chain, NEW id \in ConnectionId, NEW f, setConnection(c, id, f),
             \E v \in Version : f.versions = <<v>>
      PROVE  Goal
  <2>1. \A d \in Chain, k \in ConnectionId :
          connections'[d][k] = IF d = c /\ k = id THEN f ELSE connections[d][k]
    BY <1>2 DEF setConnection, TypeOK, HostTypeOK, ConnectionTypeOK
  <2>2. VersionsChosen'
    BY <1>2, <2>1 DEF VersionsChosen
  <2>3. \A d \in Chain, k \in ConnectionId :
          <<d, k>> # <<c, id>> => connections'[d][k] = connections[d][k]
    BY <2>1
  <2> QED
    BY <2>2, <2>3
<1>3. ASSUME NEW c \in Chain, ConnectionOpenInit(c) PROVE Goal
  <2>1. PICK clientId, counterparty, delay :
          connectionOpenInit(c, clientId, counterparty, delay)
    BY <1>3 DEF ConnectionOpenInit
  <2> DEFINE f == [client_id |-> clientId, versions |-> getVersions,
                   state |-> "INIT", delay_period |-> delay,
                   counterparty |-> counterparty]
  <2>2. f.versions = <<"1">>
    BY DEF getVersions
  <2>3. PICK id \in ConnectionId : setConnection(c, id, f)
    BY <2>1 DEF connectionOpenInit
  <2> HIDE DEF f
  <2> QED
    BY <1>2, <2>2, <2>3, InputAssumption
<1>4. ASSUME NEW c \in Chain, ConnectionOpenTry(c) PROVE Goal
  <2>1. PICK clientId, counterparty, delay, chain, versions, height :
          connectionOpenTry(c, clientId, counterparty, delay, chain, versions, height)
    BY <1>4 DEF ConnectionOpenTry
  <2> DEFINE f == [client_id |-> clientId, versions |-> getVersions,
                   state |-> "TRYOPEN", delay_period |-> delay,
                   counterparty |-> counterparty]
  <2>2. f.versions = <<"1">>
    BY DEF getVersions
  <2>3. PICK id \in ConnectionId : setConnection(c, id, f)
    BY <2>1 DEF connectionOpenTry
  <2> HIDE DEF f
  <2> QED
    BY <1>2, <2>2, <2>3, InputAssumption
<1>5. ASSUME NEW c \in Chain, ConnectionOpenAck(c) PROVE Goal
  <2>1. PICK id \in ConnectionId, connectionId \in ConnectionId, chain \in Chain,
             version \in Version, proofHeight \in 1 .. MaxHeight :
          connectionOpenAck(c, id, chain, version, connectionId, proofHeight)
    BY <1>5 DEF ConnectionOpenAck
  <2> DEFINE f == [connections[c][id] EXCEPT
                     !.state = "OPEN", !.versions = makeVersionArray(version),
                     !.counterparty.connection_id = connectionId]
  <2>2. f.versions = <<version>>
    BY DEF TypeOK, HostTypeOK, ConnectionTypeOK, ConnectionEnd, makeVersionArray
  <2>3. setConnection(c, id, f)
    BY <2>1 DEF connectionOpenAck
  <2> HIDE DEF f
  <2> QED
    BY <1>2, <2>2, <2>3
<1>6. ASSUME NEW c \in Chain, ConnectionOpenConfirm(c) PROVE Goal
  <2>1. PICK id \in ConnectionId, proofHeight \in 1 .. MaxHeight :
          connectionOpenConfirm(c, id, proofHeight)
    BY <1>6 DEF ConnectionOpenConfirm
  <2> DEFINE f == [connections[c][id] EXCEPT !.state = "OPEN"]
  <2>2. f.versions = connections[c][id].versions
    BY DEF TypeOK, HostTypeOK, ConnectionTypeOK, ConnectionEnd
  <2>3. connectionFound(c, id) /\ setConnection(c, id, f)
    BY <2>1 DEF connectionOpenConfirm
  <2> HIDE DEF f
  <2> QED
    BY <1>2, <2>2, <2>3 DEF VersionsChosen, connectionFound
<1>7. ASSUME NEW c \in Chain, ClientNext(c) PROVE UNCHANGED connections
  BY <1>7 DEF ClientNext, RegisterClient, registerClient, CreateClient,
              createClient, UpdateClient, updateClient, connectionVars
<1>8. ASSUME NEW c \in Chain, ChannelNext(c) PROVE UNCHANGED connections
  BY <1>8, ChannelFrame DEF connectionVars
<1>9. ASSUME NEW c \in Chain, PacketNext(c) PROVE UNCHANGED connections
  BY <1>9, PacketFrame DEF connectionVars
<1>10. ASSUME NEW c \in Chain, SealBlock(c) PROVE UNCHANGED connections
  BY <1>10 DEF SealBlock, connectionVars
<1>11. UNCHANGED vars => UNCHANGED connections
  BY DEF vars, hostVars, connectionVars
<1> HIDE DEF Goal
<1>12. Goal
  BY <1>1, <1>3, <1>4, <1>5, <1>6, <1>7, <1>8, <1>9, <1>10, <1>11
  DEF Next, ConnectionNext
<1> QED
  BY <1>12 DEF Goal

\* The terms of connections, and the partners of those that are OPEN.
ConnectionTerms == [versions : {<<v>> : v \in Version},
                    delay_period : {0} \cup DelayPeriod]

OpenConnectionsPaired ==
    \A e \in openConnections :
      /\ connectionPeer(e) \in Chain \X ConnectionId
      /\ connectionPeer(e) # e
      /\ connectionPeer(connectionPeer(e)) = e
      /\ connectionTerms(e) \in ConnectionTerms
      /\ connectionTerms(connectionPeer(e)) = connectionTerms(e)

\* The two ends of an OPEN connection name each other, on the same terms.
LEMMA OpenPaired ==
    Paired /\ ConnectionInv /\ VersionsChosen => OpenConnectionsPaired
<1> SUFFICES ASSUME Paired, ConnectionInv, VersionsChosen, NEW e \in openConnections
             PROVE  /\ connectionPeer(e) \in Chain \X ConnectionId
                    /\ connectionPeer(e) # e
                    /\ connectionPeer(connectionPeer(e)) = e
                    /\ connectionTerms(e) \in ConnectionTerms
                    /\ connectionTerms(connectionPeer(e)) = connectionTerms(e)
  BY DEF OpenConnectionsPaired
<1>1. PICK c \in Chain, id \in ConnectionId :
        e = <<c, id>> /\ connections[c][id].state = "OPEN"
  BY DEF openConnections
<1> DEFINE end == connections[c][id]
           d == trackedChain(c, end.client_id)
           k == end.counterparty.connection_id
           peer == connections[d][k]
<1>2. Agreed(c, id, end)
  BY <1>1 DEF ConnectionInv, OpenAgreed
<1>3. /\ d \in Chain /\ d # c
      /\ c \in Remotes[d]
      /\ k \in ConnectionId
      /\ peer.state \in {"TRYOPEN", "OPEN"}
      /\ peer.counterparty.connection_id = id
      /\ peer.versions = end.versions
      /\ peer.delay_period = end.delay_period
  BY <1>2, KnownClient, RemoteUnique
  DEF Agreed, Linked, peerOf, ConnectionInv, TypeOK, HostTypeOK
<1>4. Linked(d, peer)
  BY <1>2, <1>3 DEF Agreed, peerOf, ConnectionInv, TryOpenAnswered, Answered,
                    OpenAgreed
<1>5. end \in ConnectionEnd /\ \E v \in Version : end.versions = <<v>>
  BY <1>1 DEF VersionsChosen, ConnectionInv, TypeOK, HostTypeOK, ConnectionTypeOK
<1>6. connectionPeer(e) = <<d, k>> /\ connectionTerms(e) \in ConnectionTerms
  BY <1>1, <1>5 DEF connectionPeer, connectionTerms, ConnectionTerms, ConnectionEnd
<1> HIDE DEF d, peer
<1>7. trackedChain(d, peer.client_id) = c
  <2>1. peer.client_id \in ClientId /\ clientStates[d][peer.client_id] # None
    BY <1>4 DEF Linked
  <2>2. trackedChain(d, peer.client_id) \in Remotes[d]
    BY <1>3, <2>1, KnownClient DEF ConnectionInv, TypeOK, HostTypeOK
  <2> QED
    BY <1>3, <2>2, RemoteUnique
<1>8. connectionPeer(<<d, k>>) = e /\ connectionTerms(<<d, k>>) = connectionTerms(e)
  BY <1>1, <1>3, <1>7 DEF connectionPeer, connectionTerms, peer
<1> QED
  BY <1>1, <1>3, <1>6, <1>8

\* An end that is OPEN stays what it is, and so does whom it names.
LEMMA OpenConnectionsStay ==
    ASSUME Paired, ConnectionInv, [Next]_vars, NEW e \in openConnections
    PROVE  /\ e \in openConnections'
           /\ connectionPeer(e)' = connectionPeer(e)
           /\ connectionTerms(e)' = connectionTerms(e)
<1>1. PICK c \in Chain, id \in ConnectionId :
        e = <<c, id>> /\ connections[c][id].state = "OPEN"
  BY DEF openConnections
<1>2. connections'[c][id] = connections[c][id]
  BY <1>1, ConnectionStep DEF EndsForward, MovesForward
<1>3. Linked(c, connections[c][id])
  BY <1>1 DEF ConnectionInv, OpenAgreed, Agreed
<1> DEFINE clientId == connections[c][id].client_id
<1>4. trackedChain(c, clientId)' = trackedChain(c, clientId)
  <2>1. clientId \in ClientId /\ clientStates[c][clientId] # None
    BY <1>3 DEF Linked
  <2>2. clientId' = clientId
    BY <1>2
  <2>3. \A k \in ClientId : clientStates[c][k] # None =>
          trackedChain(c, k)' = trackedChain(c, k)
    BY ClientsKept
  <2> QED
    BY <2>1, <2>2, <2>3 DEF trackedChain
<1>5. e \in openConnections'
  BY <1>1, <1>2 DEF openConnections
<1> QED
  BY <1>1, <1>2, <1>4, <1>5 DEF connectionPeer, connectionTerms, trackedChain

LEMMA ConnectionHandshakeStep ==
    ASSUME Paired, ConnectionInv, VersionsChosen, OpenConnectionsPaired',
           [Next]_vars
    PROVE  [ConnectionHandshake!HandshakeNext]_(ConnectionHandshake!handshakeVars)
<1> DEFINE Ends == Chain \X ConnectionId
           O == openConnections
           N == openConnections'
           p == [e \in Ends |-> connectionPeer(e)']
           t == [e \in Ends |-> connectionTerms(e)']
<1>1. O \subseteq Ends /\ N \subseteq Ends
  BY DEF openConnections
<1>2. \A e \in O : e \in N /\ connectionPeer(e)' = connectionPeer(e)
                   /\ connectionTerms(e)' = connectionTerms(e)
  BY OpenConnectionsStay
<1>3. PICK n : \A c \in Chain, id \in ConnectionId :
                 <<c, id>> # n => connections'[c][id] = connections[c][id]
  BY OneConnectionChanges DEF ConnectionInv
<1>4. N \subseteq O \cup {n}
  BY <1>3 DEF openConnections
<1>5. \A x \in N : /\ p[x] \in Ends /\ p[x] # x /\ p[p[x]] = x
                   /\ t[x] \in ConnectionTerms /\ t[p[x]] = t[x]
  BY <1>1 DEF OpenConnectionsPaired
<1>6. connectionAgreements = AgreementsOf(O, p, t)
  BY <1>1, <1>2 DEF connectionAgreements, AgreementsOf
<1>7. connectionAgreements' = AgreementsOf(N, p, t)
  BY <1>1 DEF connectionAgreements, AgreementsOf
<1> HIDE DEF p, t
<1>8. HandshakeMove(Ends, ConnectionTerms, O, N,
                    connectionAgreements, connectionAgreements')
  <2>1. O \subseteq N
    BY <1>2
  <2>2. OneMayOpen(Ends, ConnectionTerms, O, N, p, t)
    BY <1>1, <1>4, <1>5, <2>1 DEF OneMayOpen
  <2> QED
    BY <1>6, <1>7, <2>2, OneOpens
<1>9. CASE O = N
  BY <1>6, <1>7, <1>9 DEF ConnectionHandshake!handshakeVars
<1>10. CASE O # N
  BY <1>8, <1>10
  DEF HandshakeMove, BoundBy, ConnectionTerms,
      ConnectionHandshake!HandshakeNext, ConnectionHandshake!Opens,
      ConnectionHandshake!Agree, ConnectionHandshake!Confirm,
      ConnectionHandshake!Settled
<1> QED
  BY <1>9, <1>10

\* Between paired chains the four steps of the connection handshake
\* (IBCConnection.sol:17-140) are an agreement of two ends: whatever Inits, Trys
\* and old proofs are relayed, an end that opens binds itself and one other, and
\* neither can be bound again or on other terms.
THEOREM ConnectionsImplementHandshake == Paired => (Spec => ImplementsHandshake)
<1> SUFFICES ASSUME Paired PROVE Spec => ImplementsHandshake
  OBVIOUS
<1> DEFINE Inv == ConnectionInv /\ VersionsChosen
<1>1. Init => ConnectionHandshake!HandshakeInit /\ VersionsChosen
  <2>1. Init => \A c \in Chain, id \in ConnectionId :
                  connections[c][id].state = "UNINITIALIZED_UNSPECIFIED"
    BY DEF Init, HostInit, NoConnection
  <2> QED
    BY <2>1 DEF VersionsChosen, openConnections, connectionAgreements,
                ConnectionHandshake!HandshakeInit
<1>2. Init => Inv
  BY <1>1, ConnectionInit
<1>3. Inv /\ [Next]_vars => Inv'
  BY ConnectionStep, OneConnectionChanges DEF ConnectionInv
<1>4. Inv => OpenConnectionsPaired
  BY OpenPaired
<1>5. Inv /\ OpenConnectionsPaired' /\ [Next]_vars =>
        [ConnectionHandshake!HandshakeNext]_(ConnectionHandshake!handshakeVars)
  BY ConnectionHandshakeStep
<1> QED
  BY <1>1, <1>2, <1>3, <1>4, <1>5, PTL
  DEF Spec, ImplementsHandshake, ConnectionHandshake!HandshakeSpec
=============================================================================
