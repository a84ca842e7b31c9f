---------------------------- MODULE IBCConnection ----------------------------
(***************************************************************************)
(* contracts/core/IBCConnection.sol: the four steps of the connection      *)
(* handshake.  Each step but the first verifies, through the light client  *)
(* of this chain, the end the other chain stored in a sealed block.  The   *)
(* block may be any that the client has verified, however old.             *)
(***************************************************************************)
EXTENDS IBCClient

CONSTANT InitCounterpartyConnection   \* counterparty connection ids given to Init

ASSUME ConnectionInputAssumption ==
    InitCounterpartyConnection \subseteq ConnectionId \cup {None}

commitmentPrefix == "ibc"
getVersions == <<"1">>
isSupportedVersion(version) == TRUE      \* TODO in the code
makeVersionArray(version) == <<version>>

connectionOpenInit(c, clientId, counterparty, delayPeriod) ==
    /\ \E id \in ConnectionId :
         /\ generateConnectionIdentifier(c, id)
         /\ setConnection(c, id, [client_id |-> clientId,
                                  versions |-> getVersions,
                                  state |-> "INIT",
                                  delay_period |-> delayPeriod,
                                  counterparty |-> counterparty])
    /\ UNCHANGED <<clientVars, channelVars, sequenceVars, packetVars, blocks>>

\* What the end the other chain stored at Init must look like.
expectedInit(clientId, counterparty, delayPeriod, counterpartyVersions) ==
    [client_id |-> counterparty.client_id,
     versions |-> counterpartyVersions,
     state |-> "INIT",
     delay_period |-> delayPeriod,
     counterparty |-> [client_id |-> clientId, connection_id |-> None,
                       prefix |-> commitmentPrefix]]

connectionOpenTry(c, clientId, counterparty, delay, clientState, versions, proofHeight) ==
    /\ validateSelfClient(c, clientState)
    /\ versions # <<>>
    /\ verifyConnectionState(c, clientId, proofHeight, counterparty.prefix,
            counterparty.connection_id,
            expectedInit(clientId, counterparty, delay, versions))
    /\ verifyClientState(c, clientId, proofHeight, counterparty.prefix,
            counterparty.client_id, clientState)
    /\ \E id \in ConnectionId :
         /\ generateConnectionIdentifier(c, id)
         /\ setConnection(c, id, [client_id |-> clientId,
                                  versions |-> getVersions,
                                  state |-> "TRYOPEN",
                                  delay_period |-> delay,
                                  counterparty |-> counterparty])
    /\ UNCHANGED <<clientVars, channelVars, sequenceVars, packetVars, blocks>>

\* Faulty variant: neither the version nor the end addressed is compared.
peerOfFirst(connection, id, versions, state) ==
    [client_id |-> connection.counterparty.client_id,
     versions |-> getVersions, state |-> state,
     delay_period |-> connection.delay_period,
     counterparty |-> [client_id |-> connection.client_id, connection_id |-> 0,
                       prefix |-> commitmentPrefix]]

\* What the other chain's end must look like for end `id`, of value
\* `connection`, to go on: it names `id` and is in the given state.
expectedPeer(connection, id, versions, state) ==
    [client_id |-> connection.counterparty.client_id,
     versions |-> versions,
     state |-> state,
     delay_period |-> connection.delay_period,
     counterparty |-> [client_id |-> connection.client_id, connection_id |-> id,
                       prefix |-> commitmentPrefix]]

\* Faulty variant: an end that is already OPEN may be acknowledged again.
acknowledgeableTwice(connection, version) == isSupportedVersion(version)

\* A TRYOPEN end has settled on one version, which must be the message's.
acknowledgeable(connection, version) ==
    \/ connection.state = "INIT" /\ isSupportedVersion(version)
    \/ connection.state = "TRYOPEN" /\ connection.versions = <<version>>

connectionOpenAck(c, id, clientState, version, counterpartyId, proofHeight) ==
    LET connection == connections[c][id] IN
    /\ connectionFound(c, id)
    /\ acknowledgeable(connection, version)
    /\ validateSelfClient(c, clientState)
    /\ verifyConnectionState(c, connection.client_id, proofHeight,
            connection.counterparty.prefix, counterpartyId,
            expectedPeer(connection, id, makeVersionArray(version), "TRYOPEN"))
    /\ verifyClientState(c, connection.client_id, proofHeight,
            connection.counterparty.prefix, connection.counterparty.client_id,
            clientState)
    /\ setConnection(c, id,
            [connection EXCEPT
               !.state = "OPEN",
               !.versions = makeVersionArray(version),
               !.counterparty.connection_id = counterpartyId])
    /\ UNCHANGED <<clientVars, nextConnectionSequence, channelVars,
                   sequenceVars, packetVars, blocks>>

connectionOpenConfirm(c, id, proofHeight) ==
    LET connection == connections[c][id] IN
    /\ connectionFound(c, id)
    /\ connection.state = "TRYOPEN"
    /\ verifyConnectionState(c, connection.client_id, proofHeight,
            connection.counterparty.prefix, connection.counterparty.connection_id,
            expectedPeer(connection, id, connection.versions, "OPEN"))
    /\ setConnection(c, id, [connection EXCEPT !.state = "OPEN"])
    /\ UNCHANGED <<clientVars, nextConnectionSequence, channelVars,
                   sequenceVars, packetVars, blocks>>

-----------------------------------------------------------------------------
(* Properties                                                              *)

\* The chain an end's client tracks, and the end it names there.
trackedChain(c, clientId) == clientStates[c][clientId].chain
peerConnection(c, id) ==
    connections[trackedChain(c, connections[c][id].client_id)]
               [connections[c][id].counterparty.connection_id]

\* An OPEN end and the end it names agree on everything the handshake is to
\* settle: they name each other and each other's client, use the same version
\* and delay, and the other end is TRYOPEN (its confirmation is still to come)
\* or OPEN.  In particular no two OPEN ends share a counterparty, although one
\* Init may be answered by several Trys.
ConnectionsAgree ==
    \A c \in Chain, id \in ConnectionId :
      connections[c][id].state = "OPEN" =>
        LET e == connections[c][id]
            p == peerConnection(c, id)
        IN /\ p.state \in {"TRYOPEN", "OPEN"}
           /\ p.client_id = e.counterparty.client_id
           /\ p.counterparty.client_id = e.client_id
           /\ p.counterparty.connection_id = id
           /\ p.versions = e.versions
           /\ p.delay_period = e.delay_period

\* The client at the other end of an OPEN connection tracks this chain, which
\* is what validateSelfClient is there to establish.
ConnectionsMutual ==
    \A c \in Chain, id \in ConnectionId :
      connections[c][id].state = "OPEN" =>
        LET e == connections[c][id] IN
        clientStates[trackedChain(c, e.client_id)]
                    [e.counterparty.client_id].chain = c

\* The end a TRYOPEN end answers is never itself TRYOPEN: since Try always
\* creates a new end, crossing hellos never merge, and the branch of Ack for
\* an end in TRYOPEN (IBCConnection.sol:82) is dead.
TryOpenAnswersInit ==
    \A c \in Chain, id \in ConnectionId :
      connections[c][id].state = "TRYOPEN" =>
        peerConnection(c, id).state \in {"INIT", "OPEN"}

\* How an end e may have become f: a handshake only moves forward, keeps the
\* client, the delay and the counterparty's client, and is final once OPEN.
MovesForward(e, f) ==
    \/ f = e
    \/ e.state = "UNINITIALIZED_UNSPECIFIED"
    \/ /\ e.state \in {"INIT", "TRYOPEN"} /\ f.state = "OPEN"
       /\ f.client_id = e.client_id
       /\ f.delay_period = e.delay_period
       /\ f.counterparty.client_id = e.counterparty.client_id
       /\ e.state = "TRYOPEN" => /\ f.counterparty = e.counterparty
                                 /\ f.versions = e.versions

\* No step undoes or changes what a handshake has settled.
ConnectionMovesForward ==
    [][\A c \in Chain, id \in ConnectionId :
         MovesForward(connections[c][id], connections'[c][id])
      ]_<<connections, blocks>>

\* The ends of connections that are OPEN, and what each has agreed on with the
\* end it names.
openConnections ==
    {e \in Chain \X ConnectionId : connections[e[1]][e[2]].state = "OPEN"}
connectionPeer(e) ==
    LET end == connections[e[1]][e[2]] IN
    <<trackedChain(e[1], end.client_id), end.counterparty.connection_id>>
connectionTerms(e) ==
    LET end == connections[e[1]][e[2]] IN
    [versions |-> end.versions, delay_period |-> end.delay_period]
connectionAgreements ==
    {[ends |-> {e, connectionPeer(e)}, terms |-> connectionTerms(e)] :
       e \in openConnections}

ConnectionHandshake ==
    INSTANCE Handshake WITH
      Party <- Chain \X ConnectionId,
      Terms <- [versions : {<<v>> : v \in Version},
                delay_period : {0} \cup DelayPeriod],
      agreements <- connectionAgreements,
      open <- openConnections

\* The four steps implement a handshake: an Ack binds two ends, neither of which
\* is bound, to the same version and delay, and all that a Confirm can do is to
\* open the other one.  Inits and Trys in any number, and old or repeated
\* messages, leave no trace in it.
ImplementsHandshake == ConnectionHandshake!HandshakeSpec
=============================================================================
