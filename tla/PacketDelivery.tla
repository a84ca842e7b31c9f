--------------------------- MODULE PacketDelivery ---------------------------
(***************************************************************************)
(* What IBCHandler.sol promises the applications at the two ends of open   *)
(* channels, whatever clients, blocks, proofs and relayers do in between:  *)
(* a message is delivered at most once and as it was sent, in order if the *)
(* channel is ordered; the receiver answers it at most once; and the       *)
(* sender hears of that answer at most once.                               *)
(***************************************************************************)
EXTENDS Naturals, Sequences, SequencesExt

CONSTANTS
    Endpoint,       \* the channel ends of all chains
    Peer,           \* Peer[e]: the other end of the channel of e
    Message,        \* what may be sent
    Number,         \* numbers of messages: the n-th message sent has number n
    Answer,         \* what a receiver may answer
    None            \* no answer yet

ASSUME PeerAssumption == /\ Peer \in [Endpoint -> Endpoint]
                         /\ \A e \in Endpoint : Peer[Peer[e]] = e
ASSUME AnswerAssumption == None \notin Answer /\ Number \subseteq Nat

VARIABLES
    ordered,        \* ordered[e]: whether the channel of e is ordered
    sent,           \* sent[e]: the messages sent from e
    received,       \* received[e]: the messages delivered to e, with number
    answers,        \* answers[e][n]: the answer of e to message n of its peer
    acked           \* acked[e]: messages e knows the answer of, with number

deliveryVars == <<ordered, sent, received, answers, acked>>

Delivered(e, n) == \E k \in DOMAIN received[e] : received[e][k].number = n
Acked(e, n) == \E k \in DOMAIN acked[e] : acked[e][k].number = n

Send(e, message) ==
    /\ Len(sent[e]) + 1 \in Number
    /\ sent' = [sent EXCEPT ![e] = Append(@, message)]
    /\ UNCHANGED <<ordered, received, answers, acked>>

\* The answer is given at once, or left open.
Deliver(e, n, answer) ==
    /\ n \in DOMAIN sent[Peer[e]]
    /\ ~ Delivered(e, n)
    /\ ordered[e] => n = Len(received[e]) + 1
    /\ received' = [received EXCEPT ![e] =
                      Append(@, [number |-> n, message |-> sent[Peer[e]][n]])]
    /\ answers' = [answers EXCEPT ![e][n] = answer]
    /\ UNCHANGED <<ordered, sent, acked>>

AnswerLate(e, n, answer) ==
    /\ Delivered(e, n)
    /\ answers[e][n] = None
    /\ answers' = [answers EXCEPT ![e][n] = answer]
    /\ UNCHANGED <<ordered, sent, received, acked>>

Acknowledge(e, n) ==
    /\ n \in DOMAIN sent[e]
    /\ answers[Peer[e]][n] # None
    /\ ~ Acked(e, n)
    /\ acked' = [acked EXCEPT ![e] =
                   Append(@, [number |-> n, message |-> sent[e][n],
                              answer |-> answers[Peer[e]][n]])]
    /\ UNCHANGED <<ordered, sent, received, answers>>

DeliveryInit ==
    /\ ordered \in [Endpoint -> BOOLEAN]
    /\ sent = [e \in Endpoint |-> <<>>]
    /\ received = [e \in Endpoint |-> <<>>]
    /\ answers = [e \in Endpoint |-> [n \in Number |-> None]]
    /\ acked = [e \in Endpoint |-> <<>>]

DeliveryNext ==
    \E e \in Endpoint :
      \/ \E message \in Message : Send(e, message)
      \/ \E n \in Number :
           \/ \E answer \in Answer \cup {None} : Deliver(e, n, answer)
           \/ \E answer \in Answer : AnswerLate(e, n, answer)
           \/ Acknowledge(e, n)

DeliverySpec == DeliveryInit /\ [][DeliveryNext]_deliveryVars
=============================================================================
