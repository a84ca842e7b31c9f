------------------------------ MODULE Handshake ------------------------------
(***************************************************************************)
(* What the handshakes of IBCConnection.sol and IBCChannel.sol promise,    *)
(* whatever the four messages, the blocks and the relayers do in between:  *)
(* two ends that are bound to nobody agree on their terms, once and for    *)
(* all, at the moment the first of them opens; the other one can only      *)
(* confirm.                                                                *)
(***************************************************************************)
CONSTANTS
    Party,          \* the ends of all chains
    Terms           \* what two ends may agree on

VARIABLES
    agreements,     \* the agreements made, of two ends and their terms
    open            \* the ends that know of theirs

handshakeVars == <<agreements, open>>

Settled(e) == \E a \in agreements : e \in a.ends

Opens(e) == e \notin open /\ open' = open \cup {e}

\* A third end that answers one of the two has come too late.
Agree(e) ==
    /\ ~ Settled(e)
    /\ \E f \in Party \ {e}, terms \in Terms :
         /\ ~ Settled(f)
         /\ agreements' = agreements \cup {[ends |-> {e, f}, terms |-> terms]}

Confirm(e) == Settled(e) /\ UNCHANGED agreements

HandshakeInit == agreements = {} /\ open = {}

\* One end opens: it is the first of two to know, or confirms.
HandshakeNext == \E e \in Party : Opens(e) /\ (Agree(e) \/ Confirm(e))

HandshakeSpec == HandshakeInit /\ [][HandshakeNext]_handshakeVars
=============================================================================
