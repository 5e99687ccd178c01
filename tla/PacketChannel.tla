---------------------------- MODULE PacketChannel ----------------------------
(***************************************************************************)
(* What one direction of an IPC connection promises: packets arrive whole,   *)
(* unchanged, once each and in the order in which they were begun, until the *)
(* receiving end gives the connection up.  It may do so at any time.         *)
(***************************************************************************)
EXTENDS Naturals, Sequences

CONSTANT Message

VARIABLES
    sent,       \* packets begun by the sending end
    delivered,  \* packets accepted by the receiving end
    open        \* the receiving end still reads

vars == <<sent, delivered, open>>

Init == sent = <<>> /\ delivered = <<>> /\ open = TRUE

Send(m) ==
    /\ sent' = Append(sent, m)
    /\ UNCHANGED <<delivered, open>>

Deliver ==
    /\ open
    /\ Len(delivered) < Len(sent)
    /\ delivered' = Append(delivered, sent[Len(delivered) + 1])
    /\ UNCHANGED <<sent, open>>

Close ==
    /\ open
    /\ open' = FALSE
    /\ UNCHANGED <<sent, delivered>>

Next == (\E m \in Message : Send(m)) \/ Deliver \/ Close

Spec == Init /\ [][Next]_vars

=============================================================================
