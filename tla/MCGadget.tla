------------------------------ MODULE MCGadget ------------------------------
(* Instances of the gadget for TLC. *)
EXTENDS UsbCdGadgetProperties, TLC

CONSTANTS d1, d2

\* Two discs of different length, so that a cursor valid on one may lie past
\* the end of the other.
TwoLeadouts == d1 :> 3 @@ d2 :> 2
OneLeadout  == d1 :> 3

\* Interrupts that leave the medium alone may land in any routine, and any
\* interrupt may land in Eject.
QuietPreempts ==
    ((Routines \ {"Read"}) \X {"Command", "Transfer"}) \cup ({"Eject"} \X Interrupts)

\* Everything lands everywhere, but no bus reset during a read of the image.
WildPreempts == (Routines \X Interrupts) \ {<<"Read", "Activate">>}

NoPreempts == {}
=============================================================================
