----------------------------- MODULE ImageDevice -----------------------------
(***************************************************************************)
(* What an IImageDevice promises: an image is a sequence of bytes; a seek    *)
(* sets the position, and a read gives the bytes from there on, all that was *)
(* asked for unless the image ends or the card fails first.  Nothing stops a *)
(* caller at the end: a read that runs past it is given what the device has, *)
(* as much of it as it has.  And a device that was read past its last track  *)
(* may go astray: it then keeps the number of bytes, not their values.       *)
(***************************************************************************)
EXTENDS Integers, Sequences

VARIABLES
    image,       \* empty while no device is served
    tracked,     \* where its last track ends
    astray,
    pos,
    asked, got,
    outcome      \* "reading", or how the last read ended

vars == <<pos, asked, got, outcome, astray, image, tracked>>

Init ==
    /\ image = <<>> /\ tracked = 0 /\ astray = FALSE
    /\ pos = 0 /\ asked = 0 /\ got = <<>> /\ outcome = "none"

Open ==
    /\ outcome = "none" /\ image = <<>>
    /\ tracked' \in Nat
    /\ UNCHANGED <<astray, pos, asked, got, outcome>>

Close ==
    /\ outcome # "reading"
    /\ image' = <<>> /\ tracked' = 0
    /\ UNCHANGED <<astray, pos, asked, got, outcome>>

Seek ==
    /\ outcome # "reading"
    /\ pos' \in Nat
    /\ asked' = 0 /\ got' = <<>> /\ outcome' \in {"sought", "card"}
    /\ UNCHANGED <<image, tracked, astray>>

Read ==
    /\ outcome # "reading"
    /\ asked' \in Nat \ {0} /\ got' = <<>> /\ outcome' = "reading"
    /\ UNCHANGED <<image, tracked, astray, pos>>

\* Some bytes more.  Up to the end they are those of the image, and the device
\* stands behind them.
Deliver ==
    LET n   == Len(got') - Len(got)
        end == Len(image)
    IN  /\ outcome = "reading" /\ n \in 1 .. asked - Len(got)
        /\ \A i \in DOMAIN got : got'[i] = got[i]
        /\ \/ astray
           \/ \A i \in 1 .. n : pos + i <= end => got'[Len(got) + i] = image[pos + i]
        /\ pos' = pos + n \/ (pos + n >= end /\ pos' \in Nat /\ pos' >= end)
        /\ astray' \in BOOLEAN /\ (astray' => astray \/ pos' > tracked)
        /\ UNCHANGED <<image, tracked, asked, outcome>>

End ==
    /\ outcome = "reading"
    /\ outcome' = IF Len(got) = asked THEN "whole"
                  ELSE IF pos >= Len(image) THEN "end" ELSE "card"
    /\ UNCHANGED <<image, tracked, astray, pos, asked, got>>

Fail ==
    /\ outcome = "reading"
    /\ outcome' = "card"
    /\ UNCHANGED <<image, tracked, astray, pos, asked, got>>

Next == Open \/ Close \/ Seek \/ Read \/ Deliver \/ End \/ Fail

Spec == Init /\ [][Next]_vars
=============================================================================
