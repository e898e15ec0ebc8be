----------------------------- MODULE MCServices -----------------------------
(***************************************************************************)
(* The images of MCImages, and an audio player with two discs of which one  *)
(* ends early.                                                              *)
(***************************************************************************)
EXTENDS Services, MCImages

CONSTANTS longDisc, shortDisc

MCLeadout == [device \in Devices |-> IF device = longDisc THEN 4 ELSE 2]

\* Plays of more than the buffer holds, and of a length that wraps end_address
\* round to before the start.
MCLengths == {3, AddressSpace - 1}

\* Commands land everywhere but where the code loses them: while the sound just
\* written is accounted for, and while SetDevice has stopped the player but not
\* yet given it the new device.
QuietSteps == {"Top", "Seek", "Play", "Read", "Feed", "Rest", "Drain", "Assigned", "Delete"}

\* Buttons interrupt the task everywhere but between the two stores that go
\* together: a flag of the display and its panel, the page left and the one entered.
QuietPlaces == {"Rest", "Timers", "Warning", "Art", "Pages"}
=============================================================================
