------------------------------ MODULE MCIntake ------------------------------
(***************************************************************************)
(* Two conversations: Ann sends two messages that Meta puts in one batch,  *)
(* Bob one whose text the console cannot print, a picture and one it can;  *)
(* and a post whose signature does not match.  A delivery status, a batch  *)
(* without messages, would be answered at once.                            *)
(***************************************************************************)
EXTENDS Intake

CONSTANTS a1, a2, b1, b2, pic, x, Ann, Bob

MCMessages == {a1, a2, b1, b2, pic, x}
MCThreads == {Ann, Bob}
MCThreadOf == [m \in MCMessages |-> IF m \in {a1, a2, x} THEN Ann ELSE Bob]
MCBatches == {<<a1, a2>>, <<b1, pic, b2>>, <<x>>}
MCMissigned == {<<x>>}
MCIgnored == {pic}
MCUnprintable == {b1}
=============================================================================
