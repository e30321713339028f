--------------------------- MODULE MCUpdateImage ---------------------------
(***************************************************************************)
(* Values of UpdateImage's constants: an update that fits the partition    *)
(* exactly, one that leaves a block for a bad one, and one so short that   *)
(* the second pass can run through all the blocks of the partition.        *)
(***************************************************************************)
EXTENDS UpdateImage

SomeUpdates == {<<<<"i1", "i2", "i3">>, <<"busy">>, <<"fail">>>>,
                <<<<"i1", "i2">>, <<"busy">>, <<"fail">>>>,
                <<<<"i1">>, <<>>, <<>>>>}
PageValues == {"zero", "old", "hdr", "i1", "i2", "i3", "busy", "fail"}

\* What UpdateImageProofs assumes of the updates.
ASSUME HeaderApart

=============================================================================
