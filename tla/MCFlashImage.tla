---------------------------- MODULE MCFlashImage ----------------------------
(***************************************************************************)
(* Values of FlashImage's constants: a file that ends inside a block, one  *)
(* with a block of zeros, and one shorter than a block.                    *)
(***************************************************************************)
EXTENDS FlashImage

Files == {<<"hdrA", "a1", "a2">>,
          <<"hdrB", "b1", "zero", "zero", "b2", "b3">>,
          <<"hdrC">>}
PageValues ==
  {"zero", "old", "hdrA", "hdrB", "hdrC", "a1", "a2", "b1", "b2", "b3"}

ASSUME FilesAssumption == HeadersApart

=============================================================================
