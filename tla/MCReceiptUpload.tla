----------------------------- MODULE MCReceiptUpload -----------------------------
(***************************************************************************)
(* An instance of ReceiptUpload for TLC.                                   *)
(***************************************************************************)
EXTENDS ReceiptUpload, TLC

CONSTANTS push, retry

\* Two branches, and a tag between them.
ThreeRefs == (push :> 3) @@ (retry :> 0)
Tag == {<<push, 2>>}
=================================================================================
