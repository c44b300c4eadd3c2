----------------------------- MODULE MCFlashLog -----------------------------
(* One reader beside the recorder; the third recording is the first that has
   two older ones to prune. *)
EXTENDS FlashLog
=============================================================================
