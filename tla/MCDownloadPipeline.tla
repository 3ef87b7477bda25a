------------------------- MODULE MCDownloadPipeline -------------------------
(* Model-checking instance of DownloadPipeline: a task of stride 2 over    *)
(* 3..21 (ten heights, more than max_q + 1) so that the top-up loop, the *)
(* max_q bound and the out-of-order answers all come into play.           *)
EXTENDS DownloadPipeline
=============================================================================
