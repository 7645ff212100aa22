------------------------------- MODULE MCS3Fifo -------------------------------
(* Small instances of S3Fifo for TLC. *)
EXTENDS S3Fifo, TLC

\* Keys 1 and 2 collide in the last slot of the table, whose cluster runs into
\* the home of key 3.
MCHash == (1 :> 7) @@ (2 :> 7) @@ (3 :> 8)
=============================================================================
