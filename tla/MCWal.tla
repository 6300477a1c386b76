------------------------------- MODULE MCWal --------------------------------
(* The write-ahead log with one command, for TLC. *)
EXTENDS Wal

CONSTANT v \* the command clients propose
=============================================================================
