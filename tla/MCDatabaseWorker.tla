-------------------------- MODULE MCDatabaseWorker --------------------------
(* A small instance of DatabaseWorker for TLC.                             *)
EXTENDS DatabaseWorker

CONSTANTS b1, b2, f1, k1, k2

MCBlocking == {b1, b2}
MCCallback == {f1}
MCClosers == {k1, k2}
=============================================================================
