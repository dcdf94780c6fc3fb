---------------------------- MODULE MCFileTransfer ----------------------------
(* Instances of FileTransfer for TLC. *)
EXTENDS FileTransfer

CONSTANTS a, b

OneChunk == {<<a>>}
TheChunks == {a, b, Spoiled}
===============================================================================
