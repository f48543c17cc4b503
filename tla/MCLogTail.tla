----------------------------- MODULE MCLogTail -----------------------------
(***************************************************************************)
(* LogTail on a small instance: a file of at most MaxBytes bytes, newlines *)
(* anywhere, read ChunkSize at a time so that one fread can pass st_size.  *)
(***************************************************************************)
EXTENDS LogTail

=============================================================================
