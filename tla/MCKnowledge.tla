------------------------------ MODULE MCKnowledge ------------------------------
(* Instances of the knowledge bases for TLC; the .cfg files give the constants. *)
EXTENDS Knowledge

CONSTANTS t1, t2

\* A file without text, and one of two chunks, of which a search may leave
\* either in the cache before the file is ingested.
MCFiles == {<<>>, <<t2, t1>>}
=============================================================================
