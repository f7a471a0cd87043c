----------------------------- MODULE MCIngester -----------------------------
(***************************************************************************)
(* Instances of Ingester for TLC.                                          *)
(***************************************************************************)
EXTENDS IngesterProperties, TLC

CONSTANTS s1, s2, P, R, X

\* Writes that end on a line boundary, inside a record, on a blank line, and
\* that complete one record and begin the next.
MCChunks == {<<P, NL>>, <<R>>, <<X, NL>>, <<NL>>, <<NL, P>>}
MCShortChunks == {<<P, NL>>, <<R>>, <<NL>>}
\* Byte by byte.
MCBytes == {<<R>>, <<NL>>}
MCContents == {<<>>, <<R, NL>>, <<P, X, X, NL>>, <<P, NL, R, X>>}

\* Sessions are interchangeable; used by runs without liveness properties only.
MCSymmetry == Permutations({s1, s2})
=============================================================================
