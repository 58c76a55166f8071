--------------------------- MODULE MCFileTransfer ----------------------------
(***************************************************************************)
(* Instances of FileTransfer: contents that share a first chunk, one of    *)
(* the same length with another last chunk, a shorter one.                 *)
(***************************************************************************)
EXTENDS FileTransfer

CONSTANTS a, b, c

MCChunks == {a, b, c}

\* Two of one length that share a prefix, and a file of no bytes.
MCContents == {<<a, b>>, <<a, c>>, <<>>}

\* An empty file somebody else put into the directory, or none.
MCPresent == {<<>>}

MCNonePresent == {}

\* Two contents of one length.
MCTwoContents == {<<a, b>>, <<a, c>>}
=============================================================================
