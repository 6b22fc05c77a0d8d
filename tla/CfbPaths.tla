------------------------------ MODULE CfbPaths ------------------------------
(***************************************************************************)
(* Stream paths of a compound file (src/cfb/writer.go): a path is the      *)
(* sequence of its segments, the last one naming the stream and the others *)
(* the storages above it.                                                  *)
(***************************************************************************)
EXTENDS Naturals, Sequences, SequencesExt

\* What buildTree refuses of one path: no segment at all, or a segment that
\* does not fit the 64-byte name field (TooLong is the set of those).
BadPath(path, TooLong) ==
  path = << >> \/ \E k \in DOMAIN path : path[k] \in TooLong

\* What buildTree refuses of two registrations: the same stream twice, a
\* stream used as a storage, or a storage registered as a stream.
Clash(p, q) == IsPrefix(p, q) \/ IsPrefix(q, p)

\* buildTree fails exactly on these lists of registered paths, in any order of
\* registration (CfbDirectory runs it and checks that it does).
TreeRejects(paths, TooLong) ==
  \/ \E i \in DOMAIN paths : BadPath(paths[i], TooLong)
  \/ \E i, j \in DOMAIN paths : i # j /\ Clash(paths[i], paths[j])

\* firstSegment (src/vbaproject/read.go).
firstSegment(path) == path[1]
=============================================================================
