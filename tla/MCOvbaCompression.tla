------------------------- MODULE MCOvbaCompression -------------------------
(***************************************************************************)
(* Small geometries of the codec.  In MCOvba.cfg a byte has 2 bits, a flag *)
(* byte 2 tokens, a token 4 bits and a chunk 8 bytes, so that inputs of up *)
(* to 9 bytes cross the end of a chunk, fill one with incompressible bytes *)
(* and reach both offset widths (2 and 3 bits).  In MCOvbaWide.cfg a byte  *)
(* has 3 bits, a token 6 bits and a chunk 16 bytes; the inputs repeat a    *)
(* word after a gap, up to a run of 17 bytes.                              *)
(***************************************************************************)
EXTENDS OvbaCompression

CONSTANTS Letters, MaxLen, MaxBody

Words(max) == UNION {[1 .. n -> Letters] : n \in 0 .. max}

MCInputs == Words(MaxLen)

MCRepeats == {word \o gap \o word : word \in Words(MaxLen), gap \in Words(3)}

\* One chunk of any flag, size field and body, with a good or a bad signature,
\* and what is left of it when the file ends early.
MCContainers ==
  {<< >>} \cup
  {<< signature, size, compressed >> \o cells :
     signature \in {0, Signature}, size \in 0 .. MaxBody, compressed \in {0, 1},
     cells \in UNION {[1 .. n -> Byte] : n \in 0 .. MaxBody}}
  \cup {<< Signature, size >> : size \in {0, 1}}
  \cup {<< Signature, ChunkMax - 1, 0 >> \o [k \in 1 .. n |-> k % 2] :
           n \in {ChunkMax - 1, ChunkMax, ChunkMax + 1}}
=============================================================================
