---------------------------- MODULE EditContract ----------------------------
(***************************************************************************)
(* What the library promises a caller who edits sources: a document is a   *)
(* list of named modules of fixed kinds, each with a source.  Opening it   *)
(* fills a buffer, editing replaces one source of the buffer, and saving   *)
(* either stores the whole buffer or refuses and stores nothing.  Payload  *)
(* that is not a module, and a locked document, are never touched.         *)
(***************************************************************************)
EXTENDS Naturals, Sequences

CONSTANTS Sources, NoBuffer, Unreadable

VARIABLES
  stored,   \* Seq([name, kind, source]), or Unreadable
  buffer,   \* the same, or NoBuffer
  payload,  \* everything in the document that is not a module source
  locked

vars == << stored, buffer, payload, locked >>

Open ==
  /\ stored # Unreadable
  /\ buffer' = stored
  /\ UNCHANGED << stored, payload, locked >>

EditOne ==
  /\ buffer # NoBuffer
  /\ \E k \in DOMAIN buffer, s \in Sources :
       buffer' = [buffer EXCEPT ![k].source = s]
  /\ UNCHANGED << stored, payload, locked >>

Save ==
  /\ buffer # NoBuffer
  /\ ~locked
  /\ stored' = buffer
  /\ UNCHANGED << buffer, payload, locked >>

Init == buffer = NoBuffer

Spec == Init /\ [][Open \/ EditOne \/ Save]_vars
=============================================================================
