------------------------ MODULE MCGameEventsConsumer ------------------------
(***************************************************************************)
(* Small instances of GameEventsConsumer: a message is its kind.           *)
(***************************************************************************)
EXTENDS GameEventsConsumer

AllKinds == [kind : Kinds]

\* Every kind of message that Envelope.decode copes with.
Decoded == [kind : Kinds \ {"not_utf8"}]
=============================================================================
