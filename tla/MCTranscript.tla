---------------------------- MODULE MCTranscript ----------------------------
(***************************************************************************)
(* Transcript with bytes of one bit, so that a context of two bytes is one *)
(* too long and its length does not fit the length byte; the contexts and  *)
(* messages are prefixes and suffixes of each other.                       *)
(***************************************************************************)
EXTENDS Transcript

MCContexts == {<< >>, <<1>>, <<1, 0>>}
MCMessages == {<< >>, <<0>>, <<1, 0>>}
=============================================================================
