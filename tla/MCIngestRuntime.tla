--------------------------- MODULE MCIngestRuntime ---------------------------
(* Instances of IngestRuntime, and with it of SqsSubscriber, for TLC. *)
EXTENDS IngestRuntime, TLC

\* Where no message is undecodable, messages are alike; stop() callers always are.
Sym == Permutations(Messages) \cup Permutations(Stoppers)
=============================================================================
