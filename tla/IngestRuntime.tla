---------------------------- MODULE IngestRuntime ----------------------------
(***************************************************************************)
(* The SQS flavours of the ingest runtime (scripts/ingest/runtime.ts): the  *)
(* subscriber of SqsSubscriber with the processMessage it is built with.    *)
(* The traceability processor decodes a message and hands each of its       *)
(* alerts to IngestService, which returns errors; the indexing processor    *)
(* decodes it and writes one document, and throws errors.                   *)
(***************************************************************************)
EXTENDS SqsSubscriber

CONSTANTS
    Paths,       \* the configurations: with an opensearch block "indexing", else "traceability"
    Undecodable  \* the messages the registered mapper throws on

ASSUME RuntimeAssumption ==
    /\ Paths \subseteq {"indexing", "traceability"}
    /\ Undecodable \subseteq Messages

VARIABLES
    path,     \* which processor createIngestRuntime chose
    handled   \* history: messages whose document was written, or each of
              \* whose alerts went through the use case, by some task

runtimeVars == <<vars, path, handled>>

RuntimeInit == Init /\ path \in Paths /\ handled = {}

\* What ingestService.process resolves with: it never throws, as it turns a
\* rejected schema and an exception of the use case into an error result.
Results == {"success", "error"}

\* mapper.decode (or the mapping after it) throws: so does the processor.
DecodeFails(d) ==
    /\ d.m \in Undecodable
    /\ Settle(d, FALSE)
    /\ UNCHANGED <<path, handled>>

\* Mutant: the indexing processor logs the error, as the traceability one does.
IndexDocumentLogged(d) ==
    /\ path = "indexing" /\ d.m \notin Undecodable
    /\ Settle(d, TRUE)
    /\ \E failed \in BOOLEAN :
         handled' = IF failed THEN handled ELSE handled \cup {d.m}
    /\ UNCHANGED path

\* indexer.index resolves or rejects, and the processor with it.
IndexDocument(d) ==
    /\ path = "indexing" /\ d.m \notin Undecodable
    /\ \/ Settle(d, TRUE) /\ handled' = handled \cup {d.m}
       \/ Settle(d, FALSE) /\ UNCHANGED handled
    /\ UNCHANGED path

\* The loop over the alerts, with the worst of their results: an error is logged.
ProcessAlerts(d) ==
    /\ path = "traceability" /\ d.m \notin Undecodable
    /\ Settle(d, TRUE)
    /\ \E worst \in Results :
         handled' = IF worst = "error" THEN handled ELSE handled \cup {d.m}
    /\ UNCHANGED path

Process(d) == DecodeFails(d) \/ IndexDocument(d) \/ ProcessAlerts(d)

SubscriberStep ==
    /\ QueueStep \/ LoopStep \/ FinishSome \/ StopStep
    /\ UNCHANGED <<path, handled>>

RuntimeNext == SubscriberStep \/ \E d \in inFlight : Process(d)

RuntimeSpec == RuntimeInit /\ [][RuntimeNext]_runtimeVars

RuntimeFairSpec == RuntimeSpec /\ Fairness

-----------------------------------------------------------------------------
\* A message of the indexing path leaves the queue only when its document was
\* written: a failed write leaves it to be received again.
IndexedBeforeDeleted ==
    path = "indexing" => \A m \in Messages : mstate[m] = "deleted" => m \in handled

\* A message some alert of which failed stays in the queue: "Notifier failure
\* -> retries and routes to DLQ" (README.md:93).
FailuresAreRetried == \A m \in Messages : mstate[m] = "deleted" => m \in handled
=============================================================================
