------------------------------ MODULE SelfHosted ------------------------------
(***************************************************************************)
(* The three long-running processes of a self-hosted Junando, each with    *)
(* the Loki buffer and the shutdown of its own: the webhook, the worker    *)
(* and the polling ingest server.  They share queue and stores, which the  *)
(* modules model from the side of each; one behaviour is that of one       *)
(* process.                                                                *)
(***************************************************************************)
EXTENDS WebhookServer, WorkerServer, IngestRunner

CONSTANT Roles  \* the processes this instance may be

ASSUME RolesAssumption == Roles \subseteq {"webhook", "worker", "ingest"}

VARIABLE role

selfHostedVars == <<role, proc, logVars, webhookVars, workerVars, runnerVars>>

(* A setting of another process is no choice of this one.                  *)
Settled(chosen, S) == chosen = CHOOSE x \in S : TRUE

SelfHostedInit ==
  /\ role \in Roles
  /\ BufferInit /\ WebhookInit /\ WorkerInit /\ RunnerInit
  /\ role # "webhook" => Settled(env, Environments)
  /\ role # "ingest" => Settled(kind, Kinds)

SelfHostedNext ==
  \/ role = "webhook" /\ WebhookNext /\ UNCHANGED <<role, workerVars, runnerVars>>
  \/ role = "worker" /\ WorkerNext /\ UNCHANGED <<role, webhookVars, runnerVars>>
  \/ role = "ingest" /\ RunnerNext /\ UNCHANGED <<role, webhookVars, workerVars>>
  \/ \E p \in Posters : PostSettles(p) /\ UNCHANGED <<role, webhookVars, workerVars, runnerVars>>

SelfHostedSpec == SelfHostedInit /\ [][SelfHostedNext]_selfHostedVars

(* Node runs every callback that is due, requests to other services time   *)
(* out, and a client that has connected sends its body or leaves.  Signals,*)
(* new connections, ticks and the rollback handler owe nothing.            *)
SelfHostedFairness ==
  /\ WF_selfHostedVars(role = "webhook" /\ WebhookStep /\ UNCHANGED <<role, workerVars, runnerVars>>)
  /\ WF_selfHostedVars(role = "worker" /\ WorkerStep /\ UNCHANGED <<role, webhookVars, runnerVars>>)
  /\ WF_selfHostedVars(role = "ingest" /\ RunnerStep /\ UNCHANGED <<role, webhookVars, workerVars>>)
  /\ WF_selfHostedVars(\E p \in Posters : PostSettles(p)
                         /\ UNCHANGED <<role, webhookVars, workerVars, runnerVars>>)

SelfHostedFairSpec == SelfHostedSpec /\ SelfHostedFairness

-----------------------------------------------------------------------------
SelfHostedTypeOK ==
  /\ BufferTypeOK /\ WebhookTypeOK /\ WorkerTypeOK /\ RunnerTypeOK
  /\ role \in Roles

(* Whatever was under way, a process told to stop ends: no request, poll,  *)
(* rule or push is waited for that nothing will end.                       *)
SigtermEndsProcess == proc = "stopping" ~> ~Alive
=============================================================================
