----------------------------- MODULE MCSelfHosted -----------------------------
(* Instances of SelfHosted for TLC.                                        *)
EXTENDS SelfHosted

Firing1 == [name |-> "a1", status |-> "firing"]
Firing2 == [name |-> "a2", status |-> "firing"]
Ended   == [name |-> "a3", status |-> "resolved"]

Alert(body, alerts, header, size) ==
  [route |-> "alert", body |-> body, alerts |-> alerts, header |-> header, size |-> size]

Slack(body, signed, age, schema, action, value, user) ==
  [route |-> "slack", body |-> body, signed |-> signed, age |-> age, schema |-> schema,
   action |-> action, value |-> value, user |-> user]

Click(value, user) == Slack("payload", TRUE, 0, "valid", "rollback", value, user)

(* Every reply of the handler, the alerts under one id twice.              *)
MCInputs ==
  { [route |-> "probe"],
    Alert("invalid", {}, "c1", "short"),
    Alert("payload", {Ended}, "c1", "short"),
    Alert("payload", {Firing1, Ended}, "c1", "short"),
    Alert("payload", {Firing2}, "c1", "long"),
    Alert("payload", {Firing2}, "malformed", "short"),
    Alert("payload", {Firing1}, "c1", "huge"),
    Slack("malformed", FALSE, 0, "valid", "none", "valid", "u1"),
    Slack("payload", FALSE, 0, "valid", "rollback", "valid", "u1"),
    Slack("payload", TRUE, -301, "valid", "rollback", "valid", "u1"),
    Slack("payload", TRUE, 300, "invalid", "none", "valid", "u1"),
    Slack("payload", TRUE, 0, "malformed", "none", "valid", "u1"),
    Slack("payload", TRUE, 0, "valid", "other", "valid", "u1"),
    Click("valid", "u1"), Click("valid", "u2"), Click("invalid", "u1") }

MCEnvironments ==
  { [queue |-> "fifo", notifier |-> "slack", enabled |-> TRUE, allowed |-> {"u1"}],
    [queue |-> "standard", notifier |-> "slack", enabled |-> FALSE, allowed |-> {}],
    [queue |-> "none", notifier |-> "teams", enabled |-> FALSE, allowed |-> {}] }

MCPosters == Requests \cup Polls \cup Signals \cup Sigterms \cup {"webhook"}

MCLines ==
  (Requests \X {"slack", "error", "truncated", "inline", "init", "event"})
    \cup {<<"webhook", "sigterm">>}
    \cup (Polls \X {"pollError", "event", "error"})
    \cup (Messages \X Polls)
    \cup (Sigterms \X (1..MaxStarts))
    \cup ({"ingest"} \X Signals)
=============================================================================
