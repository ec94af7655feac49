-------------------------- MODULE MCWebhookOutbox --------------------------
(* Small instances of WebhookOutbox for TLC.                               *)
EXTENDS WebhookOutbox, TLC

CONSTANTS u1, u2, c1, c2, e1, e2, f1, f2, d1, d2

\* Users, channels, events and configurations are interchangeable.
Symmetry == Permutations(User) \cup Permutations(Channel)
                \cup Permutations(Event) \cup Permutations(Config)

\* The history variables guard nothing: without them in the view, states that
\* differ only in the past are explored once.
NoHistory == <<channels, rows, batch, task, lost, ever>>
=============================================================================
