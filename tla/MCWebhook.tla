----------------------------- MODULE MCWebhook -----------------------------
(* Small instances of WebhookOutbox.                                       *)
EXTENDS WebhookOutbox, TLC

CONSTANTS h1, d1, d2, g1, nohook

(* Waits of the two retries a ladder of three attempts leaves.             *)
MCBackoff == <<1, 2>>
MCBackoff2 == <<1>>

Symmetry == Permutations(Hooks) \cup Permutations(Drainers)
============================================================================
