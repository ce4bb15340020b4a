-------------------------- MODULE MC_GSGCollector ---------------------------
(***************************************************************************)
(* The instance of GSGCollector for TLC.                                   *)
(***************************************************************************)
EXTENDS GSGCollector

Answer(status, complete, body) == [status |-> status, complete |-> complete, body |-> body]

\* One response for each way a minute can go on: a file, a verified absence, a
\* retry, and a transfer that broke off.
FourAnswers ==
    { Answer("ok", TRUE, "gzip"), Answer("absent", TRUE, "empty"),
      Answer("transient", TRUE, "other"), Answer("transient", FALSE, "other") }
=============================================================================
