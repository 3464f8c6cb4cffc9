------------------------------ MODULE MCNntpClient -----------------------------
\* One group of two articles; the settings and the servers that differ in what
\* they make the session do.
EXTENDS NntpClient

CONSTANT soup

Plainly == [tlsForAuth |-> FALSE, startTls |-> TRUE, implicit |-> FALSE,
            legacy |-> TRUE, force |-> FALSE, user |-> TRUE]
MCSettings ==
  {Plainly,
   [Plainly EXCEPT !.tlsForAuth = TRUE],
   [Plainly EXCEPT !.tlsForAuth = TRUE, !.force = TRUE, !.legacy = FALSE],
   [Plainly EXCEPT !.tlsForAuth = TRUE, !.startTls = FALSE],
   [Plainly EXCEPT !.implicit = TRUE, !.tlsForAuth = TRUE, !.user = FALSE]}

Modern == [features |-> {"STARTTLS", "USER"}, lists |-> TRUE, needsTls |-> FALSE,
           needsAuth |-> TRUE, guarded |-> FALSE, open |-> FALSE]
MCHosts ==
  {[Modern EXCEPT !.features = {"READER"}, !.needsAuth = FALSE],
   [Modern EXCEPT !.features = Features, !.needsTls = TRUE],
   [Modern EXCEPT !.features = Features, !.guarded = TRUE],
   [Modern EXCEPT !.features = {"STARTTLS", "USER", "READER"}, !.lists = FALSE,
                  !.needsTls = TRUE],
   [Modern EXCEPT !.features = {"STARTTLS", "USER"}, !.lists = FALSE, !.open = TRUE,
                  !.needsTls = TRUE],
   [Modern EXCEPT !.features = {"STARTTLS", "SASL"}]}
===============================================================================
