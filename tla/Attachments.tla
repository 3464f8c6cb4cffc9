------------------------------ MODULE Attachments ------------------------------
(***************************************************************************)
(* What becomes of an article when it is shown or when the user extracts   *)
(* or views what it holds (libtrn/respond.cpp save_article, view_article): *)
(* a MIME article is gone through by module Mime, any other is taken for a *)
(* piece of a file by module Decode. A behaviour is of one kind.    *)
(***************************************************************************)
EXTENDS Mime, Decode

VARIABLE what    \* "mime" or "piece"

vars == <<mimeVars, decodeVars, what>>

\* Where nothing is read, no article is open.
Init ==
  /\ what \in {"mime", "piece"}
  /\ DecodeInit /\ MimeInit
  /\ what = "piece" => art.lines = <<>> /\ mode = "read"

Next ==
  \/ what = "mime" /\ MimeNext /\ UNCHANGED decodeVars /\ UNCHANGED what
  \/ what = "piece" /\ DecodeNext /\ UNCHANGED mimeVars /\ UNCHANGED what
Spec == Init /\ [][Next]_vars
================================================================================
