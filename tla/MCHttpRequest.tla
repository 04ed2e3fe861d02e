---------------------------- MODULE MCHttpRequest ----------------------------
(***************************************************************************)
(* Model of HttpRequest for TLC: one request and its attempts.             *)
(***************************************************************************)
EXTENDS HttpRequest
=============================================================================
