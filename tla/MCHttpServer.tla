---------------------------- MODULE MCHttpServer ----------------------------
(***************************************************************************)
(* HttpServer on a small instance for TLC.                                 *)
(***************************************************************************)
EXTENDS HttpServer
=============================================================================
