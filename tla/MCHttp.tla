--------------------------------- MODULE MCHttp ---------------------------------
(* Instances of HttpServer for TLC.                                         *)
EXTENDS HttpServer, MCBroker
=============================================================================
