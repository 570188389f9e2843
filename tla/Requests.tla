------------------------------ MODULE Requests ------------------------------
(***************************************************************************)
(* Requests as every store names them.  The gateway draws a fresh id for   *)
(* each request (genReqId in src/gateway/server.ts), so an id names one    *)
(* execution of the pipeline and is never reused.                          *)
(***************************************************************************)
CONSTANTS
    Request,       \* request ids
    NoRequest      \* no request

ASSUME RequestConstants == NoRequest \notin Request
=============================================================================
