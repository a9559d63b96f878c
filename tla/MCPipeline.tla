----------------------------- MODULE MCPipeline -----------------------------
(* One forwarder, two concurrent Close calls, and two sinks of which the first may
   hang.  One caller is enough for the order of events: the ingest channel gives
   every accepted event its ticket, whoever sent it.                         *)
EXTENDS Pipeline
=============================================================================
