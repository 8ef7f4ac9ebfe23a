--------------------------- MODULE MCPluginDelivery ---------------------------
(* One subscriber of a short outbox. *)
EXTENDS PluginDelivery
=============================================================================
