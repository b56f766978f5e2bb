---------------------------- MODULE MCChannels ----------------------------
(* ChannelClients for TLC: every bound is in the configuration. *)
EXTENDS ChannelClients
=============================================================================
