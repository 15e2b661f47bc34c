---------------------------- MODULE MCRmcpClient ----------------------------
(* Instance of RmcpClient for TLC.                                          *)
EXTENDS RmcpClient
=============================================================================
