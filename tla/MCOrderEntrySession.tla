------------------------ MODULE MCOrderEntrySession --------------------------
(* OrderEntrySession for TLC.  The timeout spans more than one ping period, *)
(* as fix.request_timeout (15s) does fix.ping_freq (5s), so that several    *)
(* probes are outstanding when it expires.                                  *)
EXTENDS OrderEntrySession
=============================================================================
