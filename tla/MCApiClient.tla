---------------------------- MODULE MCApiClient ----------------------------
(***************************************************************************)
(* ApiClient for TLC: two tabs of one browser, two requests, one mishap.   *)
(* MCAutoRefresh.cfg checks one tab without mishaps.                       *)
(***************************************************************************)
EXTENDS ApiClient
=============================================================================
