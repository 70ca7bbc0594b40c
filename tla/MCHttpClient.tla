---------------------------- MODULE MCHttpClient ----------------------------
(* TLC instance of HttpClient: no retry at all, none, one, and the default *)
(* of config.py.                                                           *)
EXTENDS HttpClient

SmallLimits == {-1, 0, 1, 2}
=============================================================================
