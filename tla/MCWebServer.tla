---------------------------- MODULE MCWebServer ----------------------------
(* WebServer with the pool of two blocks of project-conf.h, one client     *)
(* more than blocks, and a page of two lists: two neighbours and none.  *)
EXTENDS WebServer

TwoLists == <<2, 0>>
=============================================================================
