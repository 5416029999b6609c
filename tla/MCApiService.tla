---------------------------- MODULE MCApiService ----------------------------
(* A few concurrent requests against one API process.                      *)
EXTENDS ApiService
=============================================================================
