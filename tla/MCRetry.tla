------------------------------ MODULE MCRetry -------------------------------
(* A small instance of Retry: one code of each kind the code tells apart,  *)
(* and every form of Retry-After, in and out of range.                     *)
EXTENDS Retry

MCCodes == {200, 204, 299, 300, 399, 400, 404, 408, 424, 429, 499, 500, 599, 999}
MCHeaders ==
  [form : {"absent", "unreadable"}, value : {0}]
    \cup [form : {"seconds", "date"}, value : {-5, 0, 2, 86400}]
=============================================================================
