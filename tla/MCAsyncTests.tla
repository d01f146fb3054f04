---------------------------- MODULE MCAsyncTests ----------------------------
(***************************************************************************)
(* AsyncTests for three subjects, two programs at a time and output that   *)
(* fills a pipe; for two of them where there is no posix_kill; and for one *)
(* with --reduce, where there is and where there is not.                   *)
(***************************************************************************)
EXTENDS AsyncTests

MCSessions ==
  {[files |-> <<"a", "b", "c">>, reduce |-> FALSE, posix_kill |-> TRUE],
   [files |-> <<"a", "b">>, reduce |-> FALSE, posix_kill |-> FALSE]}
    \cup [files : {<<"a">>}, reduce : {TRUE}, posix_kill : BOOLEAN]
=============================================================================
