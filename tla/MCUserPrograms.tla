---------------------------- MODULE MCUserPrograms ----------------------------
EXTENDS UserPrograms

(* A letter, return, and the control key with the letter that ends a file. *)
UserKeys ==
    {<<"letter", FALSE>>, <<"return", FALSE>>,
     <<"LCTL", FALSE>>, <<"LCTL", TRUE>>, <<"d", FALSE>>}
=============================================================================
