---------------------------- MODULE MCMailProc -----------------------------
(***************************************************************************)
(* Instances of MailProc for TLC: all files of at most two lines, and some *)
(* with a line between two others that may be pushed back, stop or fail.   *)
(***************************************************************************)
EXTENDS MailProc

MCFiles ==
    BoundedSeq(CommandsOf("user") \cup CommandsOf("domain"), 2) \cup
        {<<"smtprelay", "filter", "smtprelay">>, <<"smtp", "redirect", "smtprelay">>,
         <<"filter", "redirect", "mailbox">>}
=============================================================================
