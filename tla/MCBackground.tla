---------------------------- MODULE MCBackground ----------------------------
(* For the forwarder a long message whose second part has the keyword, so  *)
(* that a listing of one part and one of both differ in every respect;     *)
(* settings with phone, webhook and a rule that mails without a server,    *)
(* and with mail, the keyword and a rule that texts.  For the profiles     *)
(* those with and without a login.                                         *)
EXTENDS Background

CONSTANT long

MCPoolOf == [m \in Messages |-> "ME"]
MCKeyed  == {<<long, 2>>}

MCConfigs ==
  {[enabled |-> TRUE, targets |-> {"phone", "webhook"}, keyword |-> FALSE,
    server |-> FALSE, rule |-> "mail"],
   [enabled |-> TRUE, targets |-> {"mail"}, keyword |-> TRUE,
    server |-> TRUE, rule |-> "phone"]}

MCShapes == {{}, {"login"}}
=============================================================================
