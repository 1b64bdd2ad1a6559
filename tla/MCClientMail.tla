---------------------------- MODULE MCClientMail ----------------------------
(* Small instance of ClientMail: a sender and a receiver with configs of   *)
(* every kind, and sends that leave the choice to the client or insist on  *)
(* the clear.                                                              *)
EXTENDS ClientMail
Send(from, forced) == [from |-> from, forced |-> forced]
MCSenders == {"al"}
MCCommands == {Send("al", FALSE), Send("al", TRUE)}
MCConfigs ==
  {[al |-> "identity", bo |-> k] : k \in Kinds} \union {[al |-> k, bo |-> "identity"] : k \in Kinds}
=============================================================================
