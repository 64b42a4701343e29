---------------------------- MODULE MCFtpControl ----------------------------
(* FtpControl for TLC: every call (Mkdir and Rmdir go as Delete does), a range *)
(* from the middle of the file.                                               *)
EXTENDS FtpControl

MCNames == DOMAIN Verbs \ {"Mkdir", "Rmdir"}
(* Four unread replies are enough to take a late one for the start of a file. *)
MCMaxBehind == [n \in DOMAIN Verbs |-> CASE n = "Get" -> 4 [] OTHER -> 1]
MCCalls == {c \in [name : MCNames, at : {0, 1}] : (c.at # 0) = (c.name = "GetRange")}
=============================================================================
