------------------------------ MODULE FtpControl ------------------------------
(***************************************************************************)
(* One FTP client and its server.  Every call of the client is a short     *)
(* script of commands on the control connection, each answered by a reply  *)
(* the client tells from others only by being next in line; a transfer     *)
(* runs on a data connection of its own and is answered twice, when it is  *)
(* opened and when it is closed.  The client is passive: it asks for a     *)
(* port (PASV), sends the transfer command and connects.                   *)
(*                                                                         *)
(* A reply is fresh if it answers the last command sent.  The server, and  *)
(* the network that may take it away, are external.                        *)
(***************************************************************************)
EXTENDS Integers, Sequences

CONSTANTS
  Calls,      (* the calls the program makes: [name, at], at: where it asks to start *)
  Blocks,     (* the length of a file or of a listing                                *)
  Pipe,       (* how much of it the data connection holds                            *)
  MaxBehind   (* bound: how many replies may be unread when each call is made        *)

Verbs == [Ping |-> <<"NOOP">>, Mkdir |-> <<"MKD">>, Delete |-> <<"DELE">>, Rmdir |-> <<"RMD">>,
          Rename |-> <<"RNFR", "RNTO">>, Size |-> <<"TYPE I", "SIZE">>, Quit |-> <<"QUIT">>,
          Head |-> <<"RETR">>, GetRange |-> <<"RETR">>, Get |-> <<"RETR">>, Put |-> <<"STOR">>,
          ListDir |-> <<"LIST">>]
Readers == {"Head", "GetRange", "Get", "ListDir"}
Transfers == Readers \cup {"Put"}
Connect == [name |-> "Connect", at |-> 0]
Commands == {"HELLO", "USER", "PASS", "QUIT", "NOOP", "MKD", "DELE", "RMD", "RNFR", "RNTO", "SIZE",
             "CWD", "TYPE I", "TYPE A", "PASV", "REST", "RETR", "STOR", "LIST"}

ASSUME FtpControlAssumption ==
  /\ Calls \subseteq [name : DOMAIN Verbs, at : 0..Blocks]
  /\ \A c \in Calls : c.at # 0 => c.name = "GetRange"
  /\ Blocks \in Nat \ {0} /\ Pipe \in Nat \ {0}
  /\ MaxBehind \in [DOMAIN Verbs -> Nat]

VARIABLES
  pc, call, todo,        (* the call being made, where it is, the commands it has left *)
  stale,                 (* history: the server still held the position given to it    *)
                         (* by an earlier call when this one began                     *)
  offset, response,      (* mp_ftphandle: where the next RETR starts; class of the last reply, *)
                         (* which only Connect looks at                            *)
  is_connected,
  port,                  (* the data port it knows is that of its last PASV            *)
  moved, broke,          (* blocks read or written by the call; the local file failed *)
  ret,                   (* what the last call returned                                *)
  behind,                (* history: a transfer was given up before its last reply     *)
  up, inbox, chan,       (* control connection: commands and replies on their way      *)
  user, mode, marker, listens, (* server: login, TYPE, REST, an open PASV port          *)
  serving, from, pos,    (* server: the transfer it runs, where it began, where it is  *)
  done,                  (* history: the server has done what the call asks            *)
  dconn, dpipe, dend     (* data connection: client's end, blocks in it, server's end  *)

result == <<ret, behind, done>>
client == <<pc, call, stale, todo, offset, response, is_connected, port, moved, broke, ret, behind>>
control == <<up, inbox, chan>>
login == <<user, mode, marker, listens>>
transfer == <<serving, from, pos>>
data == <<dconn, dpipe, dend>>
vars == <<client, control, login, transfer, done, data>>

Command == [cmd : Commands \cup {"none"}, fresh : BOOLEAN]
Reply == [of : Commands \cup {"none"}, class : 1..5, fresh : BOOLEAN]
NoCommand == [cmd |-> "none", fresh |-> FALSE]

TypeOK ==
  /\ pc \in {"closed", "idle", "send", "read", "connect", "answer", "data", "shut", "last", "wild"}
  /\ call \in Calls \cup {Connect} /\ stale \in BOOLEAN
  /\ todo \in Seq(Commands)
  /\ pc \in {"send", "read", "connect", "answer", "data", "shut", "last"} => todo # <<>>
  /\ offset \in 0..Blocks /\ response \in 0..5 /\ is_connected \in BOOLEAN
  /\ port \in BOOLEAN /\ moved \in 0..Blocks /\ broke \in BOOLEAN
  /\ ret \in {0, 1} /\ behind \in BOOLEAN /\ done \in BOOLEAN
  /\ up \in BOOLEAN /\ inbox \in Seq(Command) /\ chan \in Seq(Reply)
  /\ user \in {"none", "asked", "in"} /\ mode \in {"A", "I"}
  /\ marker \in 0..Blocks /\ listens \in BOOLEAN
  /\ serving \in Command /\ from \in 0..Blocks /\ pos \in 0..Blocks
  /\ dconn \in {"none", "open", "dead", "shut"} /\ dpipe \in 0..Pipe /\ dend \in {"open", "eof", "cut"}

Init ==
  /\ pc = "closed" /\ call = Connect /\ stale = FALSE /\ todo = <<>>
  /\ offset = 0 /\ response = 0 /\ is_connected = FALSE
  /\ port = FALSE /\ moved = 0 /\ broke = FALSE /\ ret = 0 /\ behind = FALSE
  /\ up = FALSE /\ inbox = <<>> /\ chan = <<>>
  /\ user = "none" /\ mode = "A" /\ marker = 0 /\ listens = FALSE
  /\ serving = NoCommand /\ from = 0 /\ pos = 0 /\ done = FALSE
  /\ dconn = "none" /\ dpipe = 0 /\ dend = "open"

-----------------------------------------------------------------------------
(***************************************************************************)
(* The scripts.                                                            *)
(***************************************************************************)
(* FtpAccess and FtpOpenPasv: the type, a port, the position, the transfer. *)
Access(type, verb, at) ==
  <<type, "PASV">> \o (IF at = 0 THEN <<>> ELSE <<"REST">>) \o verb

Script(c, at) ==
  CASE c.name = "ListDir" -> <<"CWD">> \o Access("TYPE A", Verbs["ListDir"], at)
    [] c.name \in Transfers \ {"ListDir"} -> Access("TYPE I", Verbs[c.name], at)
    [] OTHER -> Verbs[c.name]

(* Where the call has the transfer start; Head leaves what it finds. *)
MutOffset(c) == IF c.name \in {"Get", "Put", "GetRange"} /\ c.at # 0 THEN c.at ELSE offset
Offset(c) ==
  CASE c.name \in {"Get", "Put", "GetRange"} -> c.at
    [] c.name = "ListDir" -> 0
    [] OTHER -> offset

MutExpects(cmd) ==
  CASE cmd \in {"NOOP", "PASS"} -> {2, 5}
    [] cmd \in {"USER", "REST", "RNFR"} -> {3}
    [] OTHER -> {2}
Expects(cmd) ==
  CASE cmd = "NOOP" -> {2, 5}
    [] cmd \in {"USER", "REST", "RNFR"} -> {3}
    [] OTHER -> {2}

(* PASV and SIZE also look for what they need in the text of the reply. *)
Good(cmd, r) == r.class \in Expects(cmd) /\ (cmd \in {"PASV", "SIZE"} => r.of = cmd)

(* One block is enough for Head and GetRange, the others read or write all. *)
MutWants == IF call.name \in {"Head", "GetRange"} THEN 1 ELSE Blocks + 1
Wants == IF call.name \in {"Head", "GetRange"} THEN 1 ELSE Blocks

-----------------------------------------------------------------------------
(***************************************************************************)
(* Control connection, client's side.                                      *)
(***************************************************************************)
Old(s) == [i \in DOMAIN s |-> [s[i] EXCEPT !.fresh = FALSE]]

Returns(r) == pc' = "idle" /\ ret' = r /\ todo' = <<>>
Closes(r) == pc' = "closed" /\ ret' = r /\ is_connected' = FALSE /\ todo' = <<>>
Goes(next) == pc' = "send" /\ todo' = next /\ UNCHANGED ret
LogsIn == Returns(1) /\ is_connected' = TRUE

(* A new client object and a connection to the server, or none. *)
Connects ==
  /\ pc = "closed"
  /\ call' = Connect /\ stale' = FALSE /\ offset' = 0 /\ response' = 0
  /\ port' = FALSE /\ moved' = 0 /\ broke' = FALSE
  /\ behind' = FALSE /\ done' = FALSE
  /\ user' = "none" /\ mode' = "A" /\ marker' = 0 /\ listens' = FALSE
  /\ serving' = NoCommand /\ from' = 0 /\ pos' = 0
  /\ dconn' = "none" /\ dpipe' = 0 /\ dend' = "open" /\ chan' = <<>>
  /\ \/ /\ up' = TRUE /\ inbox' = <<[cmd |-> "HELLO", fresh |-> TRUE]>>
        /\ pc' = "read" /\ todo' = <<"HELLO", "USER", "PASS">>
        /\ UNCHANGED <<is_connected, ret>>
     \/ /\ up' = FALSE /\ inbox' = <<>>
        /\ Closes(0)

(* A call of the program on a connected client. *)
Begins(c) ==
  /\ pc = "idle" /\ is_connected /\ Len(chan) + Len(inbox) <= MaxBehind[c.name]
  /\ call' = c /\ stale' = (marker # 0)
  /\ offset' = Offset(c)
  /\ todo' = Script(c, offset')
  /\ pc' = "send" /\ moved' = 0 /\ broke' = FALSE /\ ret' = 0 /\ done' = FALSE
  /\ UNCHANGED <<response, is_connected, port, behind, control, login, transfer, data>>

(* FtpSendCmd, first half; a transfer command is followed by connect(2). *)
Sends ==
  /\ pc = "send" /\ up
  /\ inbox' = Append(Old(inbox), [cmd |-> Head(todo), fresh |-> TRUE])
  /\ chan' = Old(chan)
  /\ serving' = [serving EXCEPT !.fresh = FALSE]
  /\ pc' = IF Head(todo) \in {"RETR", "STOR", "LIST"} THEN "connect" ELSE "read"
  /\ UNCHANGED <<call, stale, todo, offset, response, is_connected, port, moved, broke, result, up, login,
                 from, pos, data>>

(* The command failed: it could not be sent, or its reply is missing or bad. *)
Fails ==
  LET cmd == Head(todo) IN
  \/ /\ cmd = "CWD"                       \* ListDir does not look
     /\ Goes(Tail(todo)) /\ UNCHANGED is_connected
  \/ /\ cmd = "REST"                      \* 0 is taken for success: no data handle
     /\ pc' = "wild" /\ UNCHANGED <<todo, ret, is_connected>>
  \/ /\ cmd \in {"HELLO", "QUIT"}
     /\ Closes(IF call = Connect THEN 0 ELSE 1)
  \/ /\ cmd = "USER" /\ response' = 2     \* no password needed
     /\ LogsIn
  \/ /\ cmd = "PASS" \/ (cmd = "USER" /\ response' # 2)
     /\ Goes(<<"QUIT">>) /\ UNCHANGED is_connected
  \/ /\ cmd \notin {"CWD", "REST", "HELLO", "QUIT", "USER", "PASS"}
     /\ Returns(0) /\ UNCHANGED is_connected

Succeeds ==
  \/ /\ Tail(todo) # <<>>
     /\ Goes(Tail(todo)) /\ UNCHANGED is_connected
  \/ /\ todo = <<"PASS">> /\ LogsIn
  \/ /\ todo = <<"QUIT">> /\ Closes(IF call = Connect THEN 0 ELSE 1)
  \/ /\ Tail(todo) = <<>> /\ Head(todo) \notin {"PASS", "QUIT"}
     /\ Returns(1) /\ UNCHANGED is_connected

SendFails ==
  /\ pc = "send" /\ ~up
  /\ response' = response
  /\ Fails
  /\ UNCHANGED <<call, stale, offset, port, moved, broke, behind, done, control, login, transfer, data>>

(* ReadResponse: the next reply, whatever it answers. *)
Takes ==
  /\ chan # <<>> /\ chan' = Tail(chan)
  /\ response' = IF call = Connect THEN Head(chan).class ELSE 0
  /\ UNCHANGED <<up, inbox>>
(* The connection has ended; the text of the last reply stays where it is. *)
MutEnded == chan = <<>> /\ ~up /\ pc = "answer" /\ UNCHANGED <<response, control>>
Ended == chan = <<>> /\ ~up /\ UNCHANGED <<response, control>>

Reads ==
  /\ pc = "read"
  /\ \/ /\ Takes
        /\ port' = IF Head(todo) = "PASV" THEN Head(chan).fresh ELSE port
        /\ IF Good(Head(todo), Head(chan)) THEN Succeeds ELSE Fails
     \/ Ended /\ Fails /\ UNCHANGED port
  /\ UNCHANGED <<call, stale, offset, moved, broke, behind, done, login, transfer, data>>

-----------------------------------------------------------------------------
(***************************************************************************)
(* Transfers, client's side.                                               *)
(***************************************************************************)
(* socket or setsockopt fails: the server has been given a port, and perhaps a *)
(* position, and never hears of the transfer they were for.                *)
SocketFails ==
  /\ pc = "send" /\ Head(todo) \in {"RETR", "STOR", "LIST"}
  /\ Returns(0)
  /\ UNCHANGED <<call, stale, offset, response, is_connected, port, moved, broke, behind, done, control,
                 login, transfer, data>>

(* A port the server closes when it comes to a later PASV leads nowhere.   *)
Opens ==
  /\ pc = "connect" /\ up
  /\ pc' = "answer"
  /\ dpipe' = 0
  /\ \/ port /\ listens /\ dconn' = "open" /\ dend' = "open"
     \/ ~port /\ dconn' = "dead" /\ dend' = "cut"
  /\ UNCHANGED <<call, stale, todo, offset, response, is_connected, port, moved, broke, result, control,
                 login, transfer>>

(* -1 without reading the reply to the transfer command. *)
OpenFails ==
  /\ pc = "connect"
  /\ Returns(0)
  /\ behind' = TRUE
  /\ UNCHANGED <<call, stale, offset, response, is_connected, port, moved, broke, done, control, login,
                 transfer, data>>

Answered ==
  /\ pc = "answer"
  /\ \/ /\ Takes /\ Head(chan).class = 1
        /\ pc' = "data" /\ UNCHANGED <<todo, ret, dconn>>
     \/ /\ \/ Takes /\ Head(chan).class # 1
           \/ Ended
        /\ Returns(0) /\ dconn' = "shut"
  /\ UNCHANGED <<call, stale, offset, is_connected, port, moved, broke, behind, done, login, transfer,
                 dpipe, dend>>

(* No memory for the data handle: the transfer is open, and nobody takes it. *)
NotOpened ==
  /\ pc = "answer" /\ Takes /\ Head(chan).class = 1
  /\ Returns(0) /\ dconn' = "shut"
  /\ behind' = TRUE
  /\ UNCHANGED <<call, stale, offset, is_connected, port, moved, broke, done, login, transfer, dpipe, dend>>

(* FtpRead and the write of what was read, which may fail for Get and GetRange. *)
Gets ==
  /\ pc = "data" /\ call.name \in Readers /\ dpipe > 0 /\ moved < Wants
  /\ dpipe' = dpipe - 1
  /\ moved' = moved + 1
  /\ \/ pc' = "data" /\ UNCHANGED broke
     \/ call.name \in {"Get", "GetRange"} /\ pc' = "shut" /\ broke' = TRUE
  /\ UNCHANGED <<call, stale, todo, offset, response, is_connected, port, result, control, login, transfer,
                 dconn, dend>>

(* FtpWrite of what was read from the local file. *)
Puts ==
  /\ pc = "data" /\ call.name = "Put" /\ moved < Wants /\ dend = "open" /\ dpipe < Pipe
  /\ dpipe' = dpipe + 1
  /\ moved' = moved + 1
  /\ UNCHANGED <<pc, call, stale, todo, offset, response, is_connected, port, broke, result, control, login,
                 transfer, dconn, dend>>

(* fread's 0 on an error of the local file is taken for the end of it. *)
PutBreaks ==
  /\ pc = "data" /\ call.name = "Put" /\ moved < Wants
  /\ pc' = "shut" /\ broke' = TRUE
  /\ UNCHANGED <<call, stale, todo, offset, response, is_connected, port, moved, result, control, login,
                 transfer, data>>

(* All of it, the end of the data, or an error on the data connection. *)
DataEnds ==
  /\ pc = "data"
  /\ \/ call.name \in {"Head", "GetRange", "Put"} /\ moved = Wants
     \/ call.name \in Readers /\ dpipe = 0 /\ dend # "open"
     \/ call.name = "Put" /\ dend # "open"
  /\ pc' = "shut"
  /\ UNCHANGED <<call, stale, todo, offset, response, is_connected, port, moved, broke, result, control,
                 login, transfer, data>>

(* FtpClose: the data connection, then the second reply. *)
MutShuts ==
  /\ pc = "shut"
  /\ dconn' = "shut" /\ Returns(1)
  /\ UNCHANGED <<call, stale, offset, response, is_connected, port, moved, broke, behind, done, control,
                 login, transfer, dpipe, dend>>
Shuts ==
  /\ pc = "shut"
  /\ dconn' = "shut" /\ pc' = "last"
  /\ UNCHANGED <<call, stale, todo, offset, response, is_connected, port, moved, broke, result, control,
                 login, transfer, dpipe, dend>>

MutClosed(ok) == Returns(1)
Closed(ok) ==
  Returns(CASE call.name \in {"Get", "Put"} -> IF ok THEN 1 ELSE 0
            [] call.name = "Head" -> moved
            [] call.name = "GetRange" -> IF broke THEN 0 ELSE 1
            [] OTHER -> 1)

Last ==
  /\ pc = "last"
  /\ \/ Takes /\ Closed(Head(chan).class = 2)
     \/ Ended /\ Closed(FALSE)
  /\ offset' = IF call.name = "GetRange" THEN 0 ELSE offset
  /\ UNCHANGED <<call, stale, is_connected, port, moved, broke, behind, done, login, transfer, data>>

-----------------------------------------------------------------------------
(***************************************************************************)
(* The server.                                                             *)
(***************************************************************************)
ReplyTo(c, class) == [of |-> c.cmd, class |-> class, fresh |-> c.fresh]
Serves(cmds) == up /\ serving = NoCommand /\ inbox # <<>> /\ Head(inbox).cmd \in cmds
Answers(class) ==
  /\ inbox' = Tail(inbox)
  /\ chan' = Append(chan, ReplyTo(Head(inbox), class))
  /\ UNCHANGED up

ServesLogin ==
  /\ \/ Serves({"HELLO"}) /\ Answers(2) /\ UNCHANGED user
     \/ Serves({"USER"}) /\ Answers(2) /\ user' = "in"
     \/ Serves({"USER"}) /\ Answers(3) /\ user' = "asked"
     \/ Serves({"PASS"}) /\ user = "asked" /\ Answers(2) /\ user' = "in"
  /\ UNCHANGED <<client, mode, marker, listens, transfer, done, data>>

Orders == {"MKD", "DELE", "RMD", "RNTO", "SIZE"}
Does ==
  /\ user = "in"
  /\ \/ Serves(Orders \cup {"NOOP", "CWD", "TYPE I", "TYPE A", "PASV"}) /\ Answers(2)
     \/ Serves({"RNFR", "REST"}) /\ Answers(3)
  /\ LET c == Head(inbox) IN
     /\ mode' = CASE c.cmd = "TYPE I" -> "I" [] c.cmd = "TYPE A" -> "A" [] OTHER -> mode
     /\ listens' = (listens \/ c.cmd = "PASV")
     /\ marker' = IF c.cmd = "REST" THEN offset ELSE marker
     /\ done' = (done \/ (~behind /\ c.fresh /\ c.cmd \in Orders))
  /\ UNCHANGED <<client, user, transfer, data>>

Refuses ==
  /\ Serves(Commands \ {"QUIT", "RETR", "STOR", "LIST"}) /\ Answers(5)
  /\ UNCHANGED <<client, login, transfer, done, data>>

ServesQuit ==
  /\ Serves({"QUIT"})
  /\ inbox' = <<>> /\ chan' = Append(chan, ReplyTo(Head(inbox), 2)) /\ up' = FALSE
  /\ UNCHANGED <<client, login, transfer, done, data>>

OpensTransfer ==
  /\ Serves({"RETR", "STOR", "LIST"}) /\ dconn = "open" /\ Answers(1)
  /\ serving' = Head(inbox)
  /\ from' = (IF Head(inbox).cmd = "LIST" THEN 0 ELSE marker)
  /\ pos' = (IF Head(inbox).cmd = "RETR" THEN marker ELSE 0)
  /\ marker' = 0 /\ listens' = FALSE
  /\ UNCHANGED <<client, user, mode, done, data>>

(* No such file; the port may be closed before the client has connected. *)
RefusesTransfer ==
  /\ Serves({"RETR", "STOR", "LIST"}) /\ Answers(5)
  /\ listens' \in {FALSE, listens}
  /\ marker' = 0
  /\ UNCHANGED <<client, user, mode, transfer, done, data>>

(* Nobody connects to the port: given up, after or instead of the first reply. *)
Waited ==
  /\ Serves({"RETR", "STOR", "LIST"}) /\ dconn # "open" /\ pc # "connect"
  /\ inbox' = Tail(inbox)
  /\ \E first \in {<<>>, <<ReplyTo(Head(inbox), 1)>>} :
       chan' = chan \o first \o <<ReplyTo(Head(inbox), 4)>>
  /\ marker' = 0 /\ listens' = FALSE
  /\ UNCHANGED <<client, up, user, mode, transfer, done, data>>

Streams ==
  /\ up
  /\ \/ /\ serving.cmd \in {"RETR", "LIST"} /\ dconn = "open" /\ pos < Blocks /\ dpipe < Pipe
        /\ dpipe' = dpipe + 1
     \/ /\ serving.cmd = "STOR" /\ dpipe > 0 /\ pos < Blocks
        /\ dpipe' = dpipe - 1
  /\ pos' = pos + 1
  /\ UNCHANGED <<client, control, login, serving, from, done, dconn, dend>>

(* The end of a transfer; a dead data connection is none of its own. *)
Finishes(class, end) ==
  /\ chan' = Append(chan, ReplyTo(serving, class))
  /\ serving' = NoCommand /\ pos' = 0
  /\ dend' = IF dconn = "dead" THEN dend ELSE end
  /\ UNCHANGED <<client, up, inbox, login, from, dconn>>

Completes ==
  /\ up
  /\ \/ serving.cmd \in {"RETR", "LIST"} /\ pos = Blocks /\ UNCHANGED done
     \/ /\ serving.cmd = "STOR" /\ dconn = "shut" /\ dpipe = 0
        /\ done' = (done \/ (serving.fresh /\ from = 0 /\ pos = Blocks))
  /\ Finishes(2, "eof")
  /\ UNCHANGED dpipe

(* The client has hung up, or an error of the server or the data connection. *)
Aborts ==
  /\ up /\ serving # NoCommand
  /\ Finishes(4, "cut")
  /\ dpipe' = 0
  /\ UNCHANGED done

(* The connection is lost, or the server ends it, with a last word perhaps. *)
(* A transfer it had completed still arrives.                              *)
Drops ==
  /\ up /\ pc # "closed" /\ ~behind
  /\ up' = FALSE /\ inbox' = <<>>
  /\ chan' \in {chan, Append(chan, [of |-> "none", class |-> 4, fresh |-> FALSE])}
  /\ serving' = NoCommand /\ pos' = 0
  /\ \/ dend = "eof" /\ UNCHANGED <<dpipe, dend>>
     \/ dend # "eof" /\ dend' = "cut" /\ dpipe' = 0
  /\ UNCHANGED <<client, login, from, done, dconn>>

-----------------------------------------------------------------------------
ClientStep ==
  \/ Sends \/ SendFails \/ Reads
  \/ SocketFails \/ Opens \/ OpenFails \/ Answered \/ NotOpened
  \/ Gets \/ Puts \/ PutBreaks \/ DataEnds \/ Shuts \/ Last

ServerStep ==
  \/ ServesLogin \/ Does \/ Refuses \/ ServesQuit
  \/ OpensTransfer \/ RefusesTransfer \/ Waited \/ Streams \/ Completes \/ Aborts

Next ==
  \/ Connects
  \/ \E c \in Calls : Begins(c)
  \/ ClientStep
  \/ ServerStep
  \/ Drops

Spec == Init /\ [][Next]_vars

(* The thread that makes the call is scheduled; the server answers or is lost. *)
FairSpec == Spec /\ WF_vars(ClientStep) /\ WF_vars(ServerStep)

-----------------------------------------------------------------------------
(* Replies are matched to commands by their order alone.  As long as no       *)
(* transfer has been given up before its last reply, each reply read answers  *)
(* the command just sent, and between two calls nothing is left unread but a  *)
(* server's last word.                                                        *)
InStep ==
  ~behind =>
    /\ pc \in {"read", "answer", "last"} /\ chan # <<>> =>
         Head(chan).fresh \/ Head(chan).of = "none"
    /\ pc \in {"idle", "send"} =>
         /\ inbox = <<>> /\ serving = NoCommand
         /\ \A i \in DOMAIN chan : chan[i].of = "none"

(* Data moves only on a connection in step, in the mode the call needs and    *)
(* from where it asked: no transfer is confused with another.  (A late reply  *)
(* may be taken for the start of a transfer, but then the data connection     *)
(* leads nowhere.)  Two calls are excepted that do not say where to start.    *)
(* Head leaves the offset of a GetRange that failed where it is; and one that *)
(* asks for the beginning sends no REST, so it gets what is left of a call    *)
(* that had its position accepted and then no socket (stale).                 *)
TransferRight ==
  pc = "data" /\ (dconn = "open" \/ moved # 0) =>
    /\ ~behind
    /\ up => mode = IF call.name = "ListDir" THEN "A" ELSE "I"
    /\ \/ from = call.at
       \/ call.name = "Head" /\ offset # 0
       \/ stale /\ offset = 0 /\ call.name # "ListDir"

(* A call that reports success has been carried out by the server, unless a   *)
(* transfer had been given up before its last reply; a Put has stored and a   *)
(* Get has read the whole file, unless its local file failed or the transfer  *)
(* began at a stale position.                                                 *)
Honest ==
  pc = "idle" /\ ret = 1 =>
    /\ call.name \in {"Mkdir", "Delete", "Rmdir", "Rename", "Size"} /\ ~behind => done
    /\ call.name = "Put" /\ ~behind /\ ~broke /\ ~stale => done
    /\ call.name = "Get" /\ ~broke /\ ~stale => moved = Blocks

(* A client that counts as connected has been let in, or its server is gone. *)
LoggedIn == pc = "idle" /\ is_connected /\ up => user = "in"

(* Every call returns (or has crashed on the missing data handle of a failed  *)
(* REST): the client never waits for a reply that nothing will bring.         *)
CallsReturn == pc \notin {"idle", "closed"} ~> pc \in {"idle", "closed", "wild"}
=============================================================================
