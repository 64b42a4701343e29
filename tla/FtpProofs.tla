------------------------------ MODULE FtpProofs ------------------------------
(***************************************************************************)
(* The types of FtpControl, and that its client and its server keep in     *)
(* step, for every set of calls, every length of file and any number of    *)
(* unread replies, proved.                                                 *)
(***************************************************************************)
EXTENDS FtpControl, SequenceTheorems, TLAPS

-----------------------------------------------------------------------------
(***************************************************************************)
(* Sequences and scripts.                                                  *)
(***************************************************************************)
(* The commands of a client that is logged in. *)
Working == Commands \ {"HELLO", "USER", "PASS"}

(* A script ends in a command whose failure is the failure of the call. *)
Proper(s) == s # <<>> /\ s[Len(s)] # "CWD"

LEMMA OldSeq ==
  ASSUME NEW S, NEW s \in Seq(S), \A x \in S : [x EXCEPT !.fresh = FALSE] \in S
  PROVE  /\ Old(s) \in Seq(S)
         /\ Len(Old(s)) = Len(s)
         /\ \A i \in 1..Len(s) : Old(s)[i] = [s[i] EXCEPT !.fresh = FALSE]
<1>1. DOMAIN s = 1..Len(s) /\ Len(s) \in Nat
  OBVIOUS
<1>2. \A i \in 1..Len(s) : s[i] \in S
  OBVIOUS
<1>3. Old(s) = [i \in 1..Len(s) |-> [s[i] EXCEPT !.fresh = FALSE]]
  BY <1>1 DEF Old
<1>4. Old(s) \in [1..Len(s) -> S]
  BY <1>2, <1>3
<1>5. Old(s) \in Seq(S) /\ Len(Old(s)) = Len(s)
  BY <1>1, <1>4, IsASeq, <1>3
<1>6. QED  BY <1>5, <1>3

LEMMA OldEmpty == Old(<<>>) = <<>>
BY DEF Old

(* A proper script behind anything is proper, and so is what is left of one. *)
LEMMA ConcatProper ==
  ASSUME NEW S, NEW s \in Seq(S), NEW t \in Seq(S), Proper(t)
  PROVE  s \o t \in Seq(S) /\ Proper(s \o t)
<1>1. Len(s) \in Nat /\ Len(t) \in Nat /\ Len(t) > 0
  BY DEF Proper
<1>2. /\ s \o t \in Seq(S) /\ Len(s \o t) = Len(s) + Len(t)
      /\ (s \o t)[Len(s) + Len(t)] = t[Len(t)]
  BY <1>1, ConcatProperties
<1>3. s \o t # <<>>
  BY <1>1, <1>2
<1>4. QED  BY <1>2, <1>3 DEF Proper

LEMMA TailProper ==
  ASSUME NEW S, NEW s \in Seq(S), Proper(s)
  PROVE  /\ Head(s) \in S /\ Tail(s) \in Seq(S)
         /\ Head(s) = "CWD" => Tail(s) # <<>>
         /\ Tail(s) # <<>> => Proper(Tail(s))
<1>1. /\ Head(s) \in S /\ Tail(s) \in Seq(S) /\ Len(Tail(s)) = Len(s) - 1
      /\ \A i \in 1..Len(Tail(s)) : Tail(s)[i] = s[i + 1]
  BY HeadTailProperties DEF Proper
<1>2. Len(s) \in Nat /\ Len(s) >= 1 /\ Head(s) = s[1]
  BY DEF Proper
<1>3. ASSUME Tail(s) # <<>>  PROVE Proper(Tail(s))
  <2>1. Len(Tail(s)) \in Nat /\ Len(Tail(s)) >= 1
    BY <1>1, <1>3
  <2>2. Tail(s)[Len(Tail(s))] = s[Len(s)]
    BY <1>1, <1>2, <2>1
  <2>3. QED  BY <1>3, <2>2 DEF Proper
<1>4. ASSUME Head(s) = "CWD"  PROVE Tail(s) # <<>>
  <2>1. Len(s) # 1
    BY <1>2, <1>4 DEF Proper
  <2>2. Len(Tail(s)) >= 1
    BY <1>1, <1>2, <2>1
  <2>3. QED  BY <2>2
<1>5. QED  BY <1>1, <1>3, <1>4

LEMMA ShortSeqs ==
  /\ \A S : \A x \in S : <<x>> \in Seq(S)
  /\ \A S : \A x, y \in S : <<x, y>> \in Seq(S)
OBVIOUS

LEMMA ShortProper ==
  /\ \A x \in Working \ {"CWD"} : <<x>> \in Seq(Working) /\ Proper(<<x>>)
  /\ \A x, y \in Working \ {"CWD"} : <<x, y>> \in Seq(Working) /\ Proper(<<x, y>>)
BY DEF Proper

LEMMA VerbsProper ==
  \A n \in DOMAIN Verbs : Verbs[n] \in Seq(Working) /\ Proper(Verbs[n])
<1>3. \A x \in {"NOOP", "MKD", "DELE", "RMD", "RNFR", "RNTO", "TYPE I", "SIZE", "QUIT", "RETR", "STOR",
                "LIST"} : x \in Working \ {"CWD"}
  BY DEF Working, Commands
<1>4. DOMAIN Verbs = {"Ping", "Mkdir", "Delete", "Rmdir", "Rename", "Size", "Quit", "Head", "GetRange",
                      "Get", "Put", "ListDir"}
  BY DEF Verbs
<1>5. /\ Verbs["Ping"] = <<"NOOP">> /\ Verbs["Mkdir"] = <<"MKD">> /\ Verbs["Delete"] = <<"DELE">>
      /\ Verbs["Rmdir"] = <<"RMD">> /\ Verbs["Quit"] = <<"QUIT">>
  BY DEF Verbs
<1>6. Verbs["Rename"] = <<"RNFR", "RNTO">> /\ Verbs["Size"] = <<"TYPE I", "SIZE">>
  BY DEF Verbs
<1>7. /\ Verbs["Head"] = <<"RETR">> /\ Verbs["GetRange"] = <<"RETR">> /\ Verbs["Get"] = <<"RETR">>
      /\ Verbs["Put"] = <<"STOR">> /\ Verbs["ListDir"] = <<"LIST">>
  BY DEF Verbs
<1>8. /\ \A x \in {"NOOP", "MKD", "DELE", "RMD", "QUIT", "RETR", "STOR", "LIST"} :
           <<x>> \in Seq(Working) /\ Proper(<<x>>)
      /\ <<"RNFR", "RNTO">> \in Seq(Working) /\ Proper(<<"RNFR", "RNTO">>)
      /\ <<"TYPE I", "SIZE">> \in Seq(Working) /\ Proper(<<"TYPE I", "SIZE">>)
  BY <1>3, ShortProper, Zenon
<1>9. \A n \in {"Ping", "Mkdir", "Delete", "Rmdir", "Quit"} :
         Verbs[n] \in Seq(Working) /\ Proper(Verbs[n])
  BY <1>5, <1>8, Zenon
<1>10. \A n \in {"Rename", "Size"} : Verbs[n] \in Seq(Working) /\ Proper(Verbs[n])
  BY <1>6, <1>8, Zenon
<1>11. \A n \in {"Head", "GetRange", "Get", "Put", "ListDir"} :
         Verbs[n] \in Seq(Working) /\ Proper(Verbs[n])
  BY <1>7, <1>8, Zenon
<1>12. QED  BY <1>4, <1>9, <1>10, <1>11, Zenon

LEMMA ScriptProper ==
  ASSUME NEW c \in Calls, NEW at
  PROVE  Script(c, at) \in Seq(Working) /\ Proper(Script(c, at))
<1>1. c.name \in DOMAIN Verbs
  BY FtpControlAssumption
<1>2. /\ "TYPE A" \in Working /\ "TYPE I" \in Working /\ "PASV" \in Working
      /\ "REST" \in Working /\ "CWD" \in Working
  BY DEF Working, Commands
<1>3. ASSUME NEW type \in {"TYPE A", "TYPE I"}, NEW n \in DOMAIN Verbs
      PROVE  Access(type, Verbs[n], at) \in Seq(Working) /\ Proper(Access(type, Verbs[n], at))
  <2> DEFINE rest == IF at = 0 THEN <<>> ELSE <<"REST">>
  <2>0. type \in Working
    BY <1>2
  <2>1. <<type, "PASV">> \in Seq(Working) /\ <<"REST">> \in Seq(Working) /\ <<>> \in Seq(Working)
    BY <1>2, <2>0, ShortSeqs, EmptySeq, Zenon
  <2>2. rest \in Seq(Working) /\ <<type, "PASV">> \o rest \in Seq(Working)
    BY <2>1, ConcatProperties
  <2>3. QED  BY <2>2, VerbsProper, ConcatProper DEF Access
<1>4. CASE c.name = "ListDir"
  <2>1. "ListDir" \in DOMAIN Verbs
    BY <1>1, <1>4
  <2>2. <<"CWD">> \in Seq(Working)
    BY <1>2, ShortSeqs, Zenon
  <2>3. QED  BY <1>3, <1>4, <2>1, <2>2, ConcatProper DEF Script
<1>5. CASE c.name \in Transfers \ {"ListDir"}
  BY <1>1, <1>3, <1>5 DEF Script
<1>6. CASE c.name \notin Transfers
  BY <1>1, <1>6, VerbsProper DEF Script, Transfers, Readers
<1>7. QED  BY <1>4, <1>5, <1>6

-----------------------------------------------------------------------------
(***************************************************************************)
(* Type correctness.  What is left of a script never ends in CWD, whose    *)
(* failure is overlooked, so the client always has a next command to send; *)
(* Head returns how many blocks it has read, at most one.                  *)
(***************************************************************************)
Opened == {"RETR", "STOR", "LIST"}

Left == todo # <<>> => Proper(todo)
OneBlock == call.name = "Head" => moved \in {0, 1}
Serving == serving = NoCommand \/ serving.cmd \in Opened

TypeInv == TypeOK /\ Left /\ OneBlock /\ Serving

(* TypeOK in three parts. *)
ClientTypes ==
  /\ pc \in {"closed", "idle", "send", "read", "connect", "answer", "data", "shut", "last", "wild"}
  /\ call \in Calls \cup {Connect} /\ stale \in BOOLEAN
  /\ todo \in Seq(Commands)
  /\ pc \in {"send", "read", "connect", "answer", "data", "shut", "last"} => todo # <<>>
  /\ offset \in 0..Blocks /\ response \in 0..5 /\ is_connected \in BOOLEAN
  /\ port \in BOOLEAN /\ moved \in 0..Blocks /\ broke \in BOOLEAN
  /\ ret \in {0, 1} /\ behind \in BOOLEAN

WireTypes == up \in BOOLEAN /\ inbox \in Seq(Command) /\ chan \in Seq(Reply)

ServerTypes ==
  /\ user \in {"none", "asked", "in"} /\ mode \in {"A", "I"}
  /\ marker \in 0..Blocks /\ listens \in BOOLEAN
  /\ serving \in Command /\ from \in 0..Blocks /\ pos \in 0..Blocks /\ done \in BOOLEAN
  /\ dconn \in {"none", "open", "dead", "shut"} /\ dpipe \in 0..Pipe /\ dend \in {"open", "eof", "cut"}

LEMMA TypeParts ==
  /\ TypeOK <=> ClientTypes /\ WireTypes /\ ServerTypes
  /\ TypeOK' <=> ClientTypes' /\ WireTypes' /\ ServerTypes'
BY DEF TypeOK, ClientTypes, WireTypes, ServerTypes

LEMMA InitTypes == Init => TypeInv
<1>1. Connect \in [name : {"Connect"}, at : {0}] /\ Connect.name # "Head"
  BY DEF Connect
<1>2. <<>> \in Seq(Commands) /\ <<>> \in Seq(Command) /\ <<>> \in Seq(Reply)
  BY EmptySeq
<1>3. NoCommand \in Command
  BY DEF NoCommand, Command
<1>4. ASSUME Init  PROVE TypeOK
  <2>0. call \in Calls \cup {Connect} /\ stale = FALSE
    BY <1>4, Zenon DEF Init
  <2>1. call \in Calls \cup {Connect} /\ serving \in Command /\ todo \in Seq(Commands)
        /\ inbox \in Seq(Command) /\ chan \in Seq(Reply)
    BY <1>2, <1>3, <1>4, <2>0 DEF Init
  <2>2. 0 \in 0..Blocks /\ 0 \in 0..Pipe
    BY FtpControlAssumption
  <2>3. ClientTypes
    <3>1. /\ pc = "closed" /\ todo = <<>> /\ offset = 0 /\ response = 0 /\ is_connected = FALSE
          /\ port = FALSE /\ moved = 0 /\ broke = FALSE /\ ret = 0 /\ behind = FALSE /\ stale = FALSE
      BY <1>4 DEF Init
    <3>2. /\ offset \in 0..Blocks /\ response \in 0..5 /\ is_connected \in BOOLEAN
          /\ port \in BOOLEAN /\ moved \in 0..Blocks /\ broke \in BOOLEAN
          /\ ret \in {0, 1} /\ behind \in BOOLEAN /\ stale \in BOOLEAN
      <4>1. 0 \in 0..5
        OBVIOUS
      <4>2. QED  BY <2>2, <3>1, <4>1, Zenon
    <3>3. pc \notin {"send", "read", "connect", "answer", "data", "shut", "last"}
      BY <3>1
    <3>4. QED  BY <2>1, <3>1, <3>2, <3>3 DEF ClientTypes
  <2>4. WireTypes
    BY <1>4, <2>1 DEF Init, WireTypes
  <2>5. ServerTypes
    BY <1>4, <2>1, <2>2 DEF Init, ServerTypes
  <2>6. QED  BY <2>3, <2>4, <2>5, TypeParts
<1>5. ASSUME Init  PROVE Left /\ OneBlock /\ Serving
  BY <1>1, <1>5 DEF Init, Left, OneBlock, Serving
<1>6. QED  BY <1>4, <1>5 DEF TypeInv

LEMMA LoginProper ==
  <<"HELLO", "USER", "PASS">> \in Seq(Commands) /\ Proper(<<"HELLO", "USER", "PASS">>)
<1>1. \A x, y, z \in Commands \ {"CWD"} : <<x, y, z>> \in Seq(Commands) /\ Proper(<<x, y, z>>)
  BY DEF Proper
<1>2. /\ "HELLO" \in Commands \ {"CWD"} /\ "USER" \in Commands \ {"CWD"}
      /\ "PASS" \in Commands \ {"CWD"}
  BY DEF Commands
<1>3. QED  BY <1>1, <1>2, Zenon

(* The client's next command or the end of the call. *)
LEMMA FailsTypes ==
  ASSUME TypeInv, Fails, todo # <<>>, response' \in 0..5
  PROVE  /\ pc' \in {"closed", "idle", "send", "wild"}
         /\ todo' \in Seq(Commands) /\ (todo' # <<>> => Proper(todo'))
         /\ pc' = "send" => todo' # <<>>
         /\ ret' \in {0, 1} /\ is_connected' \in BOOLEAN
<1>1. todo \in Seq(Commands) /\ Proper(todo) /\ ret \in {0, 1} /\ is_connected \in BOOLEAN
  BY DEF TypeInv, TypeOK, Left
<1>2. /\ Tail(todo) \in Seq(Commands)
      /\ Head(todo) = "CWD" => Tail(todo) # <<>>
      /\ Tail(todo) # <<>> => Proper(Tail(todo))
  BY <1>1, TailProper
<1>3. "QUIT" \in Commands /\ "QUIT" # "CWD"
  BY DEF Commands
<1>4. <<"QUIT">> \in Seq(Commands) /\ <<>> \in Seq(Commands)
  BY <1>3, ShortSeqs, EmptySeq, Zenon
<1>5. Proper(<<"QUIT">>) /\ <<"QUIT">> # <<>>
  BY <1>3 DEF Proper
<1>6. QED
  BY <1>1, <1>2, <1>4, <1>5 DEF Fails, Goes, Closes, Returns, LogsIn

LEMMA SucceedsTypes ==
  ASSUME TypeInv, Succeeds, todo # <<>>
  PROVE  /\ pc' \in {"closed", "idle", "send"}
         /\ todo' \in Seq(Commands) /\ (todo' # <<>> => Proper(todo'))
         /\ pc' = "send" => todo' # <<>>
         /\ ret' \in {0, 1} /\ is_connected' \in BOOLEAN
<1>1. todo \in Seq(Commands) /\ Proper(todo) /\ ret \in {0, 1} /\ is_connected \in BOOLEAN
  BY DEF TypeInv, TypeOK, Left
<1>2. /\ Tail(todo) \in Seq(Commands)
      /\ Tail(todo) # <<>> => Proper(Tail(todo))
  BY <1>1, TailProper
<1>3. <<>> \in Seq(Commands)
  BY EmptySeq
<1>4. QED
  BY <1>1, <1>2, <1>3 DEF Succeeds, Goes, Closes, Returns, LogsIn

LEMMA TakesTypes ==
  ASSUME TypeInv, Takes
  PROVE  /\ chan' \in Seq(Reply) /\ Head(chan) \in Reply /\ response' \in 0..5
         /\ UNCHANGED <<up, inbox>>
<1>1. chan \in Seq(Reply) /\ chan # <<>>
  BY DEF TypeInv, TypeOK, Takes
<1>2. Head(chan) \in Reply /\ Tail(chan) \in Seq(Reply)
  BY <1>1, HeadTailProperties
<1>3. Head(chan).class \in 1..5 /\ Head(chan).fresh \in BOOLEAN
  BY <1>2 DEF Reply
<1>4. QED  BY <1>2, <1>3 DEF Takes

LEMMA AnswersTypes ==
  ASSUME TypeInv, NEW class \in 1..5, inbox # <<>>, Head(inbox).cmd \in Commands
  PROVE  /\ Tail(inbox) \in Seq(Command) /\ Head(inbox) \in Command
         /\ ReplyTo(Head(inbox), class) \in Reply
         /\ Append(chan, ReplyTo(Head(inbox), class)) \in Seq(Reply)
<1>1. inbox \in Seq(Command) /\ chan \in Seq(Reply)
  BY DEF TypeInv, TypeOK
<1>2. Head(inbox) \in Command /\ Tail(inbox) \in Seq(Command)
  BY <1>1, HeadTailProperties
<1>3. ReplyTo(Head(inbox), class) \in Reply
  BY <1>2 DEF ReplyTo, Reply, Command
<1>4. QED  BY <1>1, <1>2, <1>3, AppendProperties

LEMMA FinishesTypes ==
  ASSUME TypeInv, NEW class \in 1..5
  PROVE  Append(chan, ReplyTo(serving, class)) \in Seq(Reply)
<1>1. ReplyTo(serving, class) \in Reply
  BY DEF TypeInv, TypeOK, ReplyTo, Reply, Command
<1>2. QED  BY <1>1, AppendProperties DEF TypeInv, TypeOK

LEMMA TypesStep == TypeInv /\ [Next]_vars => TypeInv'
<1> SUFFICES ASSUME TypeInv, [Next]_vars  PROVE TypeInv'
  OBVIOUS
<1> USE DEF result, client, control, login, transfer, data
<1>0. /\ TypeOK /\ Left /\ OneBlock /\ Serving /\ Blocks \in Nat \ {0} /\ Pipe \in Nat \ {0}
      /\ 0 \in 0..Blocks /\ 0 \in 0..Pipe
  BY FtpControlAssumption DEF TypeInv
<1>p. ClientTypes /\ WireTypes /\ ServerTypes
  BY <1>0, TypeParts
<1>e. /\ <<>> \in Seq(Commands) /\ <<>> \in Seq(Command) /\ <<>> \in Seq(Reply)
      /\ NoCommand \in Command
  BY EmptySeq DEF NoCommand, Command
<1>1. CASE Connects
  <2>1. Connect.name # "Head"
    BY DEF Connect
  <2>2. [cmd |-> "HELLO", fresh |-> TRUE] \in Command
    BY DEF Command, Commands
  <2>3. <<[cmd |-> "HELLO", fresh |-> TRUE]>> \in Seq(Command)
    BY <2>2, ShortSeqs, Zenon
  <2>4. <<"HELLO", "USER", "PASS">> \in Seq(Commands) /\ Proper(<<"HELLO", "USER", "PASS">>)
    BY LoginProper
  <2>5. inbox' \in Seq(Command) /\ todo' \in Seq(Commands) /\ (todo' # <<>> => Proper(todo'))
        /\ pc' \in {"read", "closed"} /\ (pc' = "read" => todo' # <<>>) /\ up' \in BOOLEAN
        /\ is_connected' \in BOOLEAN /\ ret' \in {0, 1}
    <3>1. CASE up' = TRUE
      <4>1. /\ inbox' = <<[cmd |-> "HELLO", fresh |-> TRUE]>> /\ todo' = <<"HELLO", "USER", "PASS">>
            /\ pc' = "read" /\ is_connected' = is_connected /\ ret' = ret
        BY <1>1, <3>1 DEF Connects, Closes
      <4>2. inbox' \in Seq(Command) /\ todo' \in Seq(Commands) /\ Proper(todo')
        BY <2>3, <2>4, <4>1, Zenon
      <4>3. is_connected' \in BOOLEAN /\ ret' \in {0, 1}
        BY <1>p, <4>1 DEF ClientTypes
      <4>4. QED  BY <3>1, <4>1, <4>2, <4>3 DEF Proper
    <3>2. CASE up' = FALSE
      <4>1. inbox' = <<>> /\ todo' = <<>> /\ pc' = "closed" /\ is_connected' = FALSE /\ ret' = 0
        BY <1>1, <3>2 DEF Connects, Closes
      <4>2. QED  BY <1>e, <3>2, <4>1
    <3>3. QED  BY <1>1, <3>1, <3>2 DEF Connects
  <2>6. TypeOK'
    <3>1. ClientTypes'
      <4>1. /\ call' = Connect /\ stale' = FALSE /\ offset' = 0 /\ response' = 0 /\ port' = FALSE
            /\ moved' = 0 /\ broke' = FALSE /\ behind' = FALSE
        BY <1>1 DEF Connects
      <4>2. call' \in Calls \cup {Connect}
        BY <4>1, Zenon
      <4>3. offset' \in 0..Blocks /\ moved' \in 0..Blocks
        BY <1>0, <4>1
      <4>4. /\ response' \in 0..5 /\ port' \in BOOLEAN /\ broke' \in BOOLEAN /\ behind' \in BOOLEAN
            /\ stale' \in BOOLEAN
        <5>1. 0 \in 0..5
          OBVIOUS
        <5>2. QED  BY <4>1, <5>1, Zenon
      <4>5. QED  BY <2>5, <4>2, <4>3, <4>4 DEF ClientTypes
    <3>2. WireTypes'
      BY <1>p, <1>1, <1>0, <2>5, SMT DEF Connects, WireTypes
    <3>3. ServerTypes'
      <4>1. /\ user' = "none" /\ mode' = "A" /\ marker' = 0 /\ listens' = FALSE /\ done' = FALSE
            /\ serving' = NoCommand /\ from' = 0 /\ pos' = 0
            /\ dconn' = "none" /\ dpipe' = 0 /\ dend' = "open"
        BY <1>1 DEF Connects
      <4>2. QED  BY <1>p, <1>0, <4>1, <1>e DEF ServerTypes
    <3>4. QED  BY <3>1, <3>2, <3>3, TypeParts
  <2>7. QED  BY <1>1, <2>1, <2>5, <2>6 DEF Connects, TypeInv, Left, OneBlock, Serving
<1>2. ASSUME NEW c \in Calls, Begins(c)  PROVE TypeInv'
  <2>1. todo' \in Seq(Commands) /\ Proper(todo')
    <3>1. Working \subseteq Commands
      BY DEF Working
    <3>2. todo' \in Seq(Working) /\ Proper(todo')
      BY <1>2, ScriptProper DEF Begins
    <3>3. QED  BY <3>1, <3>2, SeqMonotonic
  <2>2. offset' \in 0..Blocks
    BY <1>0, <1>2, FtpControlAssumption DEF Begins, Offset, TypeOK
  <2>3. TypeOK'
    BY <1>0, <1>2, <2>1, <2>2 DEF Begins, TypeOK, Proper
  <2>4. QED  BY <1>0, <1>2, <2>1, <2>3 DEF Begins, TypeInv, Left, OneBlock, Serving
<1>3. CASE Sends
  <2>1. Head(todo) \in Commands
    BY <1>0, <1>3, TailProper DEF Sends, TypeOK, Left
  <2>2. [cmd |-> Head(todo), fresh |-> TRUE] \in Command
    BY <2>1 DEF Command
  <2>3. \A x \in Command : [x EXCEPT !.fresh = FALSE] \in Command
    BY DEF Command
  <2>4. \A x \in Reply : [x EXCEPT !.fresh = FALSE] \in Reply
    BY DEF Reply
  <2>5. Old(inbox) \in Seq(Command) /\ Old(chan) \in Seq(Reply)
    BY <1>0, <2>3, <2>4, OldSeq DEF TypeOK
  <2>6. inbox' \in Seq(Command) /\ chan' \in Seq(Reply)
    BY <1>3, <2>2, <2>5, AppendProperties DEF Sends
  <2>7. serving' \in Command /\ Serving'
    <3>1. serving' = [serving EXCEPT !.fresh = FALSE] /\ serving \in Command
      BY <1>p, <1>3 DEF Sends, ServerTypes
    <3>2. serving' \in Command /\ serving'.cmd = serving.cmd /\ (serving = NoCommand => serving' = NoCommand)
      BY <2>3, <3>1 DEF Command, NoCommand
    <3>3. QED  BY <1>0, <3>2 DEF Serving
  <2>8. TypeOK'
    BY <1>0, <1>3, <2>6, <2>7 DEF Sends, TypeOK
  <2>9. QED  BY <1>0, <1>3, <2>7, <2>8 DEF Sends, TypeInv, Left, OneBlock
<1>4. CASE SendFails
  <2>1. todo # <<>> /\ response' \in 0..5
    BY <1>0, <1>4 DEF SendFails, TypeOK
  <2>2. Fails
    BY <1>4 DEF SendFails
  <2>3. TypeOK' /\ Left'
    BY <1>0, <1>4, <2>1, <2>2, FailsTypes DEF SendFails, TypeOK, Left
  <2>4. QED  BY <1>0, <1>4, <2>3 DEF SendFails, TypeInv, OneBlock, Serving
<1>5. CASE Reads
  <2>1. todo # <<>>
    BY <1>0, <1>5 DEF Reads, TypeOK
  <2>2. CASE Takes
    <3>1. /\ chan' \in Seq(Reply) /\ Head(chan) \in Reply /\ response' \in 0..5
          /\ UNCHANGED <<up, inbox>>
      BY <2>2, TakesTypes
    <3>2. port' \in BOOLEAN
      BY <1>0, <1>5, <2>2, <3>1 DEF Reads, Takes, Ended, TypeOK, Reply
    <3>3. Succeeds \/ Fails
      BY <1>5 DEF Reads
    <3>4. /\ pc' \in {"closed", "idle", "send", "wild"}
          /\ todo' \in Seq(Commands) /\ (todo' # <<>> => Proper(todo'))
          /\ pc' = "send" => todo' # <<>>
          /\ ret' \in {0, 1} /\ is_connected' \in BOOLEAN
      BY <2>1, <3>1, <3>3, FailsTypes, SucceedsTypes
    <3>5. TypeOK'
      BY <1>0, <1>5, <3>1, <3>2, <3>4 DEF Reads, TypeOK
    <3>6. QED  BY <1>0, <1>5, <3>4, <3>5 DEF Reads, TypeInv, Left, OneBlock, Serving
  <2>3. CASE Ended /\ Fails /\ UNCHANGED port
    <3>1. response' \in 0..5 /\ UNCHANGED <<response, control>>
      BY <1>0, <2>3 DEF Ended, TypeOK
    <3>2. TypeOK' /\ Left'
      BY <1>0, <1>5, <2>1, <2>3, <3>1, FailsTypes DEF Reads, TypeOK, Left
    <3>3. QED  BY <1>0, <1>5, <3>2 DEF Reads, TypeInv, OneBlock, Serving
  <2>4. QED  BY <1>5, <2>2, <2>3 DEF Reads
<1>6. CASE Opens
  BY <1>0, <1>6 DEF Opens, TypeInv, TypeOK, Left, OneBlock, Serving
<1>7. CASE OpenFails
  BY <1>0, <1>7, <1>e DEF OpenFails, Returns, TypeInv, TypeOK, Left, OneBlock, Serving
<1>8. CASE Answered
  <2>1. Takes => chan' \in Seq(Reply) /\ response' \in 0..5 /\ UNCHANGED <<up, inbox>>
    BY TakesTypes
  <2>2. /\ chan' \in Seq(Reply) /\ response' \in 0..5 /\ UNCHANGED <<up, inbox>>
    BY <1>0, <1>8, <2>1 DEF Answered, Ended, TypeOK
  <2>3. /\ pc' \in {"data", "idle"} /\ todo' \in {todo, <<>>} /\ (pc' = "data" => todo' = todo)
        /\ ret' \in {0, 1} /\ dconn' \in {dconn, "shut"}
    BY <1>0, <1>8 DEF Answered, Returns, TypeOK
  <2>4. TypeOK'
    <3>1. ClientTypes'
      <4>1. /\ pc = "answer" /\ UNCHANGED <<call, stale, offset, is_connected, port, moved, broke, behind>>
            /\ todo' \in Seq(Commands)
        BY <1>8, <1>p, <1>e, <2>3 DEF Answered, ClientTypes
      <4>2. QED  BY <1>p, <1>0, <4>1, <2>2, <2>3 DEF ClientTypes
    <3>2. WireTypes'
      BY <1>p, <1>8, <1>0, <2>2, SMT DEF Answered, WireTypes
    <3>3. ServerTypes'
      BY <1>p, <1>8, <1>0, <2>3, SMT DEF Answered, ServerTypes
    <3>4. QED  BY <3>1, <3>2, <3>3, TypeParts
  <2>5. QED  BY <1>0, <1>8, <2>3, <2>4 DEF Answered, TypeInv, Left, OneBlock, Serving
<1>9. CASE Gets
  <2>1. Wants \in 0..Blocks /\ (call.name = "Head" => Wants = 1)
    BY <1>0 DEF Wants
  <2>2. moved' \in 0..Blocks /\ (call.name = "Head" => moved' \in {0, 1}) /\ dpipe' \in 0..Pipe
    BY <1>0, <1>9, <2>1 DEF Gets, TypeOK
  <2>3. TypeOK'
    <3>1. ClientTypes'
      <4>1. /\ moved' \in 0..Blocks /\ pc' \in {"data", "shut"} /\ broke' \in {broke, TRUE} /\ pc = "data"
            /\ UNCHANGED <<call, stale, todo, offset, response, is_connected, port, ret, behind>>
        BY <1>9, <2>2 DEF Gets
      <4>2. QED  BY <1>p, <1>0, <4>1 DEF ClientTypes
    <3>2. WireTypes'
      BY <1>p, <1>9, <1>0, SMT DEF Gets, WireTypes
    <3>3. ServerTypes'
      BY <1>p, <1>9, <1>0, <2>2, SMT DEF Gets, ServerTypes
    <3>4. QED  BY <3>1, <3>2, <3>3, TypeParts
  <2>4. QED  BY <1>0, <1>9, <2>2, <2>3 DEF Gets, TypeInv, Left, OneBlock, Serving
<1>10. CASE Puts
  <2>1. Wants \in 0..Blocks
    BY <1>0 DEF Wants
  <2>2. moved' \in 0..Blocks /\ dpipe' \in 0..Pipe
    BY <1>0, <1>10, <2>1 DEF Puts, TypeOK
  <2>3. TypeOK'
    BY <1>0, <1>10, <2>2 DEF Puts, TypeOK
  <2>4. QED  BY <1>0, <1>10, <2>2, <2>3 DEF Puts, TypeInv, Left, OneBlock, Serving
<1>11. CASE DataEnds
  BY <1>0, <1>11 DEF DataEnds, TypeInv, TypeOK, Left, OneBlock, Serving
<1>12. CASE Shuts
  BY <1>0, <1>12 DEF Shuts, TypeInv, TypeOK, Left, OneBlock, Serving
<1>13. CASE Last
  <2>1. Takes => chan' \in Seq(Reply) /\ response' \in 0..5 /\ UNCHANGED <<up, inbox>>
    BY TakesTypes
  <2>2. /\ chan' \in Seq(Reply) /\ response' \in 0..5 /\ UNCHANGED <<up, inbox>>
    BY <1>0, <1>13, <2>1 DEF Last, Ended, TypeOK
  <2>3. pc' = "idle" /\ todo' = <<>> /\ ret' \in {0, 1} /\ offset' \in 0..Blocks
    BY <1>0, <1>13 DEF Last, Closed, Returns, TypeOK, OneBlock
  <2>4. TypeOK'
    BY <1>0, <1>13, <1>e, <2>2, <2>3 DEF Last, TypeOK
  <2>5. QED  BY <1>0, <1>13, <2>3, <2>4 DEF Last, TypeInv, Left, OneBlock, Serving
<1>14. CASE ServesLogin
  <2>1. PICK class \in 1..5 : Answers(class)
    BY <1>14 DEF ServesLogin
  <2>2. inbox # <<>> /\ Head(inbox).cmd \in Commands
    BY <1>14 DEF ServesLogin, Serves, Commands
  <2>3. TypeOK'
    BY <1>0, <1>14, <2>1, <2>2, AnswersTypes DEF ServesLogin, Answers, TypeOK
  <2>4. QED  BY <1>0, <1>14, <2>3 DEF ServesLogin, TypeInv, Left, OneBlock, Serving
<1>15. CASE Does
  <2>1. PICK class \in {2, 3} : Answers(class) /\ class \in 1..5
    <3>1. Answers(2) \/ Answers(3)
      BY <1>15 DEF Does
    <3>2. QED  BY <3>1
  <2>2. inbox # <<>> /\ Head(inbox).cmd \in Commands
    BY <1>15 DEF Does, Serves, Commands, Orders
  <2>3. TypeOK'
    <3>1. ClientTypes'
      <4>1. UNCHANGED client
        BY <1>15 DEF Does
      <4>2. QED  BY <1>p, <1>0, <4>1 DEF ClientTypes
    <3>2. WireTypes'
      <4>1. /\ inbox # <<>> /\ inbox' = Tail(inbox) /\ up' = up
            /\ chan' = Append(chan, ReplyTo(Head(inbox), class))
        BY <1>15, <2>1, <2>2 DEF Answers
      <4>2. QED  BY <1>p, <1>0, <4>1, <2>1, <2>2, AnswersTypes DEF WireTypes
    <3>3. ServerTypes'
      <4>1. /\ mode' \in {mode, "A", "I"} /\ listens' \in BOOLEAN /\ marker' \in {marker, offset}
            /\ done' \in BOOLEAN
            /\ UNCHANGED <<user, serving, from, pos, dconn, dpipe, dend>>
        BY <1>15, <1>p DEF Does, ClientTypes, ServerTypes
      <4>2. marker' \in 0..Blocks /\ mode' \in {"A", "I"}
        BY <1>p, <4>1 DEF ClientTypes, ServerTypes
      <4>3. QED  BY <1>p, <1>0, <4>1, <4>2 DEF ServerTypes
    <3>4. QED  BY <3>1, <3>2, <3>3, TypeParts
  <2>4. QED  BY <1>0, <1>15, <2>3 DEF Does, TypeInv, Left, OneBlock, Serving
<1>16. CASE Refuses
  <2>1. inbox # <<>> /\ Head(inbox).cmd \in Commands
    BY <1>16 DEF Refuses, Serves
  <2>2. TypeOK'
    BY <1>0, <1>16, <2>1, AnswersTypes DEF Refuses, Answers, TypeOK
  <2>3. QED  BY <1>0, <1>16, <2>2 DEF Refuses, TypeInv, Left, OneBlock, Serving
<1>17. CASE ServesQuit
  <2>1. inbox # <<>> /\ Head(inbox).cmd \in Commands
    BY <1>17 DEF ServesQuit, Serves, Commands
  <2>2. TypeOK'
    <3>1. ClientTypes'
      BY <1>p, <1>17, <1>0, SMT DEF ServesQuit, ClientTypes
    <3>2. WireTypes'
      <4>1. /\ inbox' = <<>> /\ up' = FALSE /\ chan' = Append(chan, ReplyTo(Head(inbox), 2))
        BY <1>17 DEF ServesQuit
      <4>2. Append(chan, ReplyTo(Head(inbox), 2)) \in Seq(Reply)
        BY <2>1, AnswersTypes
      <4>3. QED  BY <4>1, <4>2, <1>e DEF WireTypes
    <3>3. ServerTypes'
      BY <1>p, <1>17, <1>0, SMT DEF ServesQuit, ServerTypes
    <3>4. QED  BY <3>1, <3>2, <3>3, TypeParts
  <2>3. QED  BY <1>0, <1>17, <2>2 DEF ServesQuit, TypeInv, Left, OneBlock, Serving
<1>18. CASE OpensTransfer
  <2>1. inbox # <<>> /\ Head(inbox).cmd \in Opened /\ Head(inbox).cmd \in Commands
    BY <1>18 DEF OpensTransfer, Serves, Opened, Commands
  <2>2. from' \in 0..Blocks /\ pos' \in 0..Blocks
    BY <1>0, <1>18 DEF OpensTransfer, TypeOK
  <2>3. TypeOK'
    <3>1. ClientTypes'
      BY <1>p, <1>18, <1>0, SMT DEF OpensTransfer, Answers, ClientTypes
    <3>2. WireTypes'
      BY <1>p, <1>18, <1>0, <2>1, AnswersTypes, SMT DEF OpensTransfer, Answers, WireTypes
    <3>3. ServerTypes'
      <4>1. /\ listens' = FALSE /\ marker' = 0 /\ serving' = Head(inbox)
            /\ UNCHANGED <<user, mode, done, dconn, dpipe, dend>>
        BY <1>18 DEF OpensTransfer
      <4>2. serving' \in Command
        BY <2>1, <4>1, AnswersTypes
      <4>3. QED  BY <1>p, <1>0, <4>1, <4>2, <2>2 DEF ServerTypes
    <3>4. QED  BY <3>1, <3>2, <3>3, TypeParts
  <2>4. QED  BY <1>0, <1>18, <2>1, <2>3 DEF OpensTransfer, TypeInv, Left, OneBlock, Serving
<1>19. CASE RefusesTransfer
  <2>1. inbox # <<>> /\ Head(inbox).cmd \in Commands
    BY <1>19 DEF RefusesTransfer, Serves, Commands
  <2>2. TypeOK'
    <3>1. ClientTypes'
      BY <1>p, <1>19, <1>0, SMT DEF RefusesTransfer, Answers, ClientTypes
    <3>2. WireTypes'
      BY <1>p, <1>19, <1>0, <2>1, AnswersTypes, SMT DEF RefusesTransfer, Answers, WireTypes
    <3>3. ServerTypes'
      <4>1. /\ listens' \in {FALSE, listens} /\ marker' = 0
            /\ UNCHANGED <<user, mode, serving, from, pos, done, dconn, dpipe, dend>>
        BY <1>19 DEF RefusesTransfer
      <4>2. QED  BY <1>p, <1>0, <4>1 DEF ServerTypes
    <3>4. QED  BY <3>1, <3>2, <3>3, TypeParts
  <2>3. QED  BY <1>0, <1>19, <2>2 DEF RefusesTransfer, TypeInv, Left, OneBlock, Serving
<1>20. CASE Waited
  <2>1. inbox # <<>> /\ Head(inbox).cmd \in Commands
    BY <1>20 DEF Waited, Serves, Commands
  <2>2. /\ ReplyTo(Head(inbox), 1) \in Reply /\ ReplyTo(Head(inbox), 4) \in Reply
        /\ Tail(inbox) \in Seq(Command) /\ chan \in Seq(Reply)
    BY <1>0, <2>1, AnswersTypes DEF TypeOK
  <2>3. /\ <<ReplyTo(Head(inbox), 1)>> \in Seq(Reply) /\ <<ReplyTo(Head(inbox), 4)>> \in Seq(Reply)
    BY <2>2, ShortSeqs, Zenon
  <2>4. PICK first \in {<<>>, <<ReplyTo(Head(inbox), 1)>>} :
          chan' = chan \o first \o <<ReplyTo(Head(inbox), 4)>>
    BY <1>20 DEF Waited
  <2>5. chan \o first \in Seq(Reply)
    BY <1>e, <2>2, <2>3, ConcatProperties
  <2>6. chan' \in Seq(Reply)
    BY <2>3, <2>4, <2>5, ConcatProperties
  <2>7. TypeOK'
    <3>1. ClientTypes'
      BY <1>p, <1>20, <1>0, SMT DEF Waited, ClientTypes
    <3>2. WireTypes'
      BY <1>p, <1>20, <1>0, <2>2, <2>6, SMT DEF Waited, WireTypes
    <3>3. ServerTypes'
      <4>1. /\ listens' = FALSE /\ marker' = 0
            /\ UNCHANGED <<user, mode, serving, from, pos, done, dconn, dpipe, dend>>
        BY <1>20 DEF Waited
      <4>2. QED  BY <1>p, <1>0, <4>1 DEF ServerTypes
    <3>4. QED  BY <3>1, <3>2, <3>3, TypeParts
  <2>8. QED  BY <1>0, <1>20, <2>7 DEF Waited, TypeInv, Left, OneBlock, Serving
<1>21. CASE Streams
  BY <1>0, <1>21 DEF Streams, TypeInv, TypeOK, Left, OneBlock, Serving
<1>22. CASE Completes
  <2>1. TypeOK'
    <3>1. ClientTypes'
      BY <1>p, <1>22, <1>0, SMT DEF Completes, Finishes, ClientTypes
    <3>2. WireTypes'
      BY <1>p, <1>22, <1>0, FinishesTypes, SMT DEF Completes, Finishes, WireTypes
    <3>3. ServerTypes'
      <4>1. /\ done' \in {done, TRUE, FALSE} /\ serving' = NoCommand /\ pos' = 0 /\ dend' \in {dend, "eof"}
            /\ UNCHANGED <<user, mode, marker, listens, from, dconn, dpipe>>
        BY <1>22, <1>p DEF Completes, Finishes, ServerTypes
      <4>2. QED  BY <1>p, <1>0, <4>1, <1>e DEF ServerTypes
    <3>4. QED  BY <3>1, <3>2, <3>3, TypeParts
  <2>2. QED  BY <1>0, <1>22, <2>1 DEF Completes, Finishes, TypeInv, Left, OneBlock, Serving
<1>23. CASE Aborts
  <2>1. TypeOK'
    BY <1>0, <1>23, <1>e, FinishesTypes DEF Aborts, Finishes, TypeOK
  <2>2. QED  BY <1>0, <1>23, <2>1 DEF Aborts, Finishes, TypeInv, Left, OneBlock, Serving
<1>24. CASE Drops
  <2>1. [of |-> "none", class |-> 4, fresh |-> FALSE] \in Reply
    BY DEF Reply
  <2>2. chan' \in Seq(Reply)
    <3>1. chan \in Seq(Reply) /\ Append(chan, [of |-> "none", class |-> 4, fresh |-> FALSE]) \in Seq(Reply)
      BY <1>p, <2>1, AppendProperties DEF WireTypes
    <3>2. QED  BY <1>24, <3>1 DEF Drops
  <2>3. TypeOK'
    <3>1. ClientTypes'
      BY <1>p, <1>24, <1>0, SMT DEF Drops, ClientTypes
    <3>2. WireTypes'
      <4>1. /\ inbox' = <<>> /\ up' = FALSE
        BY <1>24 DEF Drops
      <4>2. QED  BY <1>p, <1>0, <4>1, <1>e, <2>2 DEF WireTypes
    <3>3. ServerTypes'
      BY <1>p, <1>24, <1>0, <1>e, SMT DEF Drops, ServerTypes
    <3>4. QED  BY <3>1, <3>2, <3>3, TypeParts
  <2>4. QED  BY <1>0, <1>24, <2>3 DEF Drops, TypeInv, Left, OneBlock, Serving
<1>25. CASE UNCHANGED vars
  BY <1>0, <1>25 DEF vars, TypeInv, TypeOK, Left, OneBlock, Serving
<1>26. CASE SocketFails
  BY <1>0, <1>26, <1>e DEF SocketFails, Returns, TypeInv, TypeOK, Left, OneBlock, Serving
<1>27. CASE NotOpened
  <2>1. chan' \in Seq(Reply) /\ response' \in 0..5 /\ UNCHANGED <<up, inbox>>
    BY <1>27, TakesTypes DEF NotOpened
  <2>2. pc' = "idle" /\ todo' = <<>> /\ ret' = 0 /\ dconn' = "shut" /\ behind' = TRUE
    BY <1>27 DEF NotOpened, Returns
  <2>3. TypeOK'
    <3>1. ClientTypes'
      <4>1. UNCHANGED <<call, stale, offset, is_connected, port, moved, broke>>
        BY <1>27 DEF NotOpened
      <4>2. QED  BY <1>p, <1>0, <1>e, <4>1, <2>1, <2>2 DEF ClientTypes
    <3>2. WireTypes'
      BY <1>p, <2>1, SMT DEF WireTypes
    <3>3. ServerTypes'
      BY <1>p, <1>27, <1>0, <2>2, SMT DEF NotOpened, ServerTypes
    <3>4. QED  BY <3>1, <3>2, <3>3, TypeParts
  <2>4. QED  BY <1>0, <1>27, <2>2, <2>3 DEF NotOpened, TypeInv, Left, OneBlock, Serving
<1>28. CASE PutBreaks
  BY <1>0, <1>28 DEF PutBreaks, TypeInv, TypeOK, Left, OneBlock, Serving
<1>29. QED
  BY <1>1, <1>2, <1>3, <1>4, <1>5, <1>6, <1>7, <1>8, <1>9, <1>10, <1>11, <1>12, <1>13, <1>14,
     <1>15, <1>16, <1>17, <1>18, <1>19, <1>20, <1>21, <1>22, <1>23, <1>24, <1>25, <1>26, <1>27, <1>28
     DEF Next, ClientStep, ServerStep

THEOREM TypesAlways == Spec => []TypeInv
<1>1. QED  BY InitTypes, TypesStep, PTL DEF Spec

(* Every reachable state of the client, the server and the connections between *)
(* them is well typed, whatever fails: ftpclient.cpp.                          *)
THEOREM TypeCorrect == Spec => []TypeOK
<1>1. TypeInv => TypeOK
  BY DEF TypeInv
<1>2. QED  BY <1>1, TypesAlways, PTL

-----------------------------------------------------------------------------
(***************************************************************************)
(* The client and its server keep in step, for every set of calls, every   *)
(* length of file and any number of failures.                              *)
(*                                                                         *)
(* In step.  While no transfer has been given up before its last reply,    *)
(* there is never more than one command the client waits on, and its       *)
(* replies alone, but for the last word of a server that is gone, are on   *)
(* their way: which of the shapes below the connection has follows from    *)
(* where the client is.                                                    *)
(***************************************************************************)
NoneFrom(s, k) == \A i \in 1..Len(s) : i >= k => s[i].of = "none"
Own(r) == r.fresh \/ r.of = "none"

Wire ==
  /\ ~up => inbox = <<>> /\ serving = NoCommand
  /\ \A i \in 1..Len(chan) : chan[i].of = "none" => ~up /\ chan[i].class = 4
DataOpen == dconn = "open" => pc \in {"answer", "data", "shut"}

(* Nothing is on its way; a command is, and nothing else; its reply is;      *)
(* its transfer runs; the transfer's first reply is, and the rest comes.     *)
Quiet == inbox = <<>> /\ serving = NoCommand /\ NoneFrom(chan, 1)
Asked(cmds) ==
  /\ Len(inbox) = 1 /\ inbox[1].fresh /\ inbox[1].cmd \in cmds
  /\ serving = NoCommand /\ chan = <<>>
Replied == inbox = <<>> /\ serving = NoCommand /\ NoneFrom(chan, 2) /\ (chan # <<>> => Own(chan[1]))
Refused == Replied /\ (chan # <<>> => chan[1].class # 1)
Running == inbox = <<>> /\ serving # NoCommand /\ serving.fresh /\ chan = <<>>
Started ==
  /\ inbox = <<>> /\ chan # <<>> /\ chan[1].class = 1 /\ chan[1].fresh
  /\ \/ serving # NoCommand /\ serving.fresh /\ Len(chan) = 1
     \/ /\ serving = NoCommand /\ NoneFrom(chan, 3) /\ (up => Len(chan) >= 2)
        /\ Len(chan) >= 2 => Own(chan[2]) /\ chan[2].class # 1

Shape ==
  /\ pc \in {"idle", "send"} => Quiet
  /\ pc = "read" => Asked(Commands \ Opened) \/ Replied
  /\ pc = "connect" => Asked(Opened) \/ Refused
  /\ pc = "answer" => Asked(Opened) \/ Refused \/ Started
  /\ pc \in {"data", "shut", "last"} => Running \/ Replied

StepInv == Wire /\ DataOpen /\ (~behind => Shape)

-----------------------------------------------------------------------------
(* What is on its way, one taken or one added. *)
LEMMA TailFacts ==
  ASSUME NEW S, NEW s \in Seq(S), s # <<>>
  PROVE  /\ Tail(s) \in Seq(S) /\ Len(s) \in Nat \ {0} /\ Len(Tail(s)) = Len(s) - 1
         /\ \A i \in 1..Len(Tail(s)) : Tail(s)[i] = s[i + 1] /\ i + 1 \in 1..Len(s)
         /\ Head(s) = s[1] /\ 1 \in 1..Len(s)
<1>1. Len(s) \in Nat \ {0}
  BY EmptySeq
<1>2. QED  BY <1>1, HeadTailProperties

LEMMA TailNone ==
  ASSUME NEW s \in Seq(Reply), s # <<>>
  PROVE  /\ NoneFrom(s, 2) => NoneFrom(Tail(s), 1)
         /\ NoneFrom(s, 3) => NoneFrom(Tail(s), 2)
BY TailFacts DEF NoneFrom

LEMMA AppendNone ==
  ASSUME NEW s \in Seq(Reply), NEW r \in Reply, NEW k \in Nat, NoneFrom(s, k),
         r.of = "none" \/ Len(s) + 1 < k
  PROVE  NoneFrom(Append(s, r), k)
<1>1. Len(s) \in Nat
  OBVIOUS
<1>2. QED  BY <1>1, AppendProperties DEF NoneFrom

LEMMA TypeFacts ==
  TypeInv => /\ inbox \in Seq(Command) /\ chan \in Seq(Reply) /\ serving \in Command
             /\ Len(inbox) \in Nat /\ Len(chan) \in Nat /\ todo \in Seq(Commands)
             /\ up \in BOOLEAN /\ behind \in BOOLEAN
BY DEF TypeInv, TypeOK

(* A reply of the server is none of its last words. *)
LEMMA WireAdds ==
  ASSUME TypeInv, Wire, up, NEW r \in Reply, r.of # "none"
  PROVE  /\ Append(chan, r) \in Seq(Reply)
         /\ \A i \in 1..Len(Append(chan, r)) : Append(chan, r)[i].of # "none"
<1>1. chan \in Seq(Reply) /\ Len(chan) \in Nat
  BY TypeFacts
<1>2. QED  BY <1>1, AppendProperties DEF Wire

(* What Serves and Answers do: the command taken and its reply. *)
LEMMA AnswersWire ==
  ASSUME TypeInv, Wire, NEW class \in 1..5, up, inbox # <<>>, Head(inbox).cmd \in Commands
  PROVE  /\ ReplyTo(Head(inbox), class) \in Reply /\ ReplyTo(Head(inbox), class).of # "none"
         /\ \A i \in 1..Len(Append(chan, ReplyTo(Head(inbox), class))) :
              Append(chan, ReplyTo(Head(inbox), class))[i].of # "none"
<1>1. ReplyTo(Head(inbox), class) \in Reply
  BY AnswersTypes
<1>2. ReplyTo(Head(inbox), class).of # "none"
  BY DEF ReplyTo, Commands
<1>3. QED  BY <1>1, <1>2, WireAdds

LEMMA WireStep == TypeInv /\ Wire /\ [Next]_vars => Wire'
<1> SUFFICES ASSUME TypeInv, Wire, [Next]_vars  PROVE Wire'
  OBVIOUS
<1> USE DEF result, client, control, login, transfer, data
<1>0. chan \in Seq(Reply) /\ Len(chan) \in Nat
  BY TypeFacts
<1>1. ASSUME Takes, UNCHANGED serving  PROVE Wire'
  <2>1. chan # <<>> /\ chan' = Tail(chan) /\ UNCHANGED <<up, inbox>>
    BY <1>1 DEF Takes
  <2>2. QED  BY <1>0, <1>1, <2>1, TailFacts DEF Wire
<1>2. ASSUME UNCHANGED <<up, inbox, chan, serving>>  PROVE Wire'
  BY <1>2 DEF Wire
<1>3. CASE Connects
  <2>1. chan' = <<>> /\ serving' = NoCommand /\ (up' = TRUE \/ inbox' = <<>>)
    BY <1>3 DEF Connects
  <2>2. QED  BY <2>1 DEF Wire
<1>4. CASE \E c \in Calls : Begins(c)
  BY <1>2, <1>4 DEF Begins
<1>5. CASE Sends
  <2>1. up /\ up' = up /\ chan' = Old(chan)
    BY <1>5 DEF Sends
  <2>2. Len(chan') = Len(chan) /\ \A i \in 1..Len(chan) : chan'[i].of = chan[i].of
    <3>1. \A x \in Reply : [x EXCEPT !.fresh = FALSE] \in Reply /\ [x EXCEPT !.fresh = FALSE].of = x.of
      BY DEF Reply
    <3>2. \A i \in 1..Len(chan) : chan[i] \in Reply
      BY <1>0
    <3>3. Len(Old(chan)) = Len(chan) /\ \A i \in 1..Len(chan) : Old(chan)[i] = [chan[i] EXCEPT !.fresh = FALSE]
      BY <1>0, <3>1, OldSeq
    <3>4. QED  BY <2>1, <3>1, <3>2, <3>3
  <2>3. QED  BY <2>1, <2>2 DEF Wire
<1>6. CASE SendFails
  BY <1>2, <1>6 DEF SendFails
<1>7. CASE Reads
  BY <1>1, <1>2, <1>7 DEF Reads, Ended
<1>8. CASE SocketFails \/ Opens \/ OpenFails \/ Gets \/ Puts \/ PutBreaks \/ DataEnds \/ Shuts
  BY <1>2, <1>8 DEF SocketFails, Opens, OpenFails, Gets, Puts, PutBreaks, DataEnds, Shuts
<1>9. CASE Answered \/ NotOpened \/ Last
  BY <1>1, <1>2, <1>9 DEF Answered, NotOpened, Last, Ended
<1>10. CASE ServesLogin \/ Does \/ Refuses \/ OpensTransfer \/ RefusesTransfer
  <2>1. /\ up /\ inbox # <<>> /\ Head(inbox).cmd \in Commands
        /\ Answers(1) \/ Answers(2) \/ Answers(3) \/ Answers(5)
    BY <1>10 DEF ServesLogin, Does, Refuses, OpensTransfer, RefusesTransfer, Serves, Commands, Orders
  <2>2. PICK class \in {1, 2, 3, 5} : Answers(class)
    BY <2>1
  <2>3. class \in 1..5 /\ chan' = Append(chan, ReplyTo(Head(inbox), class)) /\ up' = up
    BY <2>2 DEF Answers
  <2>4. QED  BY <2>1, <2>3, AnswersWire DEF Wire
<1>11. CASE ServesQuit
  <2>1. /\ up /\ inbox # <<>> /\ Head(inbox).cmd \in Commands /\ serving = NoCommand
        /\ chan' = Append(chan, ReplyTo(Head(inbox), 2)) /\ inbox' = <<>> /\ serving' = serving
    BY <1>11 DEF ServesQuit, Serves, Commands
  <2>2. QED  BY <2>1, AnswersWire DEF Wire
<1>12. CASE Waited
  <2>1. /\ up /\ inbox # <<>> /\ Head(inbox).cmd \in Commands /\ up' = up
    BY <1>12 DEF Waited, Serves, Commands
  <2> DEFINE r1 == ReplyTo(Head(inbox), 1)
             r4 == ReplyTo(Head(inbox), 4)
  <2>2. r1 \in Reply /\ r1.of # "none" /\ r4 \in Reply /\ r4.of # "none"
    BY <2>1, AnswersWire
  <2>3. chan' = chan \o <<>> \o <<r4>> \/ chan' = chan \o <<r1>> \o <<r4>>
    BY <1>12 DEF Waited
  <2> HIDE DEF r1, r4
  <2>4. /\ Append(chan, r1) \in Seq(Reply) /\ Append(chan, r4) \in Seq(Reply)
        /\ \A i \in 1..Len(Append(chan, r1)) : Append(chan, r1)[i].of # "none"
        /\ \A i \in 1..Len(Append(chan, r4)) : Append(chan, r4)[i].of # "none"
    BY <2>1, <2>2, WireAdds
  <2>5. chan' = Append(chan, r4) \/ chan' = Append(Append(chan, r1), r4)
    BY <1>0, <2>2, <2>3, <2>4, AppendIsConcat, ConcatEmptySeq
  <2>6. \A i \in 1..Len(Append(Append(chan, r1), r4)) : Append(Append(chan, r1), r4)[i].of # "none"
    BY <2>2, <2>4, AppendProperties
  <2>7. QED  BY <2>1, <2>4, <2>5, <2>6 DEF Wire
<1>13. CASE Streams
  BY <1>2, <1>13 DEF Streams
<1>14. CASE Completes \/ Aborts
  <2>1. PICK class \in 1..5 : /\ up /\ up' = up /\ serving # NoCommand
                              /\ chan' = Append(chan, ReplyTo(serving, class))
    BY <1>14 DEF Completes, Aborts, Finishes, NoCommand
  <2>2. ReplyTo(serving, class) \in Reply /\ ReplyTo(serving, class).of # "none"
    <3>1. serving.cmd \in Opened /\ serving \in Command
      BY <2>1, TypeFacts DEF TypeInv, Serving
    <3>2. QED  BY <3>1 DEF ReplyTo, Reply, Command, Opened
  <2>3. QED  BY <2>1, <2>2, WireAdds DEF Wire
<1>15. CASE Drops
  <2> DEFINE word == [of |-> "none", class |-> 4, fresh |-> FALSE]
  <2>1. inbox' = <<>> /\ serving' = NoCommand /\ up' = FALSE /\ chan' \in {chan, Append(chan, word)}
    BY <1>15 DEF Drops
  <2>2. word \in Reply /\ word.class = 4
    BY DEF Reply
  <2> HIDE DEF word
  <2>3. QED  BY <1>0, <2>1, <2>2, AppendProperties DEF Wire
<1>16. CASE UNCHANGED vars
  BY <1>2, <1>16 DEF vars
<1>17. QED
  BY <1>3, <1>4, <1>5, <1>6, <1>7, <1>8, <1>9, <1>10, <1>11, <1>12, <1>13, <1>14, <1>15, <1>16
     DEF Next, ClientStep, ServerStep

(* The data connection is open only while the client waits on it. *)
LEMMA DataOpenStep == DataOpen /\ [Next]_vars => DataOpen'
<1> SUFFICES ASSUME DataOpen, [Next]_vars  PROVE DataOpen'
  OBVIOUS
<1> USE DEF result, client, control, login, transfer, data, DataOpen
<1>1. CASE Connects
  BY <1>1 DEF Connects
<1>2. CASE \E c \in Calls : Begins(c)
  BY <1>2 DEF Begins
<1>3. CASE Sends \/ SendFails \/ SocketFails \/ Reads \/ OpenFails
  BY <1>3 DEF Sends, SendFails, SocketFails, Reads, OpenFails
<1>4. CASE Opens \/ Answered \/ NotOpened \/ Gets \/ Puts \/ PutBreaks
  BY <1>4 DEF Opens, Answered, NotOpened, Returns, Gets, Puts, PutBreaks
<1>5. CASE DataEnds \/ Shuts \/ Last
  BY <1>5 DEF DataEnds, Shuts, Last
<1>6. CASE ServerStep
  BY <1>6 DEF ServerStep, ServesLogin, Does, Refuses, ServesQuit, OpensTransfer, RefusesTransfer, Waited,
              Streams, Completes, Aborts, Finishes
<1>7. CASE Drops
  BY <1>7 DEF Drops
<1>8. CASE UNCHANGED vars
  BY <1>8 DEF vars
<1>9. QED
  BY <1>1, <1>2, <1>3, <1>4, <1>5, <1>6, <1>7, <1>8 DEF Next, ClientStep
-----------------------------------------------------------------------------
(* From one shape to the next. *)
LEMMA TakesShape ==
  ASSUME TypeInv, Takes, UNCHANGED serving, Replied \/ Started
  PROVE  /\ Replied => Quiet'
         /\ Started => Running' \/ Replied'
<1>1. chan \in Seq(Reply) /\ chan # <<>> /\ chan' = Tail(chan) /\ inbox' = inbox
  BY TypeFacts DEF Takes
<1>2. Replied => Quiet'
  BY <1>1, TailNone DEF Replied, Quiet
<1>3. ASSUME Started, serving # NoCommand  PROVE Running'
  <2>1. Tail(chan) = <<>>
    BY <1>1, <1>3, TailFacts, EmptySeq DEF Started
  <2>2. QED  BY <1>1, <1>3, <2>1 DEF Started, Running
<1>4. ASSUME Started, serving = NoCommand  PROVE Replied'
  <2>1. NoneFrom(Tail(chan), 2)
    BY <1>1, <1>4, TailNone DEF Started
  <2>2. Tail(chan) # <<>> => Own(Tail(chan)[1])
    <3>1. SUFFICES ASSUME Tail(chan) # <<>>  PROVE Own(Tail(chan)[1])
      OBVIOUS
    <3>2. Len(Tail(chan)) \in Nat \ {0}
      BY <1>1, <3>1, TailFacts, EmptySeq
    <3>3. /\ Len(chan) \in Nat /\ Len(Tail(chan)) = Len(chan) - 1
          /\ \A i \in 1..Len(Tail(chan)) : Tail(chan)[i] = chan[i + 1]
      BY <1>1, TailFacts
    <3>4. Len(chan) >= 2 /\ 1 \in 1..Len(Tail(chan)) /\ 1 + 1 = 2
      BY <3>2, <3>3
    <3>5. Tail(chan)[1] = chan[2]
      BY <3>3, <3>4
    <3>6. QED  BY <1>4, <3>4, <3>5 DEF Started
  <2>3. QED  BY <1>1, <1>4, <2>1, <2>2 DEF Started, Replied
<1>5. QED  BY <1>2, <1>3, <1>4

LEMMA EndedQuiet ==
  ASSUME Wire, Ended, UNCHANGED serving  PROVE Quiet'
<1>1. inbox' = <<>> /\ chan' = <<>> /\ serving' = NoCommand
  BY DEF Wire, Ended, control
<1>2. QED  BY <1>1 DEF Quiet, NoneFrom

(* The server has a command to serve only while the client waits on it. *)
LEMMA ServedShape ==
  ASSUME TypeInv, Shape, inbox # <<>>
  PROVE  /\ Head(inbox) = inbox[1]
         /\ \/ pc \in {"closed", "wild"}
            \/ pc = "read" /\ Asked(Commands \ Opened)
            \/ pc \in {"connect", "answer"} /\ Asked(Opened)
<1>1. Head(inbox) = inbox[1]
  OBVIOUS
<1>2. pc \in {"closed", "idle", "send", "read", "connect", "answer", "data", "shut", "last", "wild"}
  BY DEF TypeInv, TypeOK
<1>3. QED  BY <1>1, <1>2 DEF Shape, Quiet, Replied, Refused, Running, Started

LEMMA AskedAnswered ==
  ASSUME TypeInv, NEW cmds, Asked(cmds), NEW class \in 1..5, Head(inbox).cmd \in Commands,
         inbox' = <<>> \/ inbox' = Tail(inbox), chan' = Append(chan, ReplyTo(Head(inbox), class))
  PROVE  /\ inbox' = <<>> /\ Len(chan') = 1 /\ chan' # <<>> /\ chan'[1].fresh /\ chan'[1].class = class
         /\ serving' = serving => Replied' /\ (class # 1 => Refused')
<1>1. inbox \in Seq(Command) /\ inbox # <<>> /\ Head(inbox) = inbox[1] /\ chan = <<>>
  <2>1. inbox \in Seq(Command) /\ Len(inbox) = 1 /\ chan = <<>>
    BY TypeFacts DEF Asked
  <2>2. inbox # <<>>
    <3>1. Len(<<>>) = 0 /\ 0 # 1
      OBVIOUS
    <3>2. QED  BY <2>1, <3>1, Zenon
  <2>3. QED  BY <2>1, <2>2, TailFacts
<1>2. inbox' = <<>>
  BY <1>1, TailFacts, EmptySeq DEF Asked
<1>3. ReplyTo(Head(inbox), class) \in Reply
  BY <1>1, AnswersTypes
<1>4. /\ Len(chan') = 1 /\ chan' # <<>> /\ chan'[1] = ReplyTo(Head(inbox), class)
  <2>1. <<>> \in Seq(Reply) /\ Len(<<>>) = 0
    BY EmptySeq
  <2>2. QED  BY <1>1, <1>3, <2>1, AppendProperties
<1>5. chan'[1].fresh /\ chan'[1].class = class
  BY <1>1, <1>4 DEF ReplyTo, Asked
<1>6. NoneFrom(chan', 2)
  BY <1>4 DEF NoneFrom
<1>7. QED  BY <1>2, <1>4, <1>5, <1>6 DEF Replied, Refused, Own, Asked

(* The reply that ends a transfer. *)
LEMMA FinishedShape ==
  ASSUME TypeInv, NEW class \in 1..5, class # 1, serving # NoCommand, Running \/ Started,
         chan' = Append(chan, ReplyTo(serving, class)), serving' = NoCommand, inbox' = inbox
  PROVE  /\ Running => Replied'
         /\ Started => Started'
<1>1. /\ ReplyTo(serving, class) \in Reply /\ ReplyTo(serving, class).fresh = serving.fresh
      /\ ReplyTo(serving, class).class = class
  BY DEF TypeInv, TypeOK, ReplyTo, Reply, Command
<1>2. /\ chan \in Seq(Reply) /\ Len(chan) \in Nat /\ Len(chan') = Len(chan) + 1
      /\ chan'[Len(chan) + 1] = ReplyTo(serving, class) /\ \A i \in 1..Len(chan) : chan'[i] = chan[i]
      /\ chan' # <<>>
  BY <1>1, TypeFacts, AppendProperties
<1>3. ASSUME Running  PROVE Replied'
  <2>1. Len(chan) = 0 /\ serving.fresh /\ inbox = <<>>
    BY <1>3, EmptySeq DEF Running
  <2>2. Len(chan') = 1 /\ chan'[1] = ReplyTo(serving, class)
    BY <1>2, <2>1
  <2>3. NoneFrom(chan', 2)
    BY <2>2 DEF NoneFrom
  <2>4. Own(chan'[1])
    BY <1>1, <2>1, <2>2, Zenon DEF Own
  <2>5. QED  BY <2>1, <2>3, <2>4 DEF Replied
<1>4. ASSUME Started  PROVE Started'
  <2>1. Len(chan) = 1 /\ serving.fresh
    BY <1>4 DEF Started
  <2>2. Len(chan') = 2 /\ chan'[2] = ReplyTo(serving, class) /\ chan'[1] = chan[1]
    BY <1>2, <2>1
  <2>3. NoneFrom(chan', 3)
    BY <2>2 DEF NoneFrom
  <2>4. Own(chan'[2]) /\ chan'[2].class # 1
    BY <1>1, <2>1, <2>2, Zenon DEF Own
  <2>5. QED  BY <1>2, <1>4, <2>2, <2>3, <2>4 DEF Started
<1>5. QED  BY <1>3, <1>4

(* A server that is gone leaves what was on its way, and a last word perhaps. *)
LEMMA DroppedShape ==
  ASSUME TypeInv, inbox' = <<>>, serving' = NoCommand, up' = FALSE, NEW word \in Reply, word.of = "none",
         word.class = 4, chan' \in {chan, Append(chan, word)}
  PROVE  /\ Quiet => Quiet'
         /\ \A cmds : Asked(cmds) => Refused'
         /\ Replied => Replied'
         /\ Refused => Refused'
         /\ Running => Replied'
         /\ Started => Started'
<1>1. chan \in Seq(Reply) /\ Len(chan) \in Nat
  BY TypeFacts
<1>2. /\ Len(chan') \in {Len(chan), Len(chan) + 1} /\ \A i \in 1..Len(chan) : chan'[i] = chan[i]
      /\ Len(chan') = Len(chan) + 1 => chan'[Len(chan) + 1] = word
      /\ chan' # <<>> => chan # <<>> \/ Len(chan') = Len(chan) + 1
  BY <1>1, AppendProperties
<1>3. \A k \in 1..3 : NoneFrom(chan, k) => NoneFrom(chan', k)
  BY <1>1, <1>2 DEF NoneFrom
<1>4. chan = <<>> => NoneFrom(chan', 1) /\ NoneFrom(chan', 2)
  BY <1>1, <1>2 DEF NoneFrom
<1>5. chan' # <<>> => \/ chan # <<>> /\ chan'[1] = chan[1]
                      \/ chan = <<>> /\ chan'[1] = word
  BY <1>1, <1>2, EmptySeq
<1>6. ASSUME Started  PROVE Started'
  <2>1. Len(chan) >= 1 /\ chan' # <<>> /\ chan'[1] = chan[1]
    BY <1>1, <1>2, <1>6, EmptySeq DEF Started
  <2>2. NoneFrom(chan', 3)
    BY <1>1, <1>2, <1>3, <1>6 DEF Started, NoneFrom
  <2>3. Len(chan') >= 2 => Own(chan'[2]) /\ chan'[2].class # 1
    <3>1. ASSUME Len(chan) = 1, Len(chan') >= 2  PROVE Own(chan'[2]) /\ chan'[2].class # 1
      BY <1>2, <3>1 DEF Own
    <3>2. ASSUME Len(chan) >= 2  PROVE Own(chan'[2]) /\ chan'[2].class # 1
      BY <1>1, <1>2, <1>6, <3>2 DEF Started
    <3>3. Len(chan) = 1 \/ Len(chan) >= 2
      <4>1. \A n \in Nat : n >= 1 => n = 1 \/ n >= 2
        OBVIOUS
      <4>2. QED  BY <1>1, <2>1, <4>1, Zenon
    <3>4. QED  BY <3>1, <3>2, <3>3
  <2>4. QED  BY <1>6, <2>1, <2>2, <2>3 DEF Started
<1>7. Quiet => Quiet'
  BY <1>3 DEF Quiet
<1>8. Replied => Replied'
  BY <1>3, <1>5 DEF Replied, Own
<1>9. Refused => Refused'
  BY <1>5, <1>8 DEF Refused
<1>10. \A cmds : Asked(cmds) => Refused'
  BY <1>4, <1>5 DEF Asked, Refused, Replied, Own
<1>11. Running => Replied'
  BY <1>4, <1>5 DEF Running, Replied, Own
<1>12. QED  BY <1>6, <1>7, <1>8, <1>9, <1>10, <1>11
LEMMA ShapeStep ==
  ASSUME TypeInv, Wire, DataOpen, ~behind => Shape, [Next]_vars, ~behind'
  PROVE  Shape'
<1> USE DEF result, client, control, login, transfer, data
<1>0. /\ inbox \in Seq(Command) /\ chan \in Seq(Reply) /\ serving \in Command
      /\ Len(chan) \in Nat /\ todo \in Seq(Commands)
  BY TypeFacts
<1>k. UNCHANGED <<up, inbox, chan, serving>> =>
        /\ Quiet' <=> Quiet
        /\ \A cmds : Asked(cmds)' <=> Asked(cmds)
        /\ Replied' <=> Replied
        /\ Refused' <=> Refused
        /\ Running' <=> Running
        /\ Started' <=> Started
  BY DEF Quiet, Asked, Replied, Refused, Running, Started
<1>1. CASE Connects
  <2>1. pc' = "closed" \/ (pc' = "read" /\ inbox' = <<[cmd |-> "HELLO", fresh |-> TRUE]>>)
    <3>1. \/ Closes(0)
          \/ pc' = "read" /\ inbox' = <<[cmd |-> "HELLO", fresh |-> TRUE]>>
      BY <1>1, Zenon DEF Connects
    <3>2. Closes(0) => pc' = "closed"
      BY DEF Closes
    <3>3. QED  BY <3>1, <3>2, Zenon
  <2>2. chan' = <<>> /\ serving' = NoCommand
    BY <1>1 DEF Connects
  <2>3. "HELLO" \in Commands \ Opened
    BY DEF Commands, Opened
  <2>4. pc' = "read" => Asked(Commands \ Opened)'
    BY <2>1, <2>2, <2>3 DEF Asked
  <2>5. QED  BY <2>1, <2>4 DEF Shape
<1>2. CASE \E c \in Calls : Begins(c)
  <2>1. pc = "idle" /\ pc' = "send" /\ UNCHANGED <<behind, up, inbox, chan, serving>>
    BY <1>2 DEF Begins
  <2>2. QED  BY <1>k, <2>1 DEF Shape
<1>3. CASE Sends
  <2>1. /\ pc = "send" /\ behind' = behind /\ up
        /\ inbox' = Append(Old(inbox), [cmd |-> Head(todo), fresh |-> TRUE]) /\ chan' = Old(chan)
        /\ serving' = [serving EXCEPT !.fresh = FALSE]
        /\ pc' = IF Head(todo) \in Opened THEN "connect" ELSE "read"
    BY <1>3 DEF Sends, Opened
  <2>2. Quiet
    BY <2>1 DEF Shape
  <2>3. chan = <<>>
    <3>0. \A i \in 1..Len(chan) : i >= 1 /\ chan[i].of = "none" /\ chan[i].of # "none"
      BY <1>0, <2>1, <2>2 DEF Quiet, NoneFrom, Wire
    <3>1. Len(chan) = 0
      BY <1>0, <3>0
    <3>2. QED  BY <1>0, <3>1
  <2>4. Old(inbox) = <<>> /\ chan' = <<>>
    BY <2>1, <2>2, <2>3, OldEmpty DEF Quiet
  <2>5. serving' = NoCommand
    BY <2>1, <2>2 DEF Quiet, NoCommand
  <2>6. Head(todo) \in Commands
    <3>1. todo # <<>>
      BY <2>1 DEF TypeInv, TypeOK
    <3>2. QED  BY <1>0, <3>1, HeadTailProperties
  <2>7. [cmd |-> Head(todo), fresh |-> TRUE] \in Command
    BY <2>6 DEF Command
  <2>8. Len(inbox') = 1 /\ inbox'[1] = [cmd |-> Head(todo), fresh |-> TRUE]
    <3>1. <<>> \in Seq(Command) /\ Len(<<>>) = 0
      BY EmptySeq
    <3>2. QED  BY <2>1, <2>4, <2>7, <3>1, AppendProperties
  <2>9. \A cmds : Head(todo) \in cmds => Asked(cmds)'
    BY <2>4, <2>5, <2>8 DEF Asked
  <2>10. QED  BY <2>1, <2>6, <2>9 DEF Shape
<1>4. CASE SendFails
  <2>1. pc = "send" /\ UNCHANGED <<behind, up, inbox, chan, serving>>
    BY <1>4 DEF SendFails
  <2>2. pc' \in {"closed", "idle", "send", "wild"}
    <3>1. Fails /\ todo # <<>> /\ response' \in 0..5
      BY <1>4, <2>1 DEF SendFails, TypeInv, TypeOK
    <3>2. QED  BY <3>1, FailsTypes
  <2>3. QED  BY <1>k, <2>1, <2>2 DEF Shape
<1>5. CASE Reads
  <2>1. pc = "read" /\ behind' = behind /\ serving' = serving /\ (Takes \/ Ended)
    BY <1>5 DEF Reads
  <2>2. pc' \in {"closed", "idle", "send", "wild"}
    <3>1. todo # <<>> /\ response \in 0..5
      BY <2>1 DEF TypeInv, TypeOK
    <3>2. response' \in 0..5
      BY <2>1, <3>1, TakesTypes DEF Ended
    <3>3. Succeeds \/ Fails
      BY <1>5 DEF Reads
    <3>4. QED  BY <3>1, <3>2, <3>3, FailsTypes, SucceedsTypes
  <2>3. Quiet'
    <3>1. CASE Takes
      <4>1. Replied
        BY <2>1, <3>1 DEF Takes, Shape, Asked
      <4>2. QED  BY <2>1, <3>1, <4>1, TakesShape
    <3>2. CASE Ended
      BY <2>1, <3>2, EndedQuiet
    <3>3. QED  BY <2>1, <3>1, <3>2
  <2>4. QED  BY <2>2, <2>3 DEF Shape
<1>6. CASE Opens
  <2>1. pc = "connect" /\ pc' = "answer" /\ UNCHANGED <<behind, up, inbox, chan, serving>>
    BY <1>6 DEF Opens
  <2>2. QED  BY <1>k, <2>1 DEF Shape
<1>7. CASE OpenFails \/ NotOpened
  BY <1>7 DEF OpenFails, NotOpened
<1>8. CASE Answered
  <2>1. pc = "answer" /\ behind' = behind /\ serving' = serving
    BY <1>8 DEF Answered
  <2>2. CASE Takes
    <3>1. Refused \/ Started
      BY <2>1, <2>2 DEF Takes, Shape, Asked
    <3>2. Head(chan) = chan[1] /\ chan # <<>>
      BY <1>0, <2>2, TailFacts DEF Takes
    <3>3. CASE Head(chan).class = 1
      <4>1. pc' = "data" /\ Started
        BY <1>8, <2>2, <3>1, <3>2, <3>3 DEF Answered, Ended, Refused
      <4>2. QED  BY <2>1, <2>2, <4>1, TakesShape DEF Shape
    <3>4. CASE Head(chan).class # 1
      <4>1. pc' = "idle" /\ Replied
        BY <1>8, <2>2, <3>1, <3>2, <3>4 DEF Answered, Returns, Refused, Started
      <4>2. QED  BY <2>1, <2>2, <4>1, TakesShape DEF Shape
    <3>5. QED  BY <3>3, <3>4
  <2>3. CASE Ended
    <3>1. pc' = "idle"
      BY <1>8, <2>3 DEF Answered, Returns, Takes, Ended
    <3>2. Quiet'
      BY <2>1, <2>3, EndedQuiet
    <3>3. QED  BY <3>1, <3>2 DEF Shape
  <2>4. QED  BY <1>8, <2>2, <2>3 DEF Answered
<1>9. CASE Gets \/ Puts \/ PutBreaks \/ DataEnds \/ Shuts
  <2>1. /\ pc \in {"data", "shut"} /\ pc' \in {"data", "shut", "last"}
        /\ UNCHANGED <<behind, up, inbox, chan, serving>>
    BY <1>9 DEF Gets, Puts, PutBreaks, DataEnds, Shuts
  <2>2. QED  BY <1>k, <2>1 DEF Shape
<1>10. CASE Last
  <2>1. pc = "last" /\ pc' = "idle" /\ behind' = behind /\ serving' = serving /\ (Takes \/ Ended)
    BY <1>10 DEF Last, Closed, Returns
  <2>2. Quiet'
    <3>1. CASE Takes
      <4>1. Replied
        BY <2>1, <3>1 DEF Takes, Shape, Running
      <4>2. QED  BY <2>1, <3>1, <4>1, TakesShape
    <3>2. CASE Ended
      BY <2>1, <3>2, EndedQuiet
    <3>3. QED  BY <2>1, <3>1, <3>2
  <2>3. QED  BY <2>1, <2>2 DEF Shape
<1>11. ASSUME NEW class \in {2, 3, 5}, up, inbox # <<>>, Head(inbox).cmd \in Commands,
              Answers(class) \/ (inbox' = <<>> /\ chan' = Append(chan, ReplyTo(Head(inbox), class))),
              UNCHANGED <<pc, behind, serving>>
       PROVE  Shape'
  <2>1. /\ class \in 1..5 /\ class # 1 /\ (inbox' = <<>> \/ inbox' = Tail(inbox))
        /\ chan' = Append(chan, ReplyTo(Head(inbox), class)) /\ serving' = serving /\ pc' = pc
    <3>1. class \in 1..5 /\ class # 1
      OBVIOUS
    <3>2. QED  BY <1>11, <3>1, Zenon DEF Answers
  <2>2. CASE pc \in {"closed", "wild"}
    BY <2>1, <2>2 DEF Shape
  <2>3. CASE pc \in {"read", "connect", "answer"} /\ (Asked(Commands \ Opened) \/ Asked(Opened))
    <3>1. Refused'
      BY <1>11, <2>1, <2>3, AskedAnswered
    <3>2. QED  BY <2>1, <2>3, <3>1 DEF Shape, Refused
  <2>4. QED  BY <1>11, <2>2, <2>3, ServedShape
<1>12. CASE ServesLogin \/ Does \/ Refuses \/ RefusesTransfer
  <2>1. /\ up /\ inbox # <<>> /\ Head(inbox).cmd \in Commands
        /\ Answers(2) \/ Answers(3) \/ Answers(5)
        /\ UNCHANGED <<pc, behind, serving>>
    BY <1>12 DEF ServesLogin, Does, Refuses, RefusesTransfer, Serves, Commands, Orders
  <2>2. PICK class \in {2, 3, 5} : Answers(class)
    BY <2>1
  <2>3. QED  BY <1>11, <2>1, <2>2
<1>13. CASE ServesQuit
  <2>1. /\ up /\ inbox # <<>> /\ Head(inbox).cmd \in Commands
        /\ inbox' = <<>> /\ chan' = Append(chan, ReplyTo(Head(inbox), 2))
        /\ UNCHANGED <<pc, behind, serving>>
    BY <1>13 DEF ServesQuit, Serves, Commands
  <2>2. QED  BY <1>11, <2>1
<1>14. CASE OpensTransfer
  <2>1. /\ inbox # <<>> /\ Head(inbox).cmd \in Opened /\ Head(inbox).cmd \in Commands /\ dconn = "open"
        /\ inbox' = Tail(inbox) /\ chan' = Append(chan, ReplyTo(Head(inbox), 1))
        /\ serving' = Head(inbox) /\ UNCHANGED <<pc, behind>>
    BY <1>14 DEF OpensTransfer, Serves, Answers, Commands, Opened
  <2>2. pc = "answer" /\ Asked(Opened) /\ Head(inbox) = inbox[1]
    <3>1. pc \in {"answer", "data", "shut"}
      BY <2>1 DEF DataOpen
    <3>2. ~behind
      BY <2>1
    <3>3. QED  BY <2>1, <3>1, <3>2, ServedShape
  <2>3. inbox' = <<>> /\ Len(chan') = 1 /\ chan' # <<>> /\ chan'[1].fresh /\ chan'[1].class = 1
    BY <2>1, <2>2, AskedAnswered
  <2>4. serving' # NoCommand /\ serving'.fresh
    BY <2>1, <2>2 DEF Asked, NoCommand, Opened
  <2>5. Started'
    BY <2>3, <2>4 DEF Started
  <2>6. QED  BY <2>1, <2>2, <2>5 DEF Shape
<1>15. CASE Waited
  <2>1. /\ inbox # <<>> /\ Head(inbox).cmd \in Opened /\ Head(inbox).cmd \in Commands /\ pc # "connect"
        /\ inbox' = Tail(inbox) /\ UNCHANGED <<pc, behind, serving>>
    BY <1>15 DEF Waited, Serves, Commands, Opened
  <2>2. \/ pc \in {"closed", "wild"}
        \/ pc = "answer" /\ Asked(Opened) /\ Head(inbox) = inbox[1]
    BY <2>1, ServedShape DEF Asked
  <2>3. CASE pc \in {"closed", "wild"}
    BY <2>1, <2>3 DEF Shape
  <2>4. CASE pc = "answer" /\ Asked(Opened) /\ Head(inbox) = inbox[1]
    <3> DEFINE r1 == ReplyTo(Head(inbox), 1)
               r4 == ReplyTo(Head(inbox), 4)
    <3>1. r1 \in Reply /\ r4 \in Reply /\ r1.fresh /\ r4.fresh /\ r1.class = 1 /\ r4.class = 4
      <4>1. r1 \in Reply /\ r4 \in Reply
        BY <2>1, AnswersTypes
      <4>2. QED  BY <2>4, <4>1 DEF ReplyTo, Asked
    <3>2. chan' = <<>> \o <<>> \o <<r4>> \/ chan' = <<>> \o <<r1>> \o <<r4>>
      BY <1>15, <2>4 DEF Waited, Asked
    <3>3. inbox' = <<>> /\ serving' = NoCommand
      <4>1. inbox' = <<>>
        <5>1. Len(Tail(inbox)) = 0 /\ Tail(inbox) \in Seq(Command)
          BY <1>0, <2>1, <2>4, TailFacts DEF Asked
        <5>2. QED  BY <2>1, <5>1, EmptySeq
      <4>2. QED  BY <2>1, <2>4, <4>1 DEF Asked
    <3> HIDE DEF r1, r4
    <3>4. <<>> \in Seq(Reply) /\ <<r1>> \in Seq(Reply) /\ <<r4>> \in Seq(Reply)
      BY <3>1, ShortSeqs, EmptySeq, Zenon
    <3>5. chan' = <<r4>> \/ chan' = <<r1>> \o <<r4>>
      BY <3>2, <3>4, ConcatEmptySeq
    <3>6. CASE chan' = <<r4>>
      <4>1. Refused'
        BY <3>1, <3>3, <3>6 DEF Refused, Replied, Own, NoneFrom
      <4>2. QED  BY <2>1, <2>4, <4>1 DEF Shape
    <3>7. CASE chan' = <<r1>> \o <<r4>>
      <4>1. Len(chan') = 2 /\ chan'[1] = r1 /\ chan'[2] = r4 /\ chan' # <<>>
        BY <3>7
      <4>2. NoneFrom(chan', 3)
        BY <4>1 DEF NoneFrom
      <4>3. Own(chan'[2]) /\ chan'[1].fresh /\ chan'[1].class = 1
        BY <3>1, <4>1, Zenon DEF Own
      <4>6. chan'[2].class # 1
        BY <3>1, <4>1
      <4>4. Started'
        BY <3>3, <4>1, <4>2, <4>3, <4>6 DEF Started
      <4>5. QED  BY <2>1, <2>4, <4>4 DEF Shape
    <3>8. QED  BY <3>5, <3>6, <3>7
  <2>5. QED  BY <2>2, <2>3, <2>4
<1>16. CASE Streams
  BY <1>16, <1>k DEF Streams, Shape
<1>17. CASE Completes \/ Aborts
  <2>1. PICK class \in {2, 4} :
          /\ serving # NoCommand /\ chan' = Append(chan, ReplyTo(serving, class)) /\ serving' = NoCommand
          /\ inbox' = inbox /\ UNCHANGED <<pc, behind>>
    BY <1>17 DEF Completes, Aborts, Finishes, NoCommand
  <2>2. pc \in {"closed", "idle", "send", "read", "connect", "answer", "data", "shut", "last", "wild"}
    BY DEF TypeInv, TypeOK
  <2>3. \/ pc \in {"closed", "wild"}
        \/ pc = "answer" /\ Started
        \/ pc \in {"data", "shut", "last"} /\ Running
    <3>1. Shape
      BY <2>1
    <3>2. pc \notin {"idle", "send", "read", "connect"}
      BY <2>1, <3>1 DEF Shape, Quiet, Asked, Replied, Refused
    <3>3. pc = "answer" => Started
      BY <2>1, <3>1 DEF Shape, Asked, Replied, Refused
    <3>4. pc \in {"data", "shut", "last"} => Running
      BY <2>1, <3>1 DEF Shape, Replied
    <3>5. pc \in {"closed", "wild", "answer", "data", "shut", "last"}
      BY <2>2, <3>2
    <3>6. QED  BY <3>3, <3>4, <3>5, Zenon
  <2>4. class \in 1..5 /\ class # 1
    OBVIOUS
  <2>5. QED  BY <2>1, <2>3, <2>4, FinishedShape DEF Shape
<1>18. CASE Drops
  <2> DEFINE word == [of |-> "none", class |-> 4, fresh |-> FALSE]
  <2>1. /\ inbox' = <<>> /\ serving' = NoCommand /\ up' = FALSE /\ chan' \in {chan, Append(chan, word)}
        /\ UNCHANGED <<pc, behind>>
    BY <1>18 DEF Drops
  <2>2. word \in Reply /\ word.of = "none" /\ word.class = 4
    BY DEF Reply
  <2> HIDE DEF word
  <2>3. /\ Quiet => Quiet'
        /\ Asked(Commands \ Opened) => Refused'
        /\ Asked(Opened) => Refused'
        /\ Replied => Replied'
        /\ Refused => Refused'
        /\ Running => Replied'
        /\ Started => Started'
    BY <2>1, <2>2, DroppedShape
  <2>4. Refused' => Replied'
    BY DEF Refused
  <2>5. QED  BY <2>1, <2>3, <2>4 DEF Shape
<1>19. CASE UNCHANGED vars
  BY <1>19, <1>k DEF vars, Shape
<1>20. CASE SocketFails
  <2>1. pc = "send" /\ pc' = "idle" /\ UNCHANGED <<behind, up, inbox, chan, serving>>
    BY <1>20 DEF SocketFails, Returns
  <2>2. QED  BY <1>k, <2>1 DEF Shape
<1>21. QED
  BY <1>1, <1>2, <1>3, <1>4, <1>5, <1>6, <1>7, <1>8, <1>9, <1>10, <1>12, <1>13, <1>14, <1>15, <1>16,
     <1>17, <1>18, <1>19, <1>20 DEF Next, ClientStep, ServerStep

-----------------------------------------------------------------------------
LEMMA StepInvInit == Init => StepInv
BY DEF Init, StepInv, Wire, DataOpen, Shape

LEMMA StepInvStep == TypeInv /\ StepInv /\ [Next]_vars => StepInv'
<1> SUFFICES ASSUME TypeInv, StepInv, [Next]_vars  PROVE StepInv'
  OBVIOUS
<1>1. Wire' /\ DataOpen'
  BY WireStep, DataOpenStep DEF StepInv
<1>2. ~behind' => Shape'
  BY ShapeStep DEF StepInv
<1>3. QED  BY <1>1, <1>2 DEF StepInv

THEOREM StepsAlways == Spec => []StepInv
<1>1. QED  BY StepInvInit, StepInvStep, TypesAlways, PTL DEF Spec

(* As long as no transfer has been given up, every reply the client reads on the *)
(* control connection answers the command it has just sent, and no command or    *)
(* transfer is left over between two calls: FtpSendCmd, FtpOpenPasv, FtpClose.   *)
THEOREM KeepsInStep == Spec => []InStep
<1>1. TypeInv /\ StepInv => InStep
  <2> SUFFICES ASSUME TypeInv, StepInv, ~behind  PROVE InStep
    BY DEF InStep
  <2>1. Shape /\ chan \in Seq(Reply) /\ Len(chan) \in Nat
    BY TypeFacts DEF StepInv
  <2>2. ASSUME pc \in {"read", "answer", "last"}, chan # <<>>
        PROVE  Head(chan).fresh \/ Head(chan).of = "none"
    <3>1. Head(chan) = chan[1]
      BY <2>1, <2>2, TailFacts
    <3>2. Replied \/ Started
      BY <2>1, <2>2 DEF Shape, Asked, Running, Refused
    <3>3. QED  BY <2>2, <3>1, <3>2 DEF Replied, Started, Own
  <2>3. ASSUME pc \in {"idle", "send"}
        PROVE  inbox = <<>> /\ serving = NoCommand /\ \A i \in DOMAIN chan : chan[i].of = "none"
    BY <2>1, <2>3 DEF Shape, Quiet, NoneFrom
  <2>4. QED  BY <2>2, <2>3 DEF InStep
<1>2. QED  BY <1>1, TypesAlways, StepsAlways, PTL
-----------------------------------------------------------------------------
(***************************************************************************)
(* Logged in.  While the client is joining, what is on its way answers the *)
(* command it waits on, and a USER or PASS that was answered with 2 has    *)
(* let it in; once it has joined, it never sends USER again.               *)
(***************************************************************************)
Joining ==
  ~is_connected /\ pc # "closed" =>
    /\ call = Connect /\ pc \in {"send", "read"} /\ ~behind
    /\ todo \in {<<"HELLO", "USER", "PASS">>, <<"USER", "PASS">>, <<"PASS">>, <<"QUIT">>}
    /\ \A i \in 1..Len(chan) : chan[i].of \in {"USER", "PASS"} /\ chan[i].class = 2 => user = "in"
    /\ pc = "read" => /\ \A i \in 1..Len(inbox) : inbox[i].cmd = Head(todo)
                      /\ \A i \in 1..Len(chan) : chan[i].fresh => chan[i].of = Head(todo)

Joined ==
  /\ pc = "closed" => ~is_connected
  /\ is_connected =>
      /\ todo \in Seq(Working)
      /\ \A i \in 1..Len(inbox) : inbox[i].cmd # "USER"
      /\ up => user = "in"

Known == TypeInv /\ StepInv /\ Joining /\ Joined

LEMMA JoiningScript ==
  ASSUME todo \in {<<"HELLO", "USER", "PASS">>, <<"USER", "PASS">>, <<"PASS">>, <<"QUIT">>}
  PROVE  /\ Head(todo) \in {"HELLO", "USER", "PASS", "QUIT"}
         /\ Head(todo) = "HELLO" => Tail(todo) = <<"USER", "PASS">>
         /\ Head(todo) = "USER" => Tail(todo) = <<"PASS">>
         /\ Head(todo) \in {"PASS", "QUIT"} => Tail(todo) = <<>>
         /\ Head(todo) = "PASS" => todo = <<"PASS">>
         /\ Head(todo) = "QUIT" => todo = <<"QUIT">>
<1>1. CASE todo = <<"HELLO", "USER", "PASS">>
  <2>1. Head(todo) = "HELLO" /\ Tail(todo) = <<"USER", "PASS">>
    BY <1>1
  <2>2. QED  BY <2>1, Zenon
<1>2. CASE todo = <<"USER", "PASS">>
  <2>1. Head(todo) = "USER" /\ Tail(todo) = <<"PASS">>
    BY <1>2
  <2>2. QED  BY <2>1, Zenon
<1>3. CASE todo = <<"PASS">>
  <2>1. Head(todo) = "PASS" /\ Tail(todo) = <<>>
    BY <1>3
  <2>2. QED  BY <1>3, <2>1, Zenon
<1>4. CASE todo = <<"QUIT">>
  <2>1. Head(todo) = "QUIT" /\ Tail(todo) = <<>>
    BY <1>4
  <2>2. QED  BY <1>4, <2>1, Zenon
<1>5. QED  BY <1>1, <1>2, <1>3, <1>4, Zenon

(* The end of a command while the client is joining. *)
LEMMA JoiningFails ==
  ASSUME Known, ~is_connected, pc \in {"send", "read"}, Fails
  PROVE  \/ pc' = "closed" /\ is_connected' = FALSE
         \/ pc' = "idle" /\ is_connected' = TRUE /\ todo' = <<>> /\ Head(todo) = "USER" /\ response' = 2
         \/ pc' = "send" /\ is_connected' = FALSE /\ todo' = <<"QUIT">>
<1>1. todo \in {<<"HELLO", "USER", "PASS">>, <<"USER", "PASS">>, <<"PASS">>, <<"QUIT">>}
  BY DEF Known, Joining
<1>2. Head(todo) \in {"HELLO", "USER", "PASS", "QUIT"}
  BY <1>1, JoiningScript
<1>3. QED  BY <1>2 DEF Fails, Closes, LogsIn, Returns, Goes

LEMMA JoiningSucceeds ==
  ASSUME Known, ~is_connected, pc \in {"send", "read"}, Succeeds
  PROVE  \/ pc' = "closed" /\ is_connected' = FALSE
         \/ pc' = "idle" /\ is_connected' = TRUE /\ todo' = <<>> /\ Head(todo) = "PASS"
         \/ pc' = "send" /\ is_connected' = FALSE /\ todo' \in {<<"USER", "PASS">>, <<"PASS">>}
<1>1. todo \in {<<"HELLO", "USER", "PASS">>, <<"USER", "PASS">>, <<"PASS">>, <<"QUIT">>}
  BY DEF Known, Joining
<1>2. /\ Head(todo) \in {"HELLO", "USER", "PASS", "QUIT"}
      /\ Head(todo) = "HELLO" => Tail(todo) = <<"USER", "PASS">>
      /\ Head(todo) = "USER" => Tail(todo) = <<"PASS">>
      /\ Head(todo) \in {"PASS", "QUIT"} => Tail(todo) = <<>>
      /\ Head(todo) = "PASS" => todo = <<"PASS">>
      /\ Head(todo) = "QUIT" => todo = <<"QUIT">>
  BY <1>1, JoiningScript
<1>3. CASE Tail(todo) # <<>> /\ Goes(Tail(todo)) /\ UNCHANGED is_connected
  BY <1>2, <1>3 DEF Goes
<1>4. CASE todo = <<"PASS">> /\ LogsIn
  BY <1>4 DEF LogsIn, Returns
<1>5. CASE todo = <<"QUIT">> /\ Closes(IF call = Connect THEN 0 ELSE 1)
  BY <1>5 DEF Closes
<1>6. CASE Tail(todo) = <<>> /\ Head(todo) \notin {"PASS", "QUIT"}
  BY <1>2, <1>6
<1>7. QED  BY <1>3, <1>4, <1>5, <1>6, Zenon DEF Succeeds

(* ... and once it has joined. *)
LEMMA JoinedEnds ==
  ASSUME Known, is_connected, pc \in {"send", "read"}, Succeeds \/ Fails
  PROVE  \/ pc' = "closed" /\ is_connected' = FALSE
         \/ pc' # "closed" /\ is_connected' = TRUE /\ todo' \in Seq(Working)
<1>1. todo \in Seq(Working) /\ todo # <<>>
  BY DEF Known, Joined, TypeInv, TypeOK
<1>2. Head(todo) \in Working /\ Tail(todo) \in Seq(Working) /\ is_connected = TRUE
  BY <1>1, HeadTailProperties DEF Known, TypeInv, TypeOK
<1>3. Head(todo) \notin {"HELLO", "USER", "PASS"} /\ todo # <<"PASS">>
  BY <1>2 DEF Working
<1>4. <<>> \in Seq(Working)
  BY EmptySeq
<1>5. QED  BY <1>1, <1>2, <1>3, <1>4 DEF Succeeds, Fails, Closes, Returns, LogsIn, Goes

(* The reply to a client that is joining. *)
LEMMA JoiningServed ==
  ASSUME Known, ~is_connected, pc # "closed", NEW class \in 1..5, inbox # <<>>,
         Head(inbox).cmd \in Commands, inbox' = <<>> \/ inbox' = Tail(inbox),
         chan' = Append(chan, ReplyTo(Head(inbox), class))
  PROVE  /\ inbox' = <<>> /\ Len(chan') = 1 /\ chan'[1].of = Head(inbox).cmd /\ chan'[1].class = class
         /\ Head(inbox).cmd = Head(todo) /\ Head(inbox).cmd \notin Opened
<1>1. Shape /\ pc \in {"send", "read"}
  BY DEF Known, StepInv, Joining
<1>2. pc = "read" /\ Asked(Commands \ Opened) /\ Head(inbox) = inbox[1]
  BY <1>1, ServedShape DEF Known
<1>3. inbox' = <<>> /\ Len(chan') = 1
  BY <1>2, AskedAnswered DEF Known
<1>4. chan'[1] = ReplyTo(Head(inbox), class)
  <2>1. <<>> \in Seq(Reply) /\ Len(<<>>) = 0 /\ ReplyTo(Head(inbox), class) \in Reply
    BY EmptySeq, AnswersTypes DEF Known
  <2>2. QED  BY <1>2, <2>1, AppendProperties DEF Asked
<1>5. Head(inbox).cmd = Head(todo)
  BY <1>2 DEF Known, Joining, Asked
<1>6. QED  BY <1>2, <1>3, <1>4, <1>5 DEF ReplyTo, Asked
LEMMA LoginStep ==
  ASSUME Known, [Next]_vars
  PROVE  Joining' /\ Joined'
<1> USE DEF result, client, control, login, transfer, data
<1>0. /\ TypeInv /\ StepInv /\ Wire /\ Joining /\ Joined /\ inbox \in Seq(Command) /\ chan \in Seq(Reply)
      /\ todo \in Seq(Commands) /\ is_connected \in BOOLEAN
  BY TypeFacts DEF Known, StepInv, TypeInv, TypeOK
<1>1. CASE Connects
  <2>1. is_connected = FALSE
    BY <1>0, <1>1 DEF Connects, Joined
  <2>2. CASE Closes(0)
    <3>1. pc' = "closed" /\ is_connected' = FALSE
      BY <2>2 DEF Closes
    <3>2. QED  BY <3>1 DEF Joining, Joined
  <2>3. CASE ~Closes(0)
    <3>1. /\ pc' = "read" /\ todo' = <<"HELLO", "USER", "PASS">> /\ UNCHANGED is_connected
          /\ inbox' = <<[cmd |-> "HELLO", fresh |-> TRUE]>>
          /\ call' = Connect /\ behind' = FALSE /\ chan' = <<>>
      BY <1>1, <2>3, Zenon DEF Connects
    <3>2. \A i \in 1..Len(inbox') : inbox'[i].cmd = "HELLO"
      BY <3>1
    <3>3. Head(todo') = "HELLO"
      BY <3>1
    <3>4. ~is_connected'
      BY <2>1, <3>1
    <3>5. QED  BY <3>1, <3>2, <3>3, <3>4 DEF Joining, Joined
  <2>4. QED  BY <2>2, <2>3
<1>2. ASSUME NEW c \in Calls, Begins(c)  PROVE Joining' /\ Joined'
  <2>1. is_connected /\ pc' = "send" /\ UNCHANGED <<is_connected, inbox, up, user>> /\ todo' \in Seq(Working)
    BY <1>2, ScriptProper DEF Begins
  <2>2. QED  BY <1>0, <2>1 DEF Joining, Joined
<1>3. CASE Sends
  <2>1. /\ pc = "send" /\ up /\ pc' = IF Head(todo) \in Opened THEN "connect" ELSE "read"
        /\ inbox' = Append(Old(inbox), [cmd |-> Head(todo), fresh |-> TRUE])
        /\ chan' = Old(chan)
        /\ UNCHANGED <<todo, call, behind, is_connected, up, user>>
    BY <1>3 DEF Sends, Opened
  <2>2. todo # <<>> /\ Head(todo) \in Commands
    <3>1. todo # <<>>
      BY <1>0, <2>1 DEF TypeInv, TypeOK
    <3>2. QED  BY <1>0, <3>1, HeadTailProperties
  <2> DEFINE cmd == [cmd |-> Head(todo), fresh |-> TRUE]
  <2>3. cmd \in Command /\ cmd.cmd = Head(todo)
    BY <2>2 DEF Command
  <2>4. \A x \in Command : [x EXCEPT !.fresh = FALSE] \in Command /\ [x EXCEPT !.fresh = FALSE].cmd = x.cmd
    BY DEF Command
  <2>5. /\ Old(inbox) \in Seq(Command) /\ Len(Old(inbox)) = Len(inbox) /\ Len(inbox) \in Nat
        /\ \A i \in 1..Len(inbox) : Old(inbox)[i] = [inbox[i] EXCEPT !.fresh = FALSE] /\ inbox[i] \in Command
    <3>1. \A x \in Command : [x EXCEPT !.fresh = FALSE] \in Command
      BY <2>4
    <3>2. /\ Old(inbox) \in Seq(Command) /\ Len(Old(inbox)) = Len(inbox)
          /\ \A i \in 1..Len(inbox) : Old(inbox)[i] = [inbox[i] EXCEPT !.fresh = FALSE]
      BY <1>0, <3>1, OldSeq
    <3>3. Len(inbox) \in Nat /\ \A i \in 1..Len(inbox) : inbox[i] \in Command
      BY <1>0
    <3>4. QED  BY <3>2, <3>3
  <2> HIDE DEF cmd
  <2>6. /\ Len(inbox') = Len(inbox) + 1 /\ inbox'[Len(inbox) + 1] = cmd
        /\ \A i \in 1..Len(inbox) : inbox'[i].cmd = inbox[i].cmd
    <3>1. inbox' = Append(Old(inbox), cmd)
      BY <2>1 DEF cmd
    <3>2. /\ Len(Append(Old(inbox), cmd)) = Len(inbox) + 1 /\ Append(Old(inbox), cmd)[Len(inbox) + 1] = cmd
          /\ \A i \in 1..Len(inbox) : Append(Old(inbox), cmd)[i] = Old(inbox)[i]
      BY <2>3, <2>5, AppendProperties
    <3>3. QED  BY <2>4, <2>5, <3>1, <3>2
  <2>7. CASE is_connected
    <3>1. todo \in Seq(Working) /\ \A i \in 1..Len(inbox) : inbox[i].cmd # "USER"
      BY <1>0, <2>7 DEF Joined
    <3>2. Head(todo) # "USER"
      BY <2>2, <3>1, HeadTailProperties DEF Working
    <3>3. \A i \in 1..Len(inbox') : inbox'[i].cmd # "USER"
      BY <2>3, <2>5, <2>6, <3>1, <3>2
    <3>4. QED  BY <1>0, <2>1, <2>7, <3>1, <3>3 DEF Joining, Joined
  <2>8. CASE ~is_connected
    <3>1. /\ call = Connect /\ ~behind
          /\ todo \in {<<"HELLO", "USER", "PASS">>, <<"USER", "PASS">>, <<"PASS">>, <<"QUIT">>}
      BY <1>0, <2>1, <2>8 DEF Joining
    <3>2. Quiet
      BY <1>0, <2>1, <3>1 DEF StepInv, Shape
    <3>3. Head(todo) \notin Opened
      BY <3>1, JoiningScript DEF Opened
    <3>4. chan = <<>>
      <4>1. \A i \in 1..Len(chan) : i >= 1 /\ chan[i].of = "none" /\ chan[i].of # "none"
        BY <1>0, <2>1, <3>2 DEF Quiet, NoneFrom, Wire
      <4>2. Len(chan) = 0
        BY <1>0, <4>1
      <4>3. QED  BY <1>0, <4>2
    <3>5. chan' = <<>> /\ Len(inbox) = 0
      BY <2>1, <3>2, <3>4, OldEmpty DEF Quiet
    <3>6. \A i \in 1..Len(inbox') : inbox'[i].cmd = Head(todo)
      BY <2>3, <2>6, <3>5
    <3>7. QED  BY <2>1, <2>8, <3>1, <3>3, <3>5, <3>6 DEF Joining, Joined
  <2>9. QED  BY <2>7, <2>8
<1>4. CASE SendFails \/ Reads
  <2>1. pc \in {"send", "read"} /\ (Succeeds \/ Fails) /\ UNCHANGED <<up, inbox, user, call, behind>>
    BY <1>4 DEF SendFails, Reads, Takes, Ended
  <2>2. CASE is_connected
    <3>1. \/ pc' = "closed" /\ is_connected' = FALSE
          \/ pc' # "closed" /\ is_connected' = TRUE /\ todo' \in Seq(Working)
      BY <2>1, <2>2, JoinedEnds
    <3>2. QED  BY <1>0, <2>1, <2>2, <3>1 DEF Joining, Joined
  <2>3. CASE ~is_connected
    <3>1. /\ call = Connect /\ ~behind
          /\ \A i \in 1..Len(chan) : chan[i].of \in {"USER", "PASS"} /\ chan[i].class = 2 => user = "in"
          /\ pc = "read" => \A i \in 1..Len(chan) : chan[i].fresh => chan[i].of = Head(todo)
      BY <1>0, <2>1, <2>3 DEF Joining
    <3>2. Shape
      BY <1>0, <3>1 DEF StepInv
    <3>3. inbox = <<>> /\ (~up \/ (pc = "read" /\ Takes /\ Replied))
      <4>1. CASE SendFails
        BY <3>2, <4>1 DEF SendFails, Shape, Quiet
      <4>2. CASE Reads /\ Takes
        BY <3>2, <4>2 DEF Reads, Takes, Shape, Asked, Replied
      <4>3. CASE Reads /\ Ended
        BY <1>0, <4>3 DEF Ended, Wire
      <4>4. QED  BY <1>4, <4>1, <4>2, <4>3 DEF Reads
    <3>4. \A i \in 1..Len(chan') : chan'[i].of \in {"USER", "PASS"} /\ chan'[i].class = 2 => user' = "in"
      <4>1. CASE Takes
        <5>1. chan # <<>> /\ chan' = Tail(chan)
          BY <4>1 DEF Takes
        <5>2. QED  BY <1>0, <2>1, <3>1, <5>1, TailFacts
      <4>2. CASE ~Takes
        <5>1. chan' = chan
          BY <1>4, <4>2 DEF SendFails, Reads, Ended
        <5>2. QED  BY <2>1, <3>1, <5>1
      <4>3. QED  BY <4>1, <4>2
    <3>5. ASSUME up, pc' = "idle"  PROVE user' = "in"
      <4>1. pc = "read" /\ Takes /\ Replied
        BY <3>3, <3>5
      <4>2. chan # <<>> /\ Head(chan) = chan[1] /\ 1 \in 1..Len(chan)
        BY <1>0, <4>1, TailFacts DEF Takes
      <4>3. chan[1].of = Head(todo)
        BY <1>0, <3>1, <3>5, <4>1, <4>2 DEF Replied, Own, Wire
      <4>4. Head(todo) \in {"USER", "PASS"} /\ chan[1].class = 2
        <5>1. CASE Succeeds
          <6>1. Head(todo) = "PASS"
            BY <2>1, <2>3, <3>5, <5>1, JoiningSucceeds
          <6>2. Good(Head(todo), Head(chan)) \/ Fails
            BY <1>4, <4>1 DEF SendFails, Reads
          <6>3. CASE Good(Head(todo), Head(chan))
            BY <4>2, <6>1, <6>3 DEF Good, Expects
          <6>4. CASE Fails
            <7>1. Head(todo) = "USER"
              BY <2>1, <2>3, <3>5, <6>4, JoiningFails
            <7>2. QED  BY <6>1, <7>1
          <6>5. QED  BY <6>2, <6>3, <6>4
        <5>2. CASE Fails
          <6>1. Head(todo) = "USER" /\ response' = 2
            BY <2>1, <2>3, <3>5, <5>2, JoiningFails
          <6>2. response' = Head(chan).class
            BY <3>1, <4>1 DEF Takes
          <6>3. QED  BY <4>2, <6>1, <6>2
        <5>3. QED  BY <2>1, <5>1, <5>2
      <4>5. QED  BY <2>1, <3>1, <4>2, <4>3, <4>4
    <3>6. \/ pc' = "closed" /\ is_connected' = FALSE
          \/ pc' = "idle" /\ is_connected' = TRUE /\ todo' = <<>>
          \/ /\ pc' = "send" /\ is_connected' = FALSE
             /\ todo' \in {<<"USER", "PASS">>, <<"PASS">>, <<"QUIT">>}
      BY <2>1, <2>3, JoiningFails, JoiningSucceeds
    <3>7. CASE pc' = "closed" /\ is_connected' = FALSE
      BY <3>7 DEF Joining, Joined
    <3>8. CASE pc' = "idle" /\ is_connected' = TRUE /\ todo' = <<>>
      <4>1. <<>> \in Seq(Working)
        BY EmptySeq
      <4>2. inbox' = <<>> /\ up' = up
        BY <2>1, <3>3
      <4>3. QED  BY <3>5, <3>8, <4>1, <4>2 DEF Joining, Joined
    <3>9. CASE /\ pc' = "send" /\ is_connected' = FALSE
               /\ todo' \in {<<"USER", "PASS">>, <<"PASS">>, <<"QUIT">>}
      BY <2>1, <3>1, <3>4, <3>9 DEF Joining, Joined
    <3>10. QED  BY <3>6, <3>7, <3>8, <3>9
  <2>4. QED  BY <2>2, <2>3
<1>5. CASE Opens \/ OpenFails \/ Answered \/ NotOpened \/ Gets \/ Puts \/ PutBreaks \/ DataEnds \/ Shuts \/ Last
  <2>1. /\ pc \notin {"closed", "send", "read"} /\ pc' # "closed" /\ todo' \in {todo, <<>>}
        /\ UNCHANGED <<up, inbox, user, is_connected>>
    BY <1>5 DEF Opens, OpenFails, Answered, NotOpened, Gets, Puts, PutBreaks, DataEnds, Shuts, Last, Takes,
                Ended, Closed, Returns
  <2>2. is_connected
    BY <1>0, <2>1 DEF Joining
  <2>3. todo' \in Seq(Working)
    BY <1>0, <2>1, <2>2, EmptySeq DEF Joined
  <2>4. QED  BY <1>0, <2>1, <2>2, <2>3 DEF Joining, Joined
<1>6. ASSUME NEW class \in 1..5, inbox # <<>>, Head(inbox).cmd \in Commands,
             inbox' = <<>> \/ inbox' = Tail(inbox),
             UNCHANGED <<pc, todo, call, is_connected, behind>>,
             is_connected => (up' => up) /\ (user = "in" => user' = "in"),
             ~is_connected =>
               /\ chan' = Append(chan, ReplyTo(Head(inbox), class))
               /\ Head(inbox).cmd \in {"USER", "PASS"} /\ class = 2 => user' = "in"
      PROVE  Joining' /\ Joined'
  <2>1. CASE is_connected
    <3>1. \A i \in 1..Len(inbox') : inbox'[i].cmd # "USER"
      <4>1. \A i \in 1..Len(inbox) : inbox[i].cmd # "USER"
        BY <1>0, <2>1 DEF Joined
      <4>2. CASE inbox' = <<>>
        <5>1. 1..Len(inbox') = {}
          BY <4>2
        <5>2. QED  BY <5>1
      <4>3. CASE inbox' = Tail(inbox)
        <5>1. inbox \in Seq(Command)
          BY <1>0
        <5>2. \A i \in 1..Len(Tail(inbox)) : Tail(inbox)[i] = inbox[i + 1] /\ i + 1 \in 1..Len(inbox)
          BY <1>6, <5>1, TailFacts
        <5>3. QED  BY <4>1, <4>3, <5>2
      <4>4. QED  BY <1>6, <4>2, <4>3
    <3>2. QED  BY <1>0, <1>6, <2>1, <3>1 DEF Joining, Joined
  <2>2. CASE ~is_connected /\ pc = "closed"
    BY <1>6, <2>2 DEF Joining, Joined
  <2>3. CASE ~is_connected /\ pc # "closed"
    <3>1. /\ inbox' = <<>> /\ Len(chan') = 1 /\ chan'[1].of = Head(inbox).cmd /\ chan'[1].class = class
          /\ Head(inbox).cmd = Head(todo)
      BY <1>6, <2>3, JoiningServed
    <3>2. \A i \in 1..Len(chan') : chan'[i].of = Head(todo') /\ chan'[i] = chan'[1]
      BY <1>6, <3>1
    <3>3. QED  BY <1>0, <1>6, <2>3, <3>1, <3>2 DEF Joining, Joined
  <2>4. QED  BY <2>1, <2>2, <2>3
<1>7. CASE ServesLogin
  <2>1. /\ inbox # <<>> /\ Head(inbox).cmd \in Commands /\ inbox' = Tail(inbox) /\ up' = up
        /\ UNCHANGED <<pc, todo, call, is_connected, behind>>
    BY <1>7 DEF ServesLogin, Serves, Answers, Commands
  <2>2. is_connected => Head(inbox).cmd # "USER"
    BY <1>0, <2>1, TailFacts DEF Joined
  <2>3. PICK class \in {2, 3} : /\ chan' = Append(chan, ReplyTo(Head(inbox), class))
                                /\ Head(inbox).cmd \in {"USER", "PASS"} /\ class = 2 => user' = "in"
                                /\ Head(inbox).cmd # "USER" => user' \in {user, "in"}
    BY <1>7 DEF ServesLogin, Serves, Answers
  <2>4. QED  BY <1>6, <2>1, <2>2, <2>3
<1>8. CASE Does \/ Refuses
  <2>1. /\ inbox # <<>> /\ Head(inbox).cmd \in Commands /\ inbox' = Tail(inbox) /\ up' = up
        /\ UNCHANGED <<pc, todo, call, is_connected, behind, user>>
    BY <1>8 DEF Does, Refuses, Serves, Answers, Commands, Orders
  <2>2. PICK class \in {2, 3, 5} : /\ chan' = Append(chan, ReplyTo(Head(inbox), class))
                                   /\ class # 5 => user = "in"
    BY <1>8 DEF Does, Refuses, Answers
  <2>3. QED  BY <1>6, <2>1, <2>2
<1>9. CASE ServesQuit
  <2>1. /\ inbox # <<>> /\ Head(inbox).cmd = "QUIT" /\ "QUIT" \in Commands /\ inbox' = <<>> /\ up' = FALSE
        /\ chan' = Append(chan, ReplyTo(Head(inbox), 2))
        /\ UNCHANGED <<pc, todo, call, is_connected, behind, user>>
    BY <1>9 DEF ServesQuit, Serves, Commands
  <2>2. QED  BY <1>6, <2>1
<1>10. CASE OpensTransfer \/ RefusesTransfer \/ Waited
  <2>1. /\ inbox # <<>> /\ Head(inbox).cmd \in Opened /\ Opened \subseteq Commands
        /\ inbox' = Tail(inbox) /\ up' = up
        /\ UNCHANGED <<pc, todo, call, is_connected, behind, user>>
    BY <1>10 DEF OpensTransfer, RefusesTransfer, Waited, Serves, Answers, Commands, Opened
  <2>2. pc = "closed" \/ is_connected
    <3>1. SUFFICES ASSUME pc # "closed", ~is_connected  PROVE FALSE
      OBVIOUS
    <3>2. Shape /\ pc \in {"send", "read"}
      BY <1>0, <3>1 DEF StepInv, Joining
    <3>3. Asked(Commands \ Opened) /\ Head(inbox) = inbox[1]
      BY <1>0, <2>1, <3>2, ServedShape
    <3>4. QED  BY <2>1, <3>3 DEF Asked
  <2>3. CASE pc = "closed"
    BY <1>0, <2>1, <2>3 DEF Joining, Joined
  <2>4. CASE is_connected
    <3>1. \A i \in 1..Len(inbox') : inbox'[i].cmd # "USER"
      BY <1>0, <2>1, <2>4, TailFacts DEF Joined
    <3>2. QED  BY <1>0, <2>1, <2>4, <3>1 DEF Joining, Joined
  <2>5. QED  BY <2>2, <2>3, <2>4
<1>11. CASE Streams
  BY <1>0, <1>11 DEF Streams, Joining, Joined
<1>12. CASE Completes \/ Aborts
  <2>1. serving # NoCommand /\ UNCHANGED <<pc, todo, call, is_connected, behind, user, inbox, up>>
    BY <1>12 DEF Completes, Aborts, Finishes, NoCommand
  <2>2. pc = "closed" \/ is_connected
    BY <1>0, <2>1 DEF StepInv, Joining, Shape, Quiet, Asked, Replied
  <2>3. QED  BY <1>0, <2>1, <2>2 DEF Joining, Joined
<1>13. CASE Drops
  <2> DEFINE word == [of |-> "none", class |-> 4, fresh |-> FALSE]
  <2>1. /\ inbox' = <<>> /\ up' = FALSE /\ chan' \in {chan, Append(chan, word)}
        /\ UNCHANGED <<pc, todo, call, is_connected, behind, user>>
    BY <1>13 DEF Drops
  <2>2. word \in Reply /\ word.of = "none" /\ word.fresh = FALSE
    BY DEF Reply
  <2> HIDE DEF word
  <2>3. /\ Len(chan) \in Nat /\ Len(chan') \in {Len(chan), Len(chan) + 1}
        /\ \A i \in 1..Len(chan) : chan'[i] = chan[i]
        /\ Len(chan') = Len(chan) + 1 => chan'[Len(chan) + 1] = word
    BY <1>0, <2>1, <2>2, AppendProperties
  <2>4. \A i \in 1..Len(chan') : (i \in 1..Len(chan) /\ chan'[i] = chan[i]) \/ chan'[i] = word
    BY <2>3
  <2>5. Joined'
    BY <1>0, <2>1 DEF Joined
  <2>6. Joining'
    <3>1. SUFFICES ASSUME ~is_connected, pc # "closed"  PROVE Joining'
      BY <2>1 DEF Joining
    <3>2. /\ \A i \in 1..Len(chan') : chan'[i].of \in {"USER", "PASS"} /\ chan'[i].class = 2 => user' = "in"
          /\ pc = "read" => \A i \in 1..Len(chan') : chan'[i].fresh => chan'[i].of = Head(todo)
      BY <1>0, <2>1, <2>2, <2>4, <3>1 DEF Joining
    <3>3. \A i \in 1..Len(inbox') : inbox'[i].cmd = Head(todo)
      BY <2>1
    <3>4. QED  BY <1>0, <2>1, <3>1, <3>2, <3>3 DEF Joining
  <2>7. QED  BY <2>5, <2>6
<1>14. CASE UNCHANGED vars
  BY <1>0, <1>14 DEF vars, Joining, Joined
<1>15. CASE SocketFails
  <2>1. /\ pc = "send" /\ Head(todo) \in Opened /\ pc' = "idle" /\ todo' = <<>>
        /\ UNCHANGED <<up, inbox, user, is_connected>>
    BY <1>15 DEF SocketFails, Returns, Opened
  <2>2. is_connected
    <3>1. SUFFICES ASSUME ~is_connected  PROVE FALSE
      OBVIOUS
    <3>2. Head(todo) \in {"HELLO", "USER", "PASS", "QUIT"}
      BY <1>0, <2>1, <3>1, JoiningScript DEF Joining
    <3>3. QED  BY <2>1, <3>2 DEF Opened
  <2>3. todo' \in Seq(Working)
    BY <2>1, EmptySeq
  <2>4. QED  BY <1>0, <2>1, <2>2, <2>3 DEF Joining, Joined
<1>16. QED
  BY <1>1, <1>2, <1>3, <1>4, <1>5, <1>7, <1>8, <1>9, <1>10, <1>11, <1>12, <1>13, <1>14, <1>15
     DEF Next, ClientStep, ServerStep

LEMMA LoginInit == Init => Joining /\ Joined
BY DEF Init, Joining, Joined

(* A client that counts as connected has been let in by its server, or its server *)
(* is gone: Connect.                                                              *)
THEOREM LoginCorrect == Spec => []LoggedIn
<1>1. Known /\ [Next]_vars => Known'
  BY TypesStep, StepInvStep, LoginStep DEF Known
<1>2. Init => Known
  BY InitTypes, StepInvInit, LoginInit DEF Known
<1>3. Known => LoggedIn
  BY DEF Known, Joined, LoggedIn
<1>4. QED  BY <1>1, <1>2, <1>3, PTL DEF Spec
=============================================================================
