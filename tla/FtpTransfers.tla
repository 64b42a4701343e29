------------------------------ MODULE FtpTransfers ------------------------------
(***************************************************************************)
(* Transfers: what moves on the data connection is what the call asked     *)
(* for, and a call that reports success is no lie, for every set of calls, *)
(* every length of file and any number of failures.                        *)
(***************************************************************************)
EXTENDS FtpProofs

-----------------------------------------------------------------------------
(***************************************************************************)
(* What is left of the script of each call.                                *)
(***************************************************************************)
Verb == CASE call.name = "ListDir" -> "LIST" [] call.name = "Put" -> "STOR" [] OTHER -> "RETR"
Type == IF call.name = "ListDir" THEN "TYPE A" ELSE "TYPE I"
Letter == IF call.name = "ListDir" THEN "A" ELSE "I"

Underway == {"send", "read", "connect", "answer", "data", "shut", "last"}
Moving == {"connect", "answer", "data", "shut", "last"}
Ordering == {"Mkdir", "Delete", "Rmdir", "Rename", "Size"}

TransferScripts ==
  IF offset = 0
    THEN {<<"CWD", Type, "PASV", Verb>>, <<Type, "PASV", Verb>>, <<"PASV", Verb>>, <<Verb>>, <<>>}
    ELSE {<<Type, "PASV", "REST", Verb>>, <<"PASV", "REST", Verb>>, <<"REST", Verb>>, <<Verb>>, <<>>}
OrderScripts ==
  {<<"MKD">>, <<"DELE">>, <<"RMD">>, <<"RNFR", "RNTO">>, <<"RNTO">>, <<"TYPE I", "SIZE">>, <<"SIZE">>, <<>>}
OtherScripts ==
  {<<"HELLO", "USER", "PASS">>, <<"USER", "PASS">>, <<"PASS">>, <<"NOOP">>, <<"QUIT">>, <<>>}

Scripted ==
  /\ call.name \in Transfers => todo \in TransferScripts
  /\ call.name \in Ordering => todo \in OrderScripts
  /\ call.name \notin Transfers \cup Ordering => todo \in OtherScripts

(* Where the client is in its script, and where the transfer is to start. *)
Placed ==
  /\ pc \in Moving => Head(todo) \in Opened
  /\ pc = "read" => Head(todo) \notin Opened

Aimed ==
  pc \in Underway =>
    /\ call.name \in {"Get", "Put", "GetRange"} => offset = call.at
    /\ call.name = "ListDir" => offset = 0
    /\ pc \in {"send", "read", "connect", "answer"} => moved = 0 /\ ~broke

ScriptInv == Scripted /\ Placed /\ Aimed

(* Short sequences, taken apart. *)
LEMMA ShortTails ==
  /\ \A a : Head(<<a>>) = a /\ Tail(<<a>>) = <<>> /\ <<a>> # <<>>
  /\ \A a, b : Head(<<a, b>>) = a /\ Tail(<<a, b>>) = <<b>> /\ <<a, b>> # <<>>
  /\ \A a, b, c : Head(<<a, b, c>>) = a /\ Tail(<<a, b, c>>) = <<b, c>> /\ <<a, b, c>> # <<>>
  /\ \A a, b, c, d :
       Head(<<a, b, c, d>>) = a /\ Tail(<<a, b, c, d>>) = <<b, c, d>> /\ <<a, b, c, d>> # <<>>
OBVIOUS

LEMMA JoinOne ==
  ASSUME NEW a, NEW b  PROVE <<>> \o <<a>> \o <<b>> = <<a, b>>
<1> DEFINE S == {a, b}
<1>1. <<a>> \in Seq(S) /\ <<b>> \in Seq(S) /\ <<a, b>> \in Seq(S)
  OBVIOUS
<1>2. <<>> \o <<a>> = <<a>>
  BY <1>1, ConcatEmptySeq
<1>3. Len(<<a>>) = 1 /\ Len(<<b>>) = 1 /\ Len(<<a, b>>) = 2
  OBVIOUS
<1>4. /\ <<a>> \o <<b>> \in Seq(S) /\ Len(<<a>> \o <<b>>) = 2
      /\ \A i \in 1..2 : (<<a>> \o <<b>>)[i] = IF i <= 1 THEN <<a>>[i] ELSE <<b>>[i - 1]
  BY <1>1, <1>3, ConcatProperties
<1>5. \A i \in 1..2 : (<<a>> \o <<b>>)[i] = <<a, b>>[i]
  BY <1>4
<1> HIDE DEF S
<1>6. <<a>> \o <<b>> = <<a, b>>
  BY <1>1, <1>3, <1>4, <1>5, SeqEqual
<1>7. QED  BY <1>2, <1>6, Zenon

LEMMA JoinTwo ==
  ASSUME NEW a, NEW b, NEW c  PROVE <<a, b>> \o <<c>> = <<a, b, c>>
<1> DEFINE S == {a, b, c}
<1>1. <<a, b>> \in Seq(S) /\ <<c>> \in Seq(S) /\ <<a, b, c>> \in Seq(S)
  OBVIOUS
<1>2. Len(<<a, b>>) = 2 /\ Len(<<c>>) = 1 /\ Len(<<a, b, c>>) = 3
  OBVIOUS
<1>3. /\ <<a, b>> \o <<c>> \in Seq(S) /\ Len(<<a, b>> \o <<c>>) = 3
      /\ \A i \in 1..3 : (<<a, b>> \o <<c>>)[i] = IF i <= 2 THEN <<a, b>>[i] ELSE <<c>>[i - 2]
  BY <1>1, <1>2, ConcatProperties
<1>4. \A i \in 1..3 : (<<a, b>> \o <<c>>)[i] = <<a, b, c>>[i]
  BY <1>3
<1> HIDE DEF S
<1>5. QED  BY <1>1, <1>2, <1>3, <1>4, SeqEqual

LEMMA JoinThree ==
  ASSUME NEW a, NEW b, NEW c, NEW d  PROVE <<a, b, c>> \o <<d>> = <<a, b, c, d>>
<1> DEFINE S == {a, b, c, d}
<1>1. <<a, b, c>> \in Seq(S) /\ <<d>> \in Seq(S) /\ <<a, b, c, d>> \in Seq(S)
  OBVIOUS
<1>2. Len(<<a, b, c>>) = 3 /\ Len(<<d>>) = 1 /\ Len(<<a, b, c, d>>) = 4
  OBVIOUS
<1>3. /\ <<a, b, c>> \o <<d>> \in Seq(S) /\ Len(<<a, b, c>> \o <<d>>) = 4
      /\ \A i \in 1..4 : (<<a, b, c>> \o <<d>>)[i] = IF i <= 3 THEN <<a, b, c>>[i] ELSE <<d>>[i - 3]
  BY <1>1, <1>2, ConcatProperties
<1>4. \A i \in 1..4 : (<<a, b, c>> \o <<d>>)[i] = <<a, b, c, d>>[i]
  BY <1>3
<1> HIDE DEF S
<1>5. QED  BY <1>1, <1>2, <1>3, <1>4, SeqEqual

LEMMA JoinFirst ==
  ASSUME NEW a, NEW b, NEW c, NEW d  PROVE <<a>> \o <<b, c, d>> = <<a, b, c, d>>
<1> DEFINE S == {a, b, c, d}
<1>1. <<a>> \in Seq(S) /\ <<b, c, d>> \in Seq(S) /\ <<a, b, c, d>> \in Seq(S)
  OBVIOUS
<1>2. Len(<<b, c, d>>) = 3 /\ Len(<<a>>) = 1 /\ Len(<<a, b, c, d>>) = 4
  OBVIOUS
<1>3. /\ <<a>> \o <<b, c, d>> \in Seq(S) /\ Len(<<a>> \o <<b, c, d>>) = 4
      /\ \A i \in 1..4 : (<<a>> \o <<b, c, d>>)[i] = IF i <= 1 THEN <<a>>[i] ELSE <<b, c, d>>[i - 1]
  BY <1>1, <1>2, ConcatProperties
<1>4. \A i \in 1..4 : (<<a>> \o <<b, c, d>>)[i] = <<a, b, c, d>>[i]
  BY <1>3
<1> HIDE DEF S
<1>5. QED  BY <1>1, <1>2, <1>3, <1>4, SeqEqual

(* A call starts at the beginning of its script. *)
LEMMA AccessForm ==
  ASSUME NEW type, NEW verb, NEW at
  PROVE  Access(type, <<verb>>, at) = IF at = 0 THEN <<type, "PASV", verb>> ELSE <<type, "PASV", "REST", verb>>
<1>1. <<type, "PASV">> \in Seq({type, "PASV"})
  OBVIOUS
<1>2. <<type, "PASV">> \o <<>> = <<type, "PASV">>
  BY <1>1, ConcatEmptySeq
<1>3. at = 0 => Access(type, <<verb>>, at) = <<type, "PASV", verb>>
  <2>1. at = 0 => Access(type, <<verb>>, at) = (<<type, "PASV">> \o <<>>) \o <<verb>>
    BY DEF Access
  <2>2. <<type, "PASV">> \o <<verb>> = <<type, "PASV", verb>>
    BY JoinTwo
  <2>3. QED  BY <1>2, <2>1, <2>2
<1>4. at # 0 => Access(type, <<verb>>, at) = <<type, "PASV", "REST", verb>>
  <2>1. at # 0 => Access(type, <<verb>>, at) = (<<type, "PASV">> \o <<"REST">>) \o <<verb>>
    BY DEF Access
  <2>2. <<type, "PASV">> \o <<"REST">> = <<type, "PASV", "REST">>
    BY JoinTwo
  <2>3. <<type, "PASV", "REST">> \o <<verb>> = <<type, "PASV", "REST", verb>>
    BY JoinThree
  <2>4. QED  BY <2>1, <2>2, <2>3
<1>5. QED  BY <1>3, <1>4

LEMMA VerbValues ==
  /\ Verbs["Ping"] = <<"NOOP">> /\ Verbs["Quit"] = <<"QUIT">>
  /\ Verbs["Mkdir"] = <<"MKD">> /\ Verbs["Delete"] = <<"DELE">> /\ Verbs["Rmdir"] = <<"RMD">>
  /\ Verbs["Rename"] = <<"RNFR", "RNTO">> /\ Verbs["Size"] = <<"TYPE I", "SIZE">>
  /\ Verbs["Put"] = <<"STOR">> /\ Verbs["ListDir"] = <<"LIST">>
  /\ \A n \in {"Head", "GetRange", "Get"} : Verbs[n] = <<"RETR">>
<1>1. Verbs["Ping"] = <<"NOOP">> /\ Verbs["Quit"] = <<"QUIT">> /\ Verbs["Mkdir"] = <<"MKD">>
  BY DEF Verbs
<1>2. Verbs["Delete"] = <<"DELE">> /\ Verbs["Rmdir"] = <<"RMD">>
  BY DEF Verbs
<1>3. Verbs["Rename"] = <<"RNFR", "RNTO">> /\ Verbs["Size"] = <<"TYPE I", "SIZE">>
  BY DEF Verbs
<1>4. Verbs["Put"] = <<"STOR">> /\ Verbs["ListDir"] = <<"LIST">>
  BY DEF Verbs
<1>5. Verbs["Head"] = <<"RETR">> /\ Verbs["GetRange"] = <<"RETR">> /\ Verbs["Get"] = <<"RETR">>
  BY DEF Verbs
<1>6. QED  BY <1>1, <1>2, <1>3, <1>4, <1>5

LEMMA ScriptForms ==
  ASSUME NEW c \in Calls, NEW at, call' = c, offset' = at, todo' = Script(c, at),
         c.name = "ListDir" => at = 0
  PROVE  /\ Scripted' /\ Head(todo') \notin Opened
         /\ c.name \in Transfers => Head(todo') \in {"CWD", Type'}
<1>1. CASE c.name = "ListDir"
  <2>1. Script(c, at) = <<"CWD">> \o Access("TYPE A", <<"LIST">>, at)
    BY <1>1 DEF Script, Verbs
  <2>2. Script(c, at) = <<"CWD", "TYPE A", "PASV", "LIST">>
    <3>1. Access("TYPE A", <<"LIST">>, at) = <<"TYPE A", "PASV", "LIST">>
      BY <1>1, AccessForm
    <3>2. <<"CWD">> \o <<"TYPE A", "PASV", "LIST">> = <<"CWD", "TYPE A", "PASV", "LIST">>
      BY JoinFirst
    <3>3. QED  BY <2>1, <3>1, <3>2
  <2>3. Verb' = "LIST" /\ Type' = "TYPE A" /\ offset' = 0
    BY <1>1 DEF Verb, Type
  <2>4. todo' \in TransferScripts' /\ Head(todo') = "CWD"
    <3>1. Head(<<"CWD", "TYPE A", "PASV", "LIST">>) = "CWD"
      BY ShortTails
    <3>2. QED  BY <2>2, <2>3, <3>1 DEF TransferScripts
  <2>5. QED  BY <1>1, <2>4 DEF Scripted, Transfers, Readers, Ordering, Opened
<1>2. CASE c.name \in Transfers \ {"ListDir"}
  <2> DEFINE v == IF c.name = "Put" THEN "STOR" ELSE "RETR"
  <2>1. Verbs[c.name] = <<v>>
    <3>1. CASE c.name = "Put"
      BY <3>1, VerbValues
    <3>2. CASE c.name # "Put"
      <4>1. c.name \in {"Head", "GetRange", "Get"}
        BY <1>2, <3>2 DEF Transfers, Readers
      <4>2. QED  BY <3>2, <4>1, VerbValues
    <3>3. QED  BY <3>1, <3>2
  <2>2. Verb' = v /\ Type' = "TYPE I"
    BY <1>2 DEF Verb, Type
  <2> HIDE DEF v
  <2>3. Script(c, at) = Access("TYPE I", <<v>>, at)
    BY <1>2, <2>1 DEF Script
  <2>4. todo' \in TransferScripts' /\ Head(todo') = Type'
    <3>1. todo' = IF at = 0 THEN <<"TYPE I", "PASV", v>> ELSE <<"TYPE I", "PASV", "REST", v>>
      BY <2>3, AccessForm
    <3>2. Head(todo') = "TYPE I"
      <4>1. /\ Head(<<"TYPE I", "PASV", v>>) = "TYPE I"
            /\ Head(<<"TYPE I", "PASV", "REST", v>>) = "TYPE I"
        BY ShortTails
      <4>2. QED  BY <3>1, <4>1
    <3>3. QED  BY <2>2, <3>1, <3>2 DEF TransferScripts
  <2>5. QED  BY <1>2, <2>2, <2>4 DEF Scripted, Transfers, Readers, Ordering, Opened
<1>3. CASE c.name \notin Transfers
  <2>1. c.name \in {"Ping", "Mkdir", "Delete", "Rmdir", "Rename", "Size", "Quit"}
    BY <1>3, FtpControlAssumption DEF Verbs, Transfers, Readers
  <2>2. todo' = Verbs[c.name]
    BY <1>3 DEF Script, Transfers, Readers
  <2>3. CASE c.name \in Ordering
    <3>1. todo' \in OrderScripts
      BY <2>2, <2>3, VerbValues, Zenon DEF Ordering, OrderScripts
    <3>2. todo' \in {<<"MKD">>, <<"DELE">>, <<"RMD">>, <<"RNFR", "RNTO">>, <<"TYPE I", "SIZE">>}
      BY <2>2, <2>3, VerbValues, Zenon DEF Ordering
    <3>3. Head(todo') \in {"MKD", "DELE", "RMD", "RNFR", "TYPE I"}
      <4>1. /\ Head(<<"MKD">>) = "MKD" /\ Head(<<"DELE">>) = "DELE" /\ Head(<<"RMD">>) = "RMD"
            /\ Head(<<"RNFR", "RNTO">>) = "RNFR" /\ Head(<<"TYPE I", "SIZE">>) = "TYPE I"
        BY ShortTails
      <4>2. QED  BY <3>2, <4>1, Zenon
    <3>4. QED  BY <1>3, <2>3, <3>1, <3>3 DEF Scripted, OrderScripts, Opened
  <2>4. CASE c.name \in {"Ping", "Quit"}
    <3>1. todo' \in OtherScripts /\ todo' \in {<<"NOOP">>, <<"QUIT">>}
      BY <2>2, <2>4, VerbValues, Zenon DEF OtherScripts
    <3>2. Head(todo') \in {"NOOP", "QUIT"}
      BY <3>1, ShortTails
    <3>3. QED  BY <1>3, <2>4, <3>1, <3>2 DEF Scripted, OtherScripts, Ordering, Opened
  <2>5. QED  BY <2>1, <2>3, <2>4 DEF Ordering
<1>4. QED  BY <1>1, <1>2, <1>3

(* What follows the command the client is at. *)
LEMMA TransferTails ==
  ASSUME call.name \in Transfers, todo \in TransferScripts, todo # <<>>
  PROVE  /\ Tail(todo) \in TransferScripts
         /\ Head(todo) \in {"CWD", Type, "PASV", "REST", Verb}
         /\ Head(todo) = "CWD" => Tail(todo) # <<>> /\ Head(Tail(todo)) = Type
         /\ Head(todo) = Type => Tail(todo) # <<>> /\ Head(Tail(todo)) = "PASV"
         /\ Head(todo) = "PASV" => Tail(todo) # <<>> /\ Head(Tail(todo)) = IF offset = 0 THEN Verb ELSE "REST"
         /\ Head(todo) = "REST" => Tail(todo) # <<>> /\ Head(Tail(todo)) = Verb /\ offset # 0
         /\ Head(todo) = Verb => Tail(todo) = <<>>
         /\ Verb \in Opened /\ Type \in {"TYPE A", "TYPE I"}
<1>1. Verb \in Opened /\ Type \in {"TYPE A", "TYPE I"}
  BY DEF Verb, Type, Opened
<1>2. Verb \notin {"CWD", "PASV", "REST", Type} /\ Type \notin {"CWD", "PASV", "REST"}
  BY <1>1 DEF Opened
<1> DEFINE v == Verb
           t == Type
<1>3. v \notin {"CWD", "PASV", "REST", t} /\ t \notin {"CWD", "PASV", "REST"}
  BY <1>2
<1>4. TransferScripts =
        IF offset = 0 THEN {<<"CWD", t, "PASV", v>>, <<t, "PASV", v>>, <<"PASV", v>>, <<v>>, <<>>}
        ELSE {<<t, "PASV", "REST", v>>, <<"PASV", "REST", v>>, <<"REST", v>>, <<v>>, <<>>}
  BY DEF TransferScripts
<1> HIDE DEF v, t
<1>5. /\ Tail(todo) \in TransferScripts
      /\ Head(todo) \in {"CWD", t, "PASV", "REST", v}
      /\ Head(todo) = "CWD" => Tail(todo) # <<>> /\ Head(Tail(todo)) = t
      /\ Head(todo) = t => Tail(todo) # <<>> /\ Head(Tail(todo)) = "PASV"
      /\ Head(todo) = "PASV" => Tail(todo) # <<>> /\ Head(Tail(todo)) = IF offset = 0 THEN v ELSE "REST"
      /\ Head(todo) = "REST" => Tail(todo) # <<>> /\ Head(Tail(todo)) = v /\ offset # 0
      /\ Head(todo) = v => Tail(todo) = <<>>
  <2>1. CASE todo = <<"CWD", t, "PASV", v>> /\ offset = 0
    <3>1. Head(todo) = "CWD" /\ Tail(todo) = <<t, "PASV", v>> /\ Tail(todo) # <<>> /\ Head(Tail(todo)) = t
      BY <2>1, ShortTails
    <3>2. <<t, "PASV", v>> \in TransferScripts
      BY <1>4, <2>1, Zenon
    <3>3. QED  BY <1>3, <2>1, <3>1, <3>2, Zenon
  <2>2. CASE todo = <<t, "PASV", v>> /\ offset = 0
    <3>1. Head(todo) = t /\ Tail(todo) = <<"PASV", v>> /\ Tail(todo) # <<>> /\ Head(Tail(todo)) = "PASV"
      BY <2>2, ShortTails
    <3>2. <<"PASV", v>> \in TransferScripts
      BY <1>4, <2>2, Zenon
    <3>3. QED  BY <1>3, <2>2, <3>1, <3>2, Zenon
  <2>3. CASE todo = <<"PASV", v>> /\ offset = 0
    <3>1. Head(todo) = "PASV" /\ Tail(todo) = <<v>> /\ Tail(todo) # <<>> /\ Head(Tail(todo)) = v
      BY <2>3, ShortTails
    <3>2. <<v>> \in TransferScripts
      BY <1>4, <2>3, Zenon
    <3>3. QED  BY <1>3, <2>3, <3>1, <3>2, Zenon
  <2>4. CASE todo = <<v>>
    BY <1>3, <1>4, <2>4, ShortTails, Zenon
  <2>5. CASE todo = <<t, "PASV", "REST", v>> /\ offset # 0
    <3>1. Head(todo) = t /\ Tail(todo) = <<"PASV", "REST", v>> /\ Tail(todo) # <<>> /\ Head(Tail(todo)) = "PASV"
      BY <2>5, ShortTails
    <3>2. <<"PASV", "REST", v>> \in TransferScripts
      BY <1>4, <2>5, Zenon
    <3>3. QED  BY <1>3, <2>5, <3>1, <3>2, Zenon
  <2>6. CASE todo = <<"PASV", "REST", v>> /\ offset # 0
    <3>1. Head(todo) = "PASV" /\ Tail(todo) = <<"REST", v>> /\ Tail(todo) # <<>> /\ Head(Tail(todo)) = "REST"
      BY <2>6, ShortTails
    <3>2. <<"REST", v>> \in TransferScripts
      BY <1>4, <2>6, Zenon
    <3>3. QED  BY <1>3, <2>6, <3>1, <3>2, Zenon
  <2>7. CASE todo = <<"REST", v>> /\ offset # 0
    <3>1. Head(todo) = "REST" /\ Tail(todo) = <<v>> /\ Tail(todo) # <<>> /\ Head(Tail(todo)) = v
      BY <2>7, ShortTails
    <3>2. <<v>> \in TransferScripts
      BY <1>4, <2>7, Zenon
    <3>3. QED  BY <1>3, <2>7, <3>1, <3>2, Zenon
  <2>8. \/ offset = 0 /\ todo \in {<<"CWD", t, "PASV", v>>, <<t, "PASV", v>>, <<"PASV", v>>, <<v>>}
        \/ offset # 0 /\ todo \in {<<t, "PASV", "REST", v>>, <<"PASV", "REST", v>>, <<"REST", v>>, <<v>>}
    BY <1>4, Zenon
  <2>9. QED  BY <2>1, <2>2, <2>3, <2>4, <2>5, <2>6, <2>7, <2>8, Zenon
<1>6. QED  BY <1>1, <1>5 DEF v, t

LEMMA OrderTails ==
  ASSUME todo \in OrderScripts, todo # <<>>
  PROVE  /\ Tail(todo) \in OrderScripts
         /\ Head(todo) \in Orders \cup {"RNFR", "TYPE I"}
         /\ Head(todo) \in Orders <=> Tail(todo) = <<>>
<1>1. ASSUME NEW a \in {"MKD", "DELE", "RMD", "RNTO", "SIZE"}, todo = <<a>>
      PROVE  /\ Tail(todo) = <<>> /\ Head(todo) = a /\ a \in Orders
  BY <1>1, ShortTails DEF Orders
<1>2. CASE todo = <<"RNFR", "RNTO">>
  <2>1. Tail(todo) = <<"RNTO">> /\ Head(todo) = "RNFR" /\ Tail(todo) # <<>>
    BY <1>2, ShortTails, Zenon
  <2>2. QED  BY <2>1, Zenon DEF OrderScripts, Orders
<1>3. CASE todo = <<"TYPE I", "SIZE">>
  <2>1. Tail(todo) = <<"SIZE">> /\ Head(todo) = "TYPE I" /\ Tail(todo) # <<>>
    BY <1>3, ShortTails, Zenon
  <2>2. QED  BY <2>1, Zenon DEF OrderScripts, Orders
<1>4. <<>> \in OrderScripts
  BY DEF OrderScripts
<1>5. \/ \E a \in {"MKD", "DELE", "RMD", "RNTO", "SIZE"} : todo = <<a>>
      \/ todo = <<"RNFR", "RNTO">> \/ todo = <<"TYPE I", "SIZE">>
  BY Zenon DEF OrderScripts
<1>6. QED  BY <1>1, <1>2, <1>3, <1>4, <1>5

LEMMA OtherTails ==
  ASSUME todo \in OtherScripts, todo # <<>>
  PROVE  /\ Tail(todo) \in OtherScripts
         /\ Head(todo) \in {"HELLO", "USER", "PASS", "NOOP", "QUIT"}
<1>1. CASE todo = <<"HELLO", "USER", "PASS">>
  <2>1. Tail(todo) = <<"USER", "PASS">> /\ Head(todo) = "HELLO"
    BY <1>1, ShortTails
  <2>2. QED  BY <2>1, Zenon DEF OtherScripts
<1>2. CASE todo = <<"USER", "PASS">>
  BY <1>2, ShortTails, Zenon DEF OtherScripts
<1>3. ASSUME NEW a \in {"PASS", "NOOP", "QUIT"}, todo = <<a>>
      PROVE  Tail(todo) = <<>> /\ Head(todo) = a
  BY <1>3, ShortTails, Zenon
<1>4. <<>> \in OtherScripts
  BY DEF OtherScripts
<1>5. \/ \E a \in {"PASS", "NOOP", "QUIT"} : todo = <<a>>
      \/ todo = <<"USER", "PASS">> \/ todo = <<"HELLO", "USER", "PASS">>
  BY Zenon DEF OtherScripts
<1>6. QED  BY <1>1, <1>2, <1>3, <1>4, <1>5, Zenon

(* The end of a command: what is left, and which commands end a call. *)
LEMMA Ends ==
  ASSUME TypeInv, ScriptInv, (pc = "send" /\ Fails) \/ (pc = "read" /\ (Succeeds \/ Fails)),
         UNCHANGED <<call, offset>>
  PROVE  /\ Scripted'
         /\ pc' \in {"closed", "idle", "send", "wild"} /\ (pc' = "send" => todo' # <<>>)
         /\ call.name \in Transfers =>
              /\ pc' \in {"idle", "send", "wild"}
              /\ pc' = "idle" => ret' = 0
              /\ pc' = "send" => todo' = Tail(todo) /\ (Head(todo) # "CWD" => Succeeds)
         /\ call.name \in Ordering =>
              /\ pc' = "idle" /\ ret' = 1 => Succeeds /\ Head(todo) \in Orders
<1>0. todo # <<>> /\ (pc = "read" => Head(todo) \notin Opened)
  BY DEF TypeInv, TypeOK, ScriptInv, Placed
<1>1. CASE call.name \in Transfers
  <2>1. todo \in TransferScripts
    BY <1>1 DEF ScriptInv, Scripted
  <2>2. /\ Tail(todo) \in TransferScripts
        /\ Head(todo) \in {"CWD", Type, "PASV", "REST", Verb}
        /\ Verb \in Opened /\ Type \in {"TYPE A", "TYPE I"}
        /\ Head(todo) # Verb => Tail(todo) # <<>>
    BY <1>1, <1>0, <2>1, TransferTails
  <2>3. Head(todo) \notin {"HELLO", "USER", "PASS", "QUIT"}
    BY <2>2 DEF Opened
  <2>4. <<"PASS">> # todo /\ <<"QUIT">> # todo
    <3>1. Head(<<"PASS">>) = "PASS" /\ Head(<<"QUIT">>) = "QUIT"
      BY ShortTails
    <3>2. QED  BY <2>3, <3>1
  <2>5. <<>> \in TransferScripts
    BY DEF TransferScripts
  <2>6. CASE Fails
    <3>1. \/ pc' = "send" /\ todo' = Tail(todo) /\ Head(todo) = "CWD"
          \/ pc' = "wild" /\ todo' = todo
          \/ pc' = "idle" /\ ret' = 0 /\ todo' = <<>>
      BY <2>3, <2>6 DEF Fails, Goes, Returns
    <3>2. todo' \in TransferScripts
      BY <2>1, <2>2, <2>5, <3>1
    <3>3. Tail(todo) # <<>> \/ Head(todo) # "CWD"
      BY <2>2 DEF Opened
    <3>4. TransferScripts' = TransferScripts
      BY DEF TransferScripts, Type, Verb
    <3>5. Scripted'
      BY <1>1, <3>2, <3>4 DEF Scripted, Transfers, Readers, Ordering
    <3>6. QED  BY <1>1, <3>1, <3>3, <3>5 DEF Transfers, Readers, Ordering
  <2>7. CASE pc = "read" /\ Succeeds
    <3>1. Tail(todo) # <<>>
      BY <1>0, <2>2, <2>7
    <3>2. pc' = "send" /\ todo' = Tail(todo)
      BY <2>4, <2>7, <3>1 DEF Succeeds, Goes
    <3>3. TransferScripts' = TransferScripts
      BY DEF TransferScripts, Type, Verb
    <3>4. Scripted'
      BY <1>1, <2>2, <3>2, <3>3 DEF Scripted, Transfers, Readers, Ordering
    <3>5. QED  BY <1>1, <2>7, <3>1, <3>2, <3>4 DEF Transfers, Readers, Ordering
  <2>8. QED  BY <2>6, <2>7
<1>2. CASE call.name \in Ordering
  <2>1. todo \in OrderScripts
    BY <1>2 DEF ScriptInv, Scripted
  <2>2. /\ Tail(todo) \in OrderScripts
        /\ Head(todo) \in Orders \cup {"RNFR", "TYPE I"}
        /\ Head(todo) \in Orders <=> Tail(todo) = <<>>
    BY <1>0, <2>1, OrderTails
  <2>3. Head(todo) \notin {"HELLO", "USER", "PASS", "QUIT", "CWD", "REST"}
    BY <2>2 DEF Orders
  <2>4. <<"PASS">> # todo /\ <<"QUIT">> # todo
    <3>1. Head(<<"PASS">>) = "PASS" /\ Head(<<"QUIT">>) = "QUIT"
      BY ShortTails
    <3>2. QED  BY <2>3, <3>1
  <2>5. \/ pc' = "idle" /\ ret' = 0 /\ todo' = <<>>
        \/ pc' = "idle" /\ Succeeds /\ todo' = <<>> /\ Head(todo) \in Orders
        \/ pc' = "send" /\ todo' = Tail(todo) /\ Tail(todo) # <<>>
    <3>1. Fails => pc' = "idle" /\ ret' = 0 /\ todo' = <<>>
      BY <2>3 DEF Fails, Returns
    <3>2. Succeeds => \/ pc' = "send" /\ todo' = Tail(todo) /\ Tail(todo) # <<>>
                      \/ pc' = "idle" /\ todo' = <<>> /\ Tail(todo) = <<>>
      BY <2>4 DEF Succeeds, Returns, Goes
    <3>3. QED  BY <2>2, <3>1, <3>2
  <2>6. Scripted'
    <3>1. todo' \in OrderScripts
      BY <2>2, <2>5 DEF OrderScripts
    <3>2. QED  BY <1>2, <3>1 DEF Scripted, Transfers, Readers, Ordering, OrderScripts
  <2>7. QED  BY <1>2, <2>5, <2>6 DEF Transfers, Readers, Ordering
<1>3. CASE call.name \notin Transfers \cup Ordering
  <2>1. todo \in OtherScripts
    BY <1>3 DEF ScriptInv, Scripted
  <2>2. Tail(todo) \in OtherScripts /\ Head(todo) \in {"HELLO", "USER", "PASS", "NOOP", "QUIT"}
    BY <1>0, <2>1, OtherTails
  <2>3. <<>> \in OtherScripts /\ <<"QUIT">> \in OtherScripts /\ <<"QUIT">> # <<>>
    BY ShortTails DEF OtherScripts
  <2>4. pc' \in {"closed", "idle", "send"} /\ todo' \in {<<>>, <<"QUIT">>, Tail(todo)}
        /\ (pc' = "send" => todo' # <<>>)
    <3>1. Fails => pc' \in {"closed", "idle", "send"} /\ todo' \in {<<>>, <<"QUIT">>}
                   /\ (pc' = "send" => todo' = <<"QUIT">>)
      BY <2>2 DEF Fails, Closes, LogsIn, Returns, Goes
    <3>2. Succeeds => pc' \in {"closed", "idle", "send"} /\ todo' \in {<<>>, Tail(todo)}
                      /\ (pc' = "send" => todo' # <<>>)
      BY DEF Succeeds, Closes, LogsIn, Returns, Goes
    <3>3. QED  BY <2>3, <3>1, <3>2
  <2>5. Scripted'
    BY <1>3, <2>2, <2>3, <2>4 DEF Scripted, OtherScripts
  <2>6. QED  BY <1>3, <2>4, <2>5
<1>4. QED  BY <1>1, <1>2, <1>3

LEMMA ScriptKept ==
  ASSUME ScriptInv, UNCHANGED <<call, offset, todo, moved, broke>>,
         pc' = pc \/ (pc \in Moving /\ pc' \in Moving /\ (pc' \in {"connect", "answer"} => pc \in {"connect", "answer"}))
  PROVE  ScriptInv'
<1>1. Scripted'
  <2>1. TransferScripts' = TransferScripts
    BY DEF TransferScripts, Type, Verb
  <2>2. QED  BY <2>1 DEF ScriptInv, Scripted
<1>2. Placed' /\ Aimed'
  BY DEF ScriptInv, Placed, Aimed, Moving, Underway
<1>3. QED  BY <1>1, <1>2 DEF ScriptInv

LEMMA ScriptReturned ==
  ASSUME todo' = <<>>, pc' \in {"idle", "closed"}
  PROVE  ScriptInv'
<1>1. Scripted'
  BY DEF Scripted, TransferScripts, OrderScripts, OtherScripts
<1>2. QED  BY <1>1 DEF ScriptInv, Placed, Aimed, Moving, Underway

LEMMA ScriptStep == TypeInv /\ ScriptInv /\ [Next]_vars => ScriptInv'
<1> SUFFICES ASSUME TypeInv, ScriptInv, [Next]_vars  PROVE ScriptInv'
  OBVIOUS
<1> USE DEF result, client, control, login, transfer, data
<1>0. todo \in Seq(Commands) /\ (pc \in Underway => todo # <<>>)
  BY DEF TypeInv, TypeOK, Underway
<1>1. CASE Connects
  <2>1. CASE Closes(0)
    BY <2>1, ScriptReturned DEF Closes
  <2>2. CASE ~Closes(0)
    <3>1. pc' = "read" /\ todo' = <<"HELLO", "USER", "PASS">>
      BY <1>1, <2>2, Zenon DEF Connects
    <3>2. call' = Connect /\ moved' = 0 /\ broke' = FALSE
      BY <1>1 DEF Connects
    <3>3. Head(todo') = "HELLO"
      BY <3>1, ShortTails
    <3>4. Scripted'
      BY <3>1, <3>2 DEF Scripted, Connect, Transfers, Readers, Ordering, OtherScripts
    <3>5. Placed' /\ Aimed'
      BY <3>1, <3>2, <3>3 DEF Placed, Aimed, Connect, Opened, Moving
    <3>6. QED  BY <3>4, <3>5 DEF ScriptInv
  <2>3. QED  BY <2>1, <2>2
<1>2. ASSUME NEW c \in Calls, Begins(c)  PROVE ScriptInv'
  <2>1. /\ call' = c /\ offset' = Offset(c) /\ todo' = Script(c, offset') /\ pc' = "send"
        /\ moved' = 0 /\ broke' = FALSE
    BY <1>2 DEF Begins
  <2>2. c.name = "ListDir" => offset' = 0
    BY <2>1 DEF Offset
  <2>3. c.name \in {"Get", "Put", "GetRange"} => offset' = c.at
    BY <2>1 DEF Offset
  <2>4. Scripted'
    BY <2>1, <2>2, ScriptForms
  <2>5. Placed' /\ Aimed'
    BY <2>1, <2>2, <2>3 DEF Placed, Aimed, Moving
  <2>6. QED  BY <2>4, <2>5 DEF ScriptInv
<1>3. CASE Sends
  <2>1. /\ pc = "send" /\ pc' = IF Head(todo) \in Opened THEN "connect" ELSE "read"
        /\ UNCHANGED <<call, offset, todo, moved, broke>>
    BY <1>3 DEF Sends, Opened
  <2>2. Scripted'
    <3>1. TransferScripts' = TransferScripts
      BY <2>1 DEF TransferScripts, Type, Verb
    <3>2. QED  BY <2>1, <3>1 DEF ScriptInv, Scripted
  <2>3. Placed' /\ Aimed'
    BY <2>1 DEF ScriptInv, Placed, Aimed, Moving, Underway
  <2>4. QED  BY <2>2, <2>3 DEF ScriptInv
<1>4. CASE SendFails \/ Reads
  <2>1. /\ (pc = "send" /\ Fails) \/ (pc = "read" /\ (Succeeds \/ Fails))
        /\ UNCHANGED <<call, offset, moved, broke>>
    BY <1>4 DEF SendFails, Reads
  <2>2. Scripted' /\ pc' \in {"closed", "idle", "send", "wild"}
    BY <2>1, Ends
  <2>3. Placed' /\ Aimed'
    BY <2>1, <2>2 DEF ScriptInv, Placed, Aimed, Moving, Underway
  <2>4. QED  BY <2>2, <2>3 DEF ScriptInv
<1>5. CASE Opens
  BY <1>5, ScriptKept DEF Opens, Moving
<1>6. CASE OpenFails \/ NotOpened \/ SocketFails
  BY <1>6, ScriptReturned DEF OpenFails, NotOpened, SocketFails, Returns
<1>7. CASE Answered
  <2>1. CASE Returns(0)
    BY <2>1, ScriptReturned DEF Returns
  <2>2. CASE ~Returns(0)
    <3>1. pc = "answer" /\ pc' = "data" /\ UNCHANGED <<call, offset, todo, moved, broke>>
      BY <1>7, <2>2 DEF Answered
    <3>2. QED  BY <3>1, ScriptKept DEF Moving
  <2>3. QED  BY <2>1, <2>2
<1>8. CASE Gets \/ Puts \/ PutBreaks
  <2>1. pc = "data" /\ pc' \in {"data", "shut"} /\ UNCHANGED <<call, offset, todo>>
    BY <1>8 DEF Gets, Puts, PutBreaks
  <2>2. Scripted'
    <3>1. TransferScripts' = TransferScripts
      BY <2>1 DEF TransferScripts, Type, Verb
    <3>2. QED  BY <2>1, <3>1 DEF ScriptInv, Scripted
  <2>3. Placed' /\ Aimed'
    BY <2>1 DEF ScriptInv, Placed, Aimed, Moving, Underway
  <2>4. QED  BY <2>2, <2>3 DEF ScriptInv
<1>9. CASE DataEnds
  BY <1>9, ScriptKept DEF DataEnds, Moving
<1>10. CASE Shuts
  BY <1>10, ScriptKept DEF Shuts, Moving
<1>11. CASE Last
  <2>1. todo' = <<>> /\ pc' = "idle"
    BY <1>11 DEF Last, Closed, Returns
  <2>2. QED  BY <2>1, ScriptReturned
<1>12. CASE ServerStep \/ Drops
  <2>1. UNCHANGED client
    BY <1>12 DEF ServerStep, ServesLogin, Does, Refuses, ServesQuit, OpensTransfer, RefusesTransfer, Waited,
                 Streams, Completes, Aborts, Finishes, Drops
  <2>2. QED  BY <2>1, ScriptKept
<1>13. CASE UNCHANGED vars
  BY <1>13, ScriptKept DEF vars
<1>14. QED
  BY <1>1, <1>2, <1>3, <1>4, <1>5, <1>6, <1>7, <1>8, <1>9, <1>10, <1>11, <1>12, <1>13 DEF Next, ClientStep

LEMMA ScriptInit == Init => ScriptInv
<1> SUFFICES ASSUME Init  PROVE ScriptInv
  OBVIOUS
<1>1. pc = "closed" /\ call = Connect /\ todo = <<>>
  BY DEF Init
<1>2. QED
  BY <1>1 DEF ScriptInv, Scripted, Placed, Aimed, TransferScripts, OrderScripts, OtherScripts, Moving, Underway

-----------------------------------------------------------------------------
(***************************************************************************)
(* Out of step.  Once a transfer has been given up before its last reply   *)
(* there is a reply too many, on the control connection or owed by a       *)
(* server that still runs the transfer, for good: the reply the client     *)
(* reads is never the one to what it has just sent, so it never again      *)
(* knows the port the server listens on, and its data connections lead     *)
(* nowhere.                                                                *)
(***************************************************************************)
First(class) == chan # <<>> /\ chan[1].class = class
Owed == IF serving = NoCommand THEN 0 ELSE 1
Unread == Len(chan) + Len(inbox) + Owed

Linked ==
  /\ ~behind /\ serving # NoCommand => (pc \in {"answer", "data", "shut"} => dconn = "open")
  /\ behind => dconn # "open" /\ (pc = "connect" => ~port)
  /\ pc = "last" => dconn = "shut"

Dead ==
  pc \in {"answer", "data"} /\ dconn # "open" => dconn = "dead" /\ moved = 0 /\ dpipe = 0 /\ dend = "cut"

Ported ==
  behind /\ pc \in {"send", "read"} /\ call.name \in Transfers /\ Head(todo) \in {"REST", Verb} => ~port

(* A first reply to a transfer is followed by the second; the next reply to be *)
(* read, or the next to be made, is not to the last command sent.              *)
Pairs == \A i \in 1..Len(chan) : chan[i].class = 1 => i + 1 \in 1..Len(chan) /\ chan[i + 1].class = 4
FrontOld ==
  /\ chan # <<>> => ~chan[1].fresh
  /\ chan = <<>> /\ serving # NoCommand => ~serving.fresh
  /\ chan = <<>> /\ serving = NoCommand /\ inbox # <<>> => ~inbox[1].fresh

Backlog ==
  /\ Pairs
  /\ pc \in {"idle", "send"} => (up => Unread >= 1)
  /\ pc \in {"read", "connect", "answer"} =>
       FrontOld /\ (up => Unread >= 2 /\ (First(1) => Unread >= 3))
  /\ pc \in {"data", "shut", "last"} => First(4) /\ (up => Unread >= 2)

Awaited == ~behind /\ up /\ pc = "connect" => Len(chan) + Len(inbox) >= 1

LateInv == Linked /\ Dead /\ Ported /\ (behind => Backlog) /\ Awaited

LEMMA LinkedStep ==
  ASSUME TypeInv, StepInv, ScriptInv, LateInv, [Next]_vars
  PROVE  Linked' /\ Dead'
<1> USE DEF result, client, control, login, transfer, data
<1>0. /\ Linked /\ Dead /\ Ported /\ DataOpen /\ (~behind => Shape) /\ serving \in Command
      /\ behind \in BOOLEAN /\ port \in BOOLEAN /\ dconn \in {"none", "open", "dead", "shut"}
      /\ dpipe \in 0..Pipe /\ Pipe \in Nat \ {0}
  BY FtpControlAssumption DEF LateInv, StepInv, TypeInv, TypeOK
<1>s. pc \in {"idle", "send", "read", "connect"} => dconn # "open" /\ (~behind => serving = NoCommand)
  BY <1>0 DEF Linked, DataOpen, Shape, Quiet, Asked, Replied, Refused
<1>1. CASE Connects
  <2>1. serving' = NoCommand /\ dconn' = "none" /\ behind' = FALSE
    BY <1>1 DEF Connects
  <2>2. pc' \in {"read", "closed"}
    BY <1>1 DEF Connects, Closes
  <2>3. QED  BY <2>1, <2>2 DEF Linked, Dead
<1>2. CASE \E c \in Calls : Begins(c)
  <2>1. pc = "idle" /\ pc' = "send" /\ UNCHANGED <<serving, dconn, behind>>
    BY <1>2 DEF Begins
  <2>2. QED  BY <1>0, <1>s, <2>1 DEF Linked, Dead
<1>3. CASE Sends
  <2>1. /\ pc = "send" /\ UNCHANGED <<dconn, behind, port>> /\ pc' \in {"connect", "read"}
        /\ pc' = "connect" => Head(todo) \in Opened
        /\ serving' = [serving EXCEPT !.fresh = FALSE]
    BY <1>3 DEF Sends, Opened
  <2>2. ASSUME ~behind  PROVE serving' = NoCommand
    <3>1. serving = NoCommand
      BY <1>s, <2>1, <2>2
    <3>2. QED  BY <2>1, <3>1 DEF NoCommand
  <2>3. pc' = "connect" /\ behind => ~port
    <3>1. SUFFICES ASSUME pc' = "connect", behind  PROVE ~port
      OBVIOUS
    <3>2. todo # <<>> /\ Scripted
      BY <2>1 DEF TypeInv, TypeOK, ScriptInv
    <3>3. call.name \in Transfers
      <4>1. CASE call.name \in Ordering
        BY <2>1, <3>1, <3>2, <4>1, OrderTails DEF Scripted, Opened, Orders
      <4>2. CASE call.name \notin Transfers \cup Ordering
        BY <2>1, <3>1, <3>2, <4>2, OtherTails DEF Scripted, Opened
      <4>3. QED  BY <4>1, <4>2
    <3>4. Head(todo) = Verb
      <4>1. Head(todo) \in {"CWD", Type, "PASV", "REST", Verb} /\ Type \in {"TYPE A", "TYPE I"}
        BY <3>2, <3>3, TransferTails DEF Scripted
      <4>2. QED  BY <2>1, <3>1, <4>1 DEF Opened
    <3>5. QED  BY <1>0, <2>1, <3>1, <3>3, <3>4 DEF Ported
  <2>4. QED  BY <1>0, <1>s, <2>1, <2>2, <2>3 DEF Linked, Dead
<1>4. CASE SendFails \/ Reads
  <2>1. pc \in {"send", "read"} /\ UNCHANGED <<serving, dconn, behind>>
    BY <1>4 DEF SendFails, Reads
  <2>2. pc' \in {"closed", "idle", "send", "wild"}
    <3>1. (pc = "send" /\ Fails) \/ (pc = "read" /\ (Succeeds \/ Fails)) 
      BY <1>4 DEF SendFails, Reads
    <3>2. UNCHANGED <<call, offset>>
      BY <1>4 DEF SendFails, Reads
    <3>3. QED  BY <3>1, <3>2, Ends
  <2>3. QED  BY <1>0, <1>s, <2>1, <2>2 DEF Linked, Dead
<1>5. CASE Opens
  <2>1. /\ pc = "connect" /\ pc' = "answer" /\ UNCHANGED <<serving, behind, moved>> /\ dpipe' = 0
        /\ \/ port /\ dconn' = "open"
           \/ dconn' = "dead" /\ dend' = "cut"
    BY <1>5 DEF Opens
  <2>2. moved = 0
    BY <2>1 DEF ScriptInv, Aimed, Underway
  <2>3. QED  BY <1>0, <1>s, <2>1, <2>2 DEF Linked, Dead
<1>6. CASE OpenFails \/ NotOpened \/ SocketFails
  <2>1. /\ pc' = "idle" /\ UNCHANGED serving
        /\ \/ pc \in {"connect", "send"} /\ UNCHANGED dconn
           \/ dconn' = "shut"
    BY <1>6 DEF OpenFails, NotOpened, SocketFails, Returns
  <2>2. QED  BY <1>s, <2>1 DEF Linked, Dead
<1>7. CASE Answered
  <2>1. /\ pc = "answer" /\ UNCHANGED <<serving, behind, moved, dpipe, dend>>
        /\ \/ pc' = "data" /\ dconn' = dconn
           \/ pc' = "idle" /\ dconn' = "shut"
    BY <1>7 DEF Answered, Returns
  <2>2. QED  BY <1>0, <2>1 DEF Linked, Dead
<1>8. CASE Gets
  <2>1. /\ pc = "data" /\ pc' \in {"data", "shut"} /\ UNCHANGED <<serving, behind, dconn>> /\ dpipe > 0
    BY <1>8 DEF Gets
  <2>2. dconn = "open"
    BY <1>0, <2>1 DEF Dead
  <2>3. QED  BY <1>0, <2>1, <2>2 DEF Linked, Dead
<1>9. CASE Puts
  <2>1. /\ pc = "data" /\ pc' = "data" /\ UNCHANGED <<serving, behind, dconn>> /\ dend = "open"
    BY <1>9 DEF Puts
  <2>2. dconn = "open"
    BY <1>0, <2>1 DEF Dead
  <2>3. QED  BY <1>0, <2>1, <2>2 DEF Linked, Dead
<1>10. CASE DataEnds \/ PutBreaks
  BY <1>0, <1>10 DEF DataEnds, PutBreaks, Linked, Dead
<1>11. CASE Shuts
  BY <1>0, <1>11 DEF Shuts, Linked, Dead
<1>12. CASE Last
  <2>1. pc' = "idle" /\ pc = "last" /\ UNCHANGED <<serving, dconn, behind>>
    BY <1>12 DEF Last, Closed, Returns
  <2>2. QED  BY <1>0, <2>1 DEF Linked, Dead
<1>13. CASE ServesLogin \/ Does \/ Refuses \/ ServesQuit \/ RefusesTransfer \/ Waited
  <2>1. UNCHANGED <<pc, serving, behind, dconn, dpipe, dend, moved, port>>
    BY <1>13 DEF ServesLogin, Does, Refuses, ServesQuit, RefusesTransfer, Waited
  <2>2. QED  BY <1>0, <2>1 DEF Linked, Dead
<1>14. CASE OpensTransfer
  <2>1. UNCHANGED <<pc, behind, dconn, dpipe, dend, moved, port>> /\ dconn = "open"
    BY <1>14 DEF OpensTransfer
  <2>2. QED  BY <1>0, <2>1 DEF Linked, Dead
<1>15. CASE Streams
  <2>1. /\ UNCHANGED <<pc, serving, behind, dconn, moved, port, dend>>
        /\ dconn = "open" \/ dpipe > 0
    BY <1>15 DEF Streams
  <2>2. pc \in {"answer", "data"} => dconn = "open"
    BY <1>0, <2>1 DEF Dead
  <2>3. QED  BY <1>0, <2>1, <2>2 DEF Linked, Dead
<1>16. CASE Completes \/ Aborts
  <2>1. /\ UNCHANGED <<pc, behind, dconn, moved, port>> /\ serving' = NoCommand
        /\ dpipe' = dpipe \/ dpipe' = 0
        /\ dconn = "dead" => dend' = dend
    BY <1>16 DEF Completes, Aborts, Finishes
  <2>2. Linked'
    BY <1>0, <2>1 DEF Linked
  <2>3. Dead'
    BY <1>0, <2>1 DEF Dead
  <2>4. QED  BY <2>2, <2>3
<1>17. CASE Drops
  <2>1. /\ UNCHANGED <<pc, behind, dconn, moved, port>> /\ serving' = NoCommand
        /\ \/ UNCHANGED <<dpipe, dend>>
           \/ dend' = "cut" /\ dpipe' = 0
    BY <1>17 DEF Drops
  <2>2. QED  BY <1>0, <2>1 DEF Linked, Dead
<1>18. CASE UNCHANGED vars
  BY <1>0, <1>18 DEF vars, Linked, Dead
<1>19. QED
  BY <1>1, <1>2, <1>3, <1>4, <1>5, <1>6, <1>7, <1>8, <1>9, <1>10, <1>11, <1>12, <1>13, <1>14, <1>15,
     <1>16, <1>17, <1>18 DEF Next, ClientStep, ServerStep

LEMMA PortedStep ==
  ASSUME TypeInv, StepInv, ScriptInv, LateInv, [Next]_vars
  PROVE  Ported'
<1> USE DEF result, client, control, login, transfer, data
<1>0. Ported /\ Scripted /\ (pc \in Underway => todo # <<>>) /\ port \in BOOLEAN /\ chan \in Seq(Reply)
  BY DEF LateInv, ScriptInv, TypeInv, TypeOK, Underway
<1>1. CASE Connects
  BY <1>1 DEF Connects, Ported
<1>2. ASSUME NEW c \in Calls, Begins(c)  PROVE Ported'
  <2>1. call' = c /\ offset' = Offset(c) /\ todo' = Script(c, offset')
    BY <1>2 DEF Begins
  <2>2. c.name = "ListDir" => offset' = 0
    BY <2>1 DEF Offset
  <2>3. c.name \in Transfers => Head(todo') \in {"CWD", Type'}
    BY <2>1, <2>2, ScriptForms
  <2>4. Type' \in {"TYPE A", "TYPE I"} /\ Verb' \in Opened
    BY DEF Type, Verb, Opened
  <2>5. QED  BY <2>1, <2>3, <2>4 DEF Ported, Opened
<1>3. CASE Sends
  <2>1. pc = "send" /\ UNCHANGED <<behind, call, todo, port>>
    BY <1>3 DEF Sends
  <2>2. QED  BY <1>0, <2>1 DEF Ported, Verb
<1>4. CASE SendFails \/ Reads
  <2>1. /\ (pc = "send" /\ Fails) \/ (pc = "read" /\ (Succeeds \/ Fails))
        /\ UNCHANGED <<call, offset, behind>> /\ pc \in {"send", "read"}
    BY <1>4 DEF SendFails, Reads
  <2>2. SUFFICES ASSUME behind, pc' \in {"send", "read"}, call.name \in Transfers, Head(todo') \in {"REST", Verb}
                 PROVE  ~port'
    BY <2>1 DEF Ported, Verb
  <2>3. pc' = "send" /\ todo' = Tail(todo) /\ (Head(todo) # "CWD" => Succeeds) /\ todo \in TransferScripts
        /\ todo # <<>>
    BY <1>0, <2>1, <2>2, Ends DEF Scripted, Underway
  <2>4. /\ Head(todo) \in {"CWD", Type, "PASV", "REST", Verb}
        /\ Head(todo) = "CWD" => Head(todo') = Type
        /\ Head(todo) = Type => Head(todo') = "PASV"
        /\ Head(todo) = Verb => todo' = <<>>
        /\ Verb \in Opened /\ Type \in {"TYPE A", "TYPE I"} /\ todo' # <<>>
    BY <2>1, <2>2, <2>3, TransferTails, Ends
  <2>5. Head(todo) \in {"PASV", "REST"}
    BY <2>2, <2>4 DEF Opened
  <2>6. pc = "read" /\ Takes
    <3>1. ~(pc = "send" /\ Fails)
      BY <2>3, <2>5 DEF Fails, Goes, Returns
    <3>2. ~(Ended /\ Fails)
      BY <2>3, <2>5 DEF Fails, Goes, Returns
    <3>3. QED  BY <1>4, <3>1, <3>2 DEF SendFails, Reads
  <2>7. CASE Head(todo) = "PASV"
    <3>1. port' = Head(chan).fresh
      BY <1>4, <2>6, <2>7 DEF SendFails, Reads, Takes, Ended
    <3>2. ~chan[1].fresh /\ chan # <<>> /\ Head(chan) = chan[1]
      BY <1>0, <2>2, <2>6, TailFacts DEF LateInv, Backlog, FrontOld, Takes
    <3>3. QED  BY <3>1, <3>2
  <2>8. CASE Head(todo) = "REST"
    <3>1. port' = port
      BY <1>4, <2>6, <2>8 DEF SendFails, Reads
    <3>2. QED  BY <1>0, <2>1, <2>2, <2>8, <3>1 DEF Ported
  <2>9. QED  BY <2>5, <2>7, <2>8
<1>5. CASE \/ SocketFails \/ Opens \/ OpenFails \/ Answered \/ NotOpened \/ Gets \/ Puts \/ PutBreaks
           \/ DataEnds \/ Shuts \/ Last
  <2>1. pc' \notin {"send", "read"}
    BY <1>5 DEF SocketFails, Opens, OpenFails, Answered, NotOpened, Gets, Puts, PutBreaks, DataEnds, Shuts,
                Last, Closed, Returns
  <2>2. QED  BY <2>1 DEF Ported
<1>6. CASE ServerStep \/ Drops
  <2>1. UNCHANGED client
    BY <1>6 DEF ServerStep, ServesLogin, Does, Refuses, ServesQuit, OpensTransfer, RefusesTransfer, Waited,
                Streams, Completes, Aborts, Finishes, Drops
  <2>2. QED  BY <1>0, <2>1 DEF Ported, Verb
<1>7. CASE UNCHANGED vars
  BY <1>0, <1>7 DEF vars, Ported, Verb
<1>8. QED
  BY <1>1, <1>2, <1>3, <1>4, <1>5, <1>6, <1>7 DEF Next, ClientStep

LEMMA LongEnough ==
  ASSUME NEW S, NEW s \in Seq(S), NEW x \in S
  PROVE  /\ Append(s, x) \in Seq(S) /\ Append(s, x) # <<>> /\ Len(s) \in Nat
         /\ Len(Append(s, x)) = Len(s) + 1 /\ Append(s, x)[Len(s) + 1] = x
         /\ \A i \in 1..Len(s) : Append(s, x)[i] = s[i]
         /\ s # <<>> => Append(s, x)[1] = s[1] /\ Len(s) >= 1
         /\ s = <<>> => Append(s, x)[1] = x /\ Len(s) = 0
<1>1. /\ Append(s, x) \in Seq(S) /\ Len(s) \in Nat
      /\ Len(Append(s, x)) = Len(s) + 1 /\ Append(s, x)[Len(s) + 1] = x
      /\ \A i \in 1..Len(s) : Append(s, x)[i] = s[i]
  BY AppendProperties
<1>2. Append(s, x) # <<>>
  BY <1>1, EmptySeq
<1>3. s # <<>> => Len(s) >= 1
  BY EmptySeq
<1>4. s = <<>> => Len(s) = 0
  BY EmptySeq
<1>5. QED  BY <1>1, <1>2, <1>3, <1>4

LEMMA AwaitedStep ==
  ASSUME TypeInv, StepInv, ScriptInv, LateInv, [Next]_vars
  PROVE  Awaited'
<1> USE DEF result, client, control, login, transfer, data
<1>0. Awaited /\ inbox \in Seq(Command) /\ chan \in Seq(Reply) /\ Len(inbox) \in Nat /\ Len(chan) \in Nat
  BY TypeFacts DEF LateInv
<1>1. CASE Connects
  BY <1>1 DEF Connects, Closes, Awaited
<1>2. CASE \E c \in Calls : Begins(c)
  BY <1>2 DEF Begins, Awaited
<1>3. CASE Sends
  <2>1. Len(inbox') >= 1 /\ Len(chan') \in Nat
    <3>1. todo # <<>> /\ todo \in Seq(Commands)
      BY <1>3 DEF Sends, TypeInv, TypeOK
    <3>2. [cmd |-> Head(todo), fresh |-> TRUE] \in Command
      BY <3>1, HeadTailProperties DEF Command
    <3>3. /\ \A x \in Command : [x EXCEPT !.fresh = FALSE] \in Command
          /\ \A x \in Reply : [x EXCEPT !.fresh = FALSE] \in Reply
      BY DEF Command, Reply
    <3>4. Old(inbox) \in Seq(Command) /\ Old(chan) \in Seq(Reply) /\ Len(Old(chan)) = Len(chan)
      BY <1>0, <3>3, OldSeq
    <3>5. QED  BY <1>0, <1>3, <3>2, <3>4, LongEnough DEF Sends
  <2>2. QED  BY <2>1 DEF Awaited
<1>4. CASE SendFails \/ Reads
  <2>1. (pc = "send" /\ Fails) \/ (pc = "read" /\ (Succeeds \/ Fails))
    BY <1>4 DEF SendFails, Reads
  <2>2. UNCHANGED <<call, offset>>
    BY <1>4 DEF SendFails, Reads
  <2>3. pc' # "connect"
    BY <2>1, <2>2, Ends
  <2>4. QED  BY <2>3 DEF Awaited
<1>5. CASE \/ SocketFails \/ Opens \/ OpenFails \/ Answered \/ NotOpened \/ Gets \/ Puts \/ PutBreaks
           \/ DataEnds \/ Shuts \/ Last
  <2>1. pc' # "connect"
    BY <1>5 DEF SocketFails, Opens, OpenFails, Answered, NotOpened, Gets, Puts, PutBreaks, DataEnds, Shuts,
                Last, Closed, Returns
  <2>2. QED  BY <2>1 DEF Awaited
<1>6. CASE ServesLogin \/ Does \/ Refuses \/ OpensTransfer \/ RefusesTransfer
  <2>1. /\ inbox # <<>> /\ Head(inbox).cmd \in Commands
        /\ Answers(1) \/ Answers(2) \/ Answers(3) \/ Answers(5)
    BY <1>6 DEF ServesLogin, Does, Refuses, OpensTransfer, RefusesTransfer, Serves, Commands, Orders
  <2>2. PICK class \in {1, 2, 3, 5} : Answers(class)
    BY <2>1
  <2>3. class \in 1..5 /\ inbox' = Tail(inbox) /\ chan' = Append(chan, ReplyTo(Head(inbox), class))
    BY <2>2 DEF Answers
  <2>4. ReplyTo(Head(inbox), class) \in Reply /\ Tail(inbox) \in Seq(Command)
    BY <2>1, <2>3, AnswersTypes
  <2>5. Len(chan') >= 1 /\ Len(inbox') \in Nat
    BY <1>0, <2>3, <2>4, LongEnough
  <2>6. QED  BY <2>5 DEF Awaited
<1>7. CASE ServesQuit \/ Drops
  BY <1>7 DEF ServesQuit, Drops, Awaited
<1>8. CASE Waited
  BY <1>8 DEF Waited, Awaited
<1>9. CASE Streams
  BY <1>0, <1>9 DEF Streams, Awaited
<1>10. CASE Completes \/ Aborts
  <2>1. PICK class \in 1..5 : chan' = Append(chan, ReplyTo(serving, class)) /\ inbox' = inbox
    BY <1>10 DEF Completes, Aborts, Finishes
  <2>2. ReplyTo(serving, class) \in Reply
    BY DEF TypeInv, TypeOK, ReplyTo, Reply, Command
  <2>3. Len(chan') >= 1 /\ Len(inbox') \in Nat
    BY <1>0, <2>1, <2>2, LongEnough
  <2>4. QED  BY <2>3 DEF Awaited
<1>11. CASE UNCHANGED vars
  BY <1>0, <1>11 DEF vars, Awaited
<1>12. QED
  BY <1>1, <1>2, <1>3, <1>4, <1>5, <1>6, <1>7, <1>8, <1>9, <1>10, <1>11 DEF Next, ClientStep, ServerStep

(* The next reply is taken; a reply, or the two to a transfer nobody connects *)
(* for, is added.                                                             *)
LEMMA BacklogTakes ==
  ASSUME TypeInv, Pairs, Takes, serving' = serving
  PROVE  /\ Pairs' /\ Unread' = Unread - 1 /\ Unread' \in Nat
         /\ First(1) => First(4)'
<1>1. /\ chan \in Seq(Reply) /\ chan # <<>> /\ chan' = Tail(chan) /\ inbox' = inbox /\ Pairs
      /\ Len(inbox) \in Nat /\ Owed' = Owed /\ Owed \in Nat
  BY TypeFacts DEF Takes, Owed
<1>2. /\ Len(chan) \in Nat \ {0} /\ Len(chan') = Len(chan) - 1 /\ chan' \in Seq(Reply)
      /\ \A i \in 1..Len(chan') : chan'[i] = chan[i + 1] /\ i + 1 \in 1..Len(chan)
  BY <1>1, TailFacts
<1>3. Pairs'
  <2>1. SUFFICES ASSUME NEW i \in 1..Len(chan'), chan'[i].class = 1
                 PROVE  i + 1 \in 1..Len(chan') /\ chan'[i + 1].class = 4
    BY DEF Pairs
  <2>2. (i + 1) + 1 \in 1..Len(chan) /\ chan[(i + 1) + 1].class = 4
    BY <1>1, <1>2, <2>1 DEF Pairs
  <2>3. i + 1 \in 1..Len(chan')
    BY <1>2, <2>2
  <2>4. chan'[i + 1] = chan[(i + 1) + 1]
    BY <1>2, <2>3
  <2>5. QED  BY <2>2, <2>3, <2>4
<1>4. First(1) => First(4)'
  <2>1. SUFFICES ASSUME First(1)  PROVE First(4)'
    OBVIOUS
  <2>2. 1 \in 1..Len(chan) /\ chan[1].class = 1
    BY <1>2, <2>1 DEF First
  <2>3. 1 + 1 \in 1..Len(chan) /\ chan[1 + 1].class = 4
    BY <1>1, <2>2 DEF Pairs
  <2>4. 1 \in 1..Len(chan')
    BY <1>2, <2>3
  <2>5. chan'[1] = chan[1 + 1] /\ chan' # <<>>
    BY <1>2, <2>4, EmptySeq
  <2>6. QED  BY <2>3, <2>5 DEF First
<1>5. Unread' = Unread - 1 /\ Unread' \in Nat
  BY <1>1, <1>2 DEF Unread
<1>6. QED  BY <1>3, <1>4, <1>5

LEMMA BacklogAdds ==
  ASSUME TypeInv, Pairs, NEW r \in Reply, r.class # 1, chan' = Append(chan, r)
  PROVE  /\ Pairs' /\ chan' # <<>> /\ chan' \in Seq(Reply) /\ Len(chan') = Len(chan) + 1
         /\ chan # <<>> => chan'[1] = chan[1]
         /\ chan = <<>> => chan'[1] = r
<1>1. /\ chan \in Seq(Reply) /\ Len(chan) \in Nat /\ chan' \in Seq(Reply)
      /\ Len(chan') = Len(chan) + 1 /\ chan'[Len(chan) + 1] = r /\ chan' # <<>>
      /\ \A i \in 1..Len(chan) : chan'[i] = chan[i]
      /\ chan # <<>> => chan'[1] = chan[1]
      /\ chan = <<>> => chan'[1] = r
  BY TypeFacts, LongEnough
<1>2. Pairs'
  <2>1. SUFFICES ASSUME NEW i \in 1..Len(chan'), chan'[i].class = 1
                 PROVE  i + 1 \in 1..Len(chan') /\ chan'[i + 1].class = 4
    BY DEF Pairs
  <2>2. i \in 1..Len(chan)
    BY <1>1, <2>1
  <2>3. i + 1 \in 1..Len(chan) /\ chan[i + 1].class = 4
    BY <1>1, <2>1, <2>2 DEF Pairs
  <2>4. QED  BY <1>1, <2>3
<1>3. QED  BY <1>1, <1>2

LEMMA BacklogTwo ==
  ASSUME TypeInv, Pairs, NEW r \in Reply, NEW s \in Reply, s.class = 4, chan' = Append(Append(chan, r), s)
  PROVE  /\ Pairs' /\ chan' # <<>> /\ chan' \in Seq(Reply) /\ Len(chan') = Len(chan) + 2
         /\ chan # <<>> => chan'[1] = chan[1]
         /\ chan = <<>> => chan'[1] = r
<1> DEFINE m == Append(chan, r)
<1>1. /\ chan \in Seq(Reply) /\ Len(chan) \in Nat /\ m \in Seq(Reply)
      /\ Len(m) = Len(chan) + 1 /\ m[Len(chan) + 1] = r /\ m # <<>>
      /\ \A i \in 1..Len(chan) : m[i] = chan[i]
      /\ chan # <<>> => m[1] = chan[1]
      /\ chan = <<>> => m[1] = r
  BY TypeFacts, LongEnough
<1> HIDE DEF m
<1>2. /\ chan' = Append(m, s)
      /\ chan' \in Seq(Reply) /\ Len(chan') = Len(m) + 1 /\ chan'[Len(m) + 1] = s /\ chan' # <<>>
      /\ \A i \in 1..Len(m) : chan'[i] = m[i]
      /\ chan'[1] = m[1]
  <2>1. chan' = Append(m, s)
    BY DEF m
  <2>2. QED  BY <1>1, <2>1, LongEnough
<1>3. Pairs'
  <2>1. SUFFICES ASSUME NEW i \in 1..Len(chan'), chan'[i].class = 1
                 PROVE  i + 1 \in 1..Len(chan') /\ chan'[i + 1].class = 4
    BY DEF Pairs
  <2>2. i \in 1..Len(chan) \/ i = Len(chan) + 1
    BY <1>1, <1>2, <2>1
  <2>3. CASE i = Len(chan) + 1
    BY <1>1, <1>2, <2>3
  <2>4. CASE i \in 1..Len(chan)
    <3>1. chan'[i] = chan[i]
      BY <1>1, <1>2, <2>4
    <3>2. i + 1 \in 1..Len(chan) /\ chan[i + 1].class = 4
      BY <2>1, <2>4, <3>1 DEF Pairs
    <3>3. chan'[i + 1] = chan[i + 1]
      BY <1>1, <1>2, <3>2
    <3>4. QED  BY <1>1, <1>2, <3>2, <3>3
  <2>5. QED  BY <2>2, <2>3, <2>4
<1>4. QED  BY <1>1, <1>2, <1>3

LEMMA BacklogServed ==
  ASSUME TypeInv, Backlog, inbox # <<>>, inbox' = Tail(inbox) \/ (inbox' = <<>> /\ up' = FALSE),
         up' => up, pc' = pc, NEW r \in Reply, r.fresh = Head(inbox).fresh,
         serving = NoCommand, serving' = NoCommand,
         \/ chan' = Append(chan, r) /\ r.class # 1
         \/ \E s \in Reply : chan' = Append(Append(chan, r), s) /\ s.class = 4
  PROVE  Backlog'
<1>1. /\ Pairs /\ chan \in Seq(Reply) /\ inbox \in Seq(Command) /\ Len(chan) \in Nat /\ Len(inbox) \in Nat
  BY TypeFacts DEF Backlog
<1>2. /\ Pairs' /\ chan' # <<>> /\ chan' \in Seq(Reply)
      /\ chan # <<>> => chan'[1] = chan[1]
      /\ chan = <<>> => chan'[1] = r
      /\ \/ Len(chan') = Len(chan) + 1 /\ r.class # 1
         \/ Len(chan') = Len(chan) + 2
  BY <1>1, BacklogAdds, BacklogTwo
<1>3. Head(inbox) = inbox[1] /\ Len(inbox') \in Nat /\ (up' => Len(inbox') = Len(inbox) - 1)
  <2>1. Head(inbox) = inbox[1] /\ Len(Tail(inbox)) \in Nat /\ Len(Tail(inbox)) = Len(inbox) - 1
    BY <1>1, TailFacts
  <2>2. QED  BY <2>1
<1>4. /\ up' => Unread' >= Unread
      /\ up' /\ First(1)' /\ ~First(1) => Unread' >= Unread + 1
      /\ Unread' \in Nat /\ Unread \in Nat
  BY <1>1, <1>2, <1>3 DEF Unread, Owed, First
<1>5. \A k \in {4} : First(k) => First(k)'
  BY <1>2 DEF First
<1>6. FrontOld => FrontOld'
  BY <1>2, <1>3 DEF FrontOld
<1>7. pc \in {"idle", "send"} => (up' => Unread' >= 1)
  BY <1>4 DEF Backlog
<1>8. pc \in {"read", "connect", "answer"} =>
        FrontOld' /\ (up' => Unread' >= 2 /\ (First(1)' => Unread' >= 3))
  BY <1>4, <1>6 DEF Backlog
<1>9. pc \in {"data", "shut", "last"} => First(4)' /\ (up' => Unread' >= 2)
  BY <1>4, <1>5 DEF Backlog
<1>10. QED  BY <1>2, <1>7, <1>8, <1>9 DEF Backlog

LEMMA BacklogSends ==
  ASSUME TypeInv, Backlog, Sends
  PROVE  Backlog'
<1>1. /\ Pairs /\ chan \in Seq(Reply) /\ inbox \in Seq(Command) /\ Len(chan) \in Nat /\ Len(inbox) \in Nat
  BY TypeFacts DEF Backlog
<1>2. /\ pc = "send" /\ up /\ up' = up /\ chan' = Old(chan) /\ pc' \in {"connect", "read"}
      /\ inbox' = Append(Old(inbox), [cmd |-> Head(todo), fresh |-> TRUE])
      /\ serving' = [serving EXCEPT !.fresh = FALSE] /\ serving \in Command
  BY TypeFacts DEF Sends, control
<1>3. /\ \A x \in Command : [x EXCEPT !.fresh = FALSE] \in Command /\ [x EXCEPT !.fresh = FALSE].fresh = FALSE
      /\ \A x \in Reply : /\ [x EXCEPT !.fresh = FALSE] \in Reply /\ [x EXCEPT !.fresh = FALSE].fresh = FALSE
                          /\ [x EXCEPT !.fresh = FALSE].class = x.class
  BY DEF Command, Reply
<1>4. /\ Old(inbox) \in Seq(Command) /\ Len(Old(inbox)) = Len(inbox)
      /\ \A i \in 1..Len(inbox) : Old(inbox)[i] = [inbox[i] EXCEPT !.fresh = FALSE] /\ inbox[i] \in Command
  <2>1. \A x \in Command : [x EXCEPT !.fresh = FALSE] \in Command
    BY <1>3
  <2>2. /\ Old(inbox) \in Seq(Command) /\ Len(Old(inbox)) = Len(inbox)
        /\ \A i \in 1..Len(inbox) : Old(inbox)[i] = [inbox[i] EXCEPT !.fresh = FALSE]
    BY <1>1, <2>1, OldSeq
  <2>3. \A i \in 1..Len(inbox) : inbox[i] \in Command
    BY <1>1
  <2>4. QED  BY <2>2, <2>3
<1>5. /\ Len(chan') = Len(chan) /\ chan' \in Seq(Reply)
      /\ \A i \in 1..Len(chan) : ~chan'[i].fresh /\ chan'[i].class = chan[i].class
  <2>1. /\ Old(chan) \in Seq(Reply) /\ Len(Old(chan)) = Len(chan)
        /\ \A i \in 1..Len(chan) : Old(chan)[i] = [chan[i] EXCEPT !.fresh = FALSE]
    BY <1>1, <1>3, OldSeq
  <2>2. \A i \in 1..Len(chan) : chan[i] \in Reply
    BY <1>1
  <2>3. QED  BY <1>2, <1>3, <2>1, <2>2
<1>6. /\ Len(inbox') = Len(inbox) + 1 /\ inbox' # <<>>
      /\ inbox # <<>> => inbox'[1] = Old(inbox)[1] /\ 1 \in 1..Len(inbox)
  <2>1. [cmd |-> Head(todo), fresh |-> TRUE] \in Command
    <3>1. todo # <<>> /\ todo \in Seq(Commands)
      BY <1>2 DEF TypeInv, TypeOK
    <3>2. QED  BY <3>1, HeadTailProperties DEF Command
  <2>2. inbox # <<>> => Len(inbox) >= 1
    BY <1>1, EmptySeq
  <2>3. QED  BY <1>1, <1>2, <1>4, <2>1, <2>2, LongEnough
<1>o. /\ serving = NoCommand => serving' = NoCommand
      /\ serving # NoCommand => serving' # NoCommand
      /\ ~serving'.fresh
  <2>1. ASSUME serving = NoCommand  PROVE serving' = NoCommand
    BY <1>2, <2>1 DEF NoCommand
  <2>2. ASSUME serving # NoCommand  PROVE serving' # NoCommand
    <3>1. serving.cmd # "none"
      BY <2>2 DEF TypeInv, Serving, Opened
    <3>2. serving'.cmd = serving.cmd
      BY <1>2 DEF Command
    <3>3. QED  BY <3>1, <3>2 DEF NoCommand
  <2>3. ~serving'.fresh
    BY <1>2 DEF Command
  <2>4. QED  BY <2>1, <2>2, <2>3
<1>w. Owed' = Owed /\ Owed \in Nat
  BY <1>o DEF Owed
<1>7. Unread >= 1 /\ Unread' = Unread + 1 /\ Unread \in Nat
  BY <1>1, <1>2, <1>5, <1>6, <1>w DEF Backlog, Unread
<1>8. Pairs'
  BY <1>1, <1>5 DEF Pairs
<1>9. chan' # <<>> => Len(chan) >= 1 /\ chan # <<>>
  BY <1>1, <1>5, EmptySeq
<1>10. FrontOld'
  <2>1. chan' # <<>> => ~chan'[1].fresh
    BY <1>1, <1>5, <1>9
  <2>2. chan' = <<>> /\ serving' = NoCommand => ~inbox'[1].fresh
    <3>1. SUFFICES ASSUME chan' = <<>>, serving' = NoCommand  PROVE ~inbox'[1].fresh
      OBVIOUS
    <3>2. Len(chan) = 0 /\ Owed = 0
      BY <1>1, <1>5, <1>o, <3>1, EmptySeq DEF Owed
    <3>3. inbox # <<>>
      BY <1>1, <1>7, <3>2, EmptySeq DEF Unread
    <3>4. inbox'[1] = [inbox[1] EXCEPT !.fresh = FALSE] /\ inbox[1] \in Command
      BY <1>4, <1>6, <3>3
    <3>5. QED  BY <1>3, <3>4
  <2>3. QED  BY <1>o, <2>1, <2>2 DEF FrontOld
<1>11. First(1)' => Unread' >= 3
  <2>1. SUFFICES ASSUME First(1)'  PROVE Unread' >= 3
    OBVIOUS
  <2>2. 1 \in 1..Len(chan) /\ chan[1].class = 1
    BY <1>1, <1>5, <1>9, <2>1 DEF First
  <2>3. 1 + 1 \in 1..Len(chan)
    BY <1>1, <2>2 DEF Pairs
  <2>4. QED  BY <1>1, <1>7, <1>w, <2>3 DEF Unread
<1>12. QED  BY <1>2, <1>7, <1>8, <1>10, <1>11 DEF Backlog

LEMMA BacklogKept ==
  ASSUME Backlog, UNCHANGED <<up, inbox, chan, serving>>,
         \/ pc' = pc
         \/ pc' \in {"closed", "wild"}
         \/ pc \in {"idle", "send"} /\ pc' \in {"idle", "send"}
         \/ pc \in {"read", "connect", "answer"} /\ pc' \in {"read", "connect", "answer", "idle", "send"}
         \/ pc \in {"data", "shut"} /\ pc' \in {"data", "shut", "last"},
         up => Unread \in Nat
  PROVE  Backlog'
<1>1. /\ Pairs' <=> Pairs
      /\ FrontOld' <=> FrontOld
      /\ First(1)' <=> First(1)
      /\ First(4)' <=> First(4)
      /\ Unread' = Unread
  BY DEF Pairs, FrontOld, First, Unread, Owed
<1>2. QED  BY <1>1 DEF Backlog

(* The last reply to a transfer nobody takes comes at last. *)
LEMMA BacklogEnds ==
  ASSUME TypeInv, Backlog, serving # NoCommand, serving' = NoCommand, UNCHANGED <<pc, up, inbox>>,
         NEW class \in {2, 4}, chan' = Append(chan, ReplyTo(serving, class))
  PROVE  Backlog'
<1> DEFINE r == ReplyTo(serving, class)
<1>1. r \in Reply /\ r.class # 1 /\ r.fresh = serving.fresh
  BY TypeFacts DEF ReplyTo, Reply, Command
<1> HIDE DEF r
<1>2. Pairs /\ Len(chan) \in Nat /\ Len(inbox) \in Nat /\ chan' = Append(chan, r)
  BY TypeFacts DEF Backlog, r
<1>3. /\ Pairs' /\ chan' # <<>> /\ Len(chan') = Len(chan) + 1
      /\ chan # <<>> => chan'[1] = chan[1]
      /\ chan = <<>> => chan'[1] = r
  BY <1>1, <1>2, BacklogAdds
<1>4. Unread' = Unread
  <2>1. Owed = 1 /\ Owed' = 0
    BY DEF Owed
  <2>2. QED  BY <1>2, <1>3, <2>1 DEF Unread
<1>5. FrontOld => FrontOld'
  BY <1>1, <1>3 DEF FrontOld
<1>6. First(1)' => First(1)
  BY <1>1, <1>3 DEF First
<1>7. First(4) => First(4)'
  BY <1>3 DEF First
<1>8. QED  BY <1>3, <1>4, <1>5, <1>6, <1>7 DEF Backlog

LEMMA BacklogStep ==
  ASSUME TypeInv, StepInv, ScriptInv, LateInv, [Next]_vars, behind'
  PROVE  Backlog'
<1> USE DEF result, client, control, login, transfer, data
<1>0. /\ Linked /\ (behind => Backlog) /\ inbox \in Seq(Command) /\ chan \in Seq(Reply)
      /\ Len(inbox) \in Nat /\ Len(chan) \in Nat /\ behind \in BOOLEAN /\ Unread \in Nat
  BY TypeFacts DEF LateInv, Unread, Owed
<1>1. CASE Connects
  BY <1>1 DEF Connects
<1>2. CASE \E c \in Calls : Begins(c)
  BY <1>0, <1>2, BacklogKept DEF Begins
<1>3. CASE Sends
  BY <1>0, <1>3, BacklogSends DEF Sends
<1>e. ASSUME pc \in {"read", "answer", "last"}, pc' \in {"closed", "idle", "send", "wild", "data"},
             behind, Takes \/ Ended, serving' = serving, pc' = "data" => pc = "answer" /\ Takes /\ Head(chan).class = 1
      PROVE  Backlog'
  <2>1. CASE Takes
    <3>1. Pairs' /\ Unread' = Unread - 1 /\ Unread' \in Nat /\ (First(1) => First(4)')
      BY <1>0, <1>e, <2>1, BacklogTakes DEF Backlog
    <3>2. up' = up /\ chan # <<>> /\ Head(chan) = chan[1]
      BY <1>0, <2>1, TailFacts DEF Takes
    <3>3. CASE pc' = "data"
      <4>1. First(1) /\ pc = "answer"
        BY <1>e, <3>2, <3>3 DEF First
      <4>2. up => Unread >= 3
        BY <1>0, <1>e, <4>1 DEF Backlog
      <4>3. QED  BY <1>0, <3>1, <3>2, <3>3, <4>1, <4>2 DEF Backlog
    <3>4. CASE pc' # "data"
      <4>1. up => Unread >= 2
        BY <1>0, <1>e DEF Backlog
      <4>2. QED  BY <1>0, <1>e, <3>1, <3>2, <3>4, <4>1 DEF Backlog
    <3>5. QED  BY <3>3, <3>4
  <2>2. CASE Ended
    <3>1. chan = <<>> /\ UNCHANGED <<up, inbox, chan>> /\ ~up /\ chan' = <<>> /\ Pairs /\ pc' # "data"
      BY <1>0, <1>e, <2>2 DEF Ended, Backlog, Takes
    <3>2. Pairs'
      BY <3>1 DEF Pairs
    <3>3. QED  BY <1>e, <3>1, <3>2 DEF Backlog
  <2>3. QED  BY <1>e, <2>1, <2>2
<1>4. CASE SendFails
  <2>1. pc = "send" /\ UNCHANGED <<behind, up, inbox, chan, serving, call, offset>> /\ Fails
    BY <1>4 DEF SendFails
  <2>2. pc' \in {"closed", "idle", "send", "wild"}
    BY <2>1, Ends
  <2>3. QED  BY <1>0, <2>1, <2>2, BacklogKept
<1>5. CASE Reads
  <2>1. pc = "read" /\ UNCHANGED <<behind, call, offset, serving>> /\ (Succeeds \/ Fails) /\ (Takes \/ Ended)
    BY <1>5 DEF Reads
  <2>2. pc' \in {"closed", "idle", "send", "wild"}
    BY <2>1, Ends
  <2>3. QED  BY <1>e, <2>1, <2>2
<1>6. CASE Opens
  BY <1>0, <1>6, BacklogKept DEF Opens
<1>7. CASE OpenFails
  <2>1. pc = "connect" /\ pc' = "idle" /\ UNCHANGED <<up, inbox, chan, serving>>
    BY <1>7 DEF OpenFails, Returns
  <2>2. CASE behind
    BY <1>0, <2>1, <2>2, BacklogKept
  <2>3. CASE ~behind
    <3>1. Asked(Opened) \/ Refused
      BY <2>1, <2>3 DEF StepInv, Shape
    <3>2. Wire
      BY DEF StepInv
    <3>3. \A i \in 1..Len(chan) : chan[i].class # 1
      <4>1. CASE Asked(Opened)
        BY <4>1 DEF Asked
      <4>2. CASE Refused
        <5>1. \A i \in 1..Len(chan) : i >= 2 => chan[i].class = 4
          BY <3>2, <4>2 DEF Refused, Replied, NoneFrom, Wire
        <5>2. \A i \in 1..Len(chan) : i = 1 => chan[i].class # 1
          BY <1>0, <4>2, EmptySeq DEF Refused
        <5>3. \A i \in 1..Len(chan) : i = 1 \/ i >= 2
          OBVIOUS
        <5>4. QED  BY <5>1, <5>2, <5>3
      <4>3. QED  BY <3>1, <4>1, <4>2
    <3>4. Pairs'
      BY <2>1, <3>3 DEF Pairs
    <3>5. up' => Unread' >= 1
      <4>1. up => Len(chan) + Len(inbox) >= 1
        BY <2>1, <2>3 DEF LateInv, Awaited
      <4>2. Owed' \in Nat /\ UNCHANGED <<up, inbox, chan>>
        BY <2>1 DEF Owed
      <4>3. QED  BY <1>0, <4>1, <4>2 DEF Unread
    <3>6. QED  BY <2>1, <3>4, <3>5 DEF Backlog
  <2>4. QED  BY <1>0, <2>2, <2>3
<1>8. CASE Answered
  <2>1. /\ pc = "answer" /\ UNCHANGED <<behind, serving>> /\ pc' \in {"data", "idle"} /\ (Takes \/ Ended)
        /\ pc' = "data" => Takes /\ Head(chan).class = 1
    BY <1>8 DEF Answered, Returns
  <2>2. QED  BY <1>e, <2>1
<1>t. CASE NotOpened
  <2>1. pc = "answer" /\ pc' = "idle" /\ Takes /\ Head(chan).class = 1 /\ serving' = serving
    BY <1>t DEF NotOpened, Returns
  <2>2. chan # <<>> /\ Head(chan) = chan[1] /\ up' = up /\ inbox' = inbox
    BY <1>0, <2>1, TailFacts DEF Takes
  <2>3. CASE behind
    BY <1>e, <2>1, <2>3
  <2>4. CASE ~behind
    <3>1. Started
      BY <2>1, <2>2, <2>4 DEF StepInv, Shape, Asked, Refused
    <3>2. Wire
      BY DEF StepInv
    <3>3. /\ Len(chan) \in Nat \ {0} /\ Len(chan') = Len(chan) - 1
          /\ \A i \in 1..Len(chan') : chan'[i] = chan[i + 1] /\ i + 1 \in 1..Len(chan)
      <4>1. chan' = Tail(chan)
        BY <2>1 DEF Takes
      <4>2. QED  BY <1>0, <2>2, <4>1, TailFacts
    <3>4. \A i \in 1..Len(chan) : i >= 2 => chan[i].class # 1
      <4>1. CASE serving # NoCommand
        BY <3>1, <3>3, <4>1 DEF Started
      <4>2. CASE serving = NoCommand
        <5>1. NoneFrom(chan, 3) /\ (Len(chan) >= 2 => chan[2].class # 1)
          BY <3>1, <4>2 DEF Started
        <5>2. \A i \in 1..Len(chan) : i >= 3 => chan[i].class = 4
          BY <3>2, <5>1 DEF NoneFrom, Wire
        <5>3. \A i \in 1..Len(chan) : i >= 2 => (i = 2 /\ Len(chan) >= 2) \/ i >= 3
          BY <3>3
        <5>4. QED  BY <5>1, <5>2, <5>3
      <4>3. QED  BY <4>1, <4>2
    <3>5. Pairs'
      <4>1. \A i \in 1..Len(chan') : chan'[i].class # 1
        <5>1. \A i \in 1..Len(chan') : i + 1 >= 2
          BY <3>3
        <5>2. QED  BY <3>3, <3>4, <5>1
      <4>2. QED  BY <4>1 DEF Pairs
    <3>6. up' => Unread' >= 1
      <4>1. CASE serving # NoCommand
        <5>1. Owed' = 1 /\ Len(chan') \in Nat
          BY <2>1, <3>3, <4>1 DEF Owed
        <5>2. QED  BY <1>0, <2>2, <5>1 DEF Unread
      <4>2. CASE serving = NoCommand
        <5>1. up => Len(chan) >= 2
          BY <3>1, <4>2 DEF Started
        <5>2. Owed' = 0
          BY <2>1, <4>2 DEF Owed
        <5>3. QED  BY <1>0, <2>2, <3>3, <5>1, <5>2 DEF Unread
      <4>3. QED  BY <4>1, <4>2
    <3>7. QED  BY <2>1, <3>5, <3>6 DEF Backlog
  <2>5. QED  BY <1>0, <2>3, <2>4
<1>u. CASE SocketFails
  <2>1. pc = "send" /\ pc' = "idle" /\ UNCHANGED <<behind, up, inbox, chan, serving>>
    BY <1>u DEF SocketFails, Returns
  <2>2. QED  BY <1>0, <2>1, BacklogKept
<1>9. CASE Gets \/ Puts \/ PutBreaks \/ DataEnds \/ Shuts
  <2>1. /\ pc \in {"data", "shut"} /\ pc' \in {"data", "shut", "last"}
        /\ UNCHANGED <<behind, up, inbox, chan, serving>>
    BY <1>9 DEF Gets, Puts, PutBreaks, DataEnds, Shuts
  <2>2. QED  BY <1>0, <2>1, BacklogKept
<1>10. CASE Last
  <2>1. pc = "last" /\ UNCHANGED <<behind, serving>> /\ pc' = "idle" /\ (Takes \/ Ended)
    BY <1>10 DEF Last, Closed, Returns
  <2>2. QED  BY <1>e, <2>1
<1>11. CASE ServesLogin \/ Does \/ Refuses \/ RefusesTransfer \/ ServesQuit
  <2>1. /\ inbox # <<>> /\ Head(inbox).cmd \in Commands /\ UNCHANGED <<pc, behind>>
        /\ serving = NoCommand /\ serving' = NoCommand
        /\ inbox' = Tail(inbox) \/ (inbox' = <<>> /\ up' = FALSE)
        /\ up' => up
        /\ \E class \in {2, 3, 5} : chan' = Append(chan, ReplyTo(Head(inbox), class))
    BY <1>11 DEF ServesLogin, Does, Refuses, RefusesTransfer, ServesQuit, Serves, Answers, Commands, Orders
  <2>2. PICK class \in {2, 3, 5} : chan' = Append(chan, ReplyTo(Head(inbox), class))
    BY <2>1
  <2>3. class \in 1..5 /\ class # 1
    OBVIOUS
  <2>4. /\ ReplyTo(Head(inbox), class) \in Reply /\ ReplyTo(Head(inbox), class).class = class
        /\ ReplyTo(Head(inbox), class).fresh = Head(inbox).fresh
    BY <2>1, <2>3, AnswersTypes DEF ReplyTo
  <2>5. QED  BY <1>0, <2>1, <2>2, <2>3, <2>4, BacklogServed
<1>12. CASE OpensTransfer
  BY <1>0, <1>12 DEF OpensTransfer, Linked
<1>13. CASE Waited
  <2>1. /\ inbox # <<>> /\ Head(inbox).cmd \in Commands /\ UNCHANGED <<pc, behind, up>>
        /\ inbox' = Tail(inbox) /\ serving = NoCommand /\ serving' = NoCommand
    BY <1>13 DEF Waited, Serves, Commands
  <2> DEFINE r1 == ReplyTo(Head(inbox), 1)
             r4 == ReplyTo(Head(inbox), 4)
  <2>2. r1 \in Reply /\ r4 \in Reply
    BY <2>1, AnswersTypes
  <2>3. r1.fresh = Head(inbox).fresh /\ r4.fresh = Head(inbox).fresh /\ r4.class = 4
    BY DEF ReplyTo
  <2>4. chan' = chan \o <<>> \o <<r4>> \/ chan' = chan \o <<r1>> \o <<r4>>
    BY <1>13 DEF Waited
  <2> HIDE DEF r1, r4
  <2>5. chan' = Append(chan, r4) \/ chan' = Append(Append(chan, r1), r4)
    <3>1. Append(chan, r1) \in Seq(Reply)
      BY <1>0, <2>2, LongEnough
    <3>2. QED  BY <1>0, <2>2, <2>4, <3>1, AppendIsConcat, ConcatEmptySeq
  <2>6. CASE chan' = Append(chan, r4)
    BY <1>0, <2>1, <2>2, <2>3, <2>6, BacklogServed
  <2>7. CASE chan' = Append(Append(chan, r1), r4)
    BY <1>0, <2>1, <2>2, <2>3, <2>7, BacklogServed
  <2>8. QED  BY <2>5, <2>6, <2>7
<1>14. CASE Streams
  <2>1. UNCHANGED <<client, chan, inbox, up, serving>>
    BY <1>14 DEF Streams
  <2>2. QED  BY <1>0, <2>1, BacklogKept
<1>v. CASE Completes \/ Aborts
  <2>1. serving # NoCommand /\ serving' = NoCommand /\ UNCHANGED <<pc, up, inbox, behind>>
    <3>1. NoCommand.cmd = "none"
      BY DEF NoCommand
    <3>2. serving.cmd \in {"RETR", "LIST", "STOR"} \/ serving # NoCommand
      BY <1>v, Zenon DEF Completes, Aborts
    <3>3. serving' = NoCommand /\ UNCHANGED <<pc, up, inbox, behind>>
      BY <1>v, Zenon DEF Completes, Aborts, Finishes
    <3>4. QED  BY <3>1, <3>2, <3>3
  <2>2. PICK class \in {2, 4} : chan' = Append(chan, ReplyTo(serving, class))
    BY <1>v, Zenon DEF Completes, Aborts, Finishes
  <2>3. QED  BY <1>0, <2>1, <2>2, BacklogEnds
<1>15. CASE Drops
  BY <1>15 DEF Drops
<1>16. CASE UNCHANGED vars
  BY <1>0, <1>16, BacklogKept DEF vars
<1>17. QED
  BY <1>1, <1>2, <1>3, <1>4, <1>5, <1>6, <1>7, <1>8, <1>t, <1>u, <1>9, <1>10, <1>11, <1>12, <1>13, <1>14,
     <1>v, <1>15, <1>16
     DEF Next, ClientStep, ServerStep

LEMMA LateStep ==
  ASSUME TypeInv, StepInv, ScriptInv, LateInv, [Next]_vars
  PROVE  LateInv'
BY LinkedStep, PortedStep, AwaitedStep, BacklogStep DEF LateInv

LEMMA LateInit == Init => LateInv
BY DEF Init, LateInv, Linked, Dead, Ported, Awaited

-----------------------------------------------------------------------------
(***************************************************************************)
(* Settings.  While the client and its server are in step, the TYPE and    *)
(* the position the client has set are those the transfer is made with.  A *)
(* position is left over for a later call only by one that had it accepted *)
(* and then no socket.                                                     *)
(***************************************************************************)
Sent == ~behind /\ pc \in {"read", "connect", "answer"} /\ inbox # <<>> => inbox[1].cmd = Head(todo)

TypeSet ==
  ~behind /\ up /\ pc \in Underway /\ call.name \in Transfers =>
    /\ Head(todo) \in {"PASV", "REST", Verb} => mode = Letter
    /\ pc = "read" /\ Head(todo) = Type /\ First(2) => mode = Letter

(* The position is set, and the transfer that takes it has not begun. *)
Pending ==
  \/ pc = "send" /\ Head(todo) \in Opened
  \/ pc \in {"connect", "answer"} /\ inbox # <<>>
  \/ pc = "read" /\ Head(todo) = "REST" /\ First(3)
Marked ==
  ~behind /\ up /\ pc \in Underway =>
    /\ Pending /\ offset # 0 => marker = offset
    /\ ~(Pending /\ offset # 0) => marker = 0 \/ stale

Misled == stale /\ offset = 0 /\ call.name # "ListDir"
Begun ==
  ~behind /\ dconn = "open" /\ ((pc = "answer" /\ First(1)) \/ pc = "data") => from = offset \/ Misled

SettingInv == Sent /\ TypeSet /\ Marked /\ Begun

Scene == TypeInv /\ StepInv /\ ScriptInv /\ LateInv

(* A command is sent to a server that has answered all others. *)
LEMMA SendsShape ==
  ASSUME Scene, ~behind, Sends
  PROVE  /\ chan' = <<>> /\ inbox' # <<>> /\ inbox'[1].cmd = Head(todo) /\ serving' = NoCommand
         /\ pc = "send" /\ pc' = IF Head(todo) \in Opened THEN "connect" ELSE "read"
<1>1. /\ pc = "send" /\ up /\ chan' = Old(chan) /\ serving' = [serving EXCEPT !.fresh = FALSE]
      /\ inbox' = Append(Old(inbox), [cmd |-> Head(todo), fresh |-> TRUE])
      /\ pc' = IF Head(todo) \in Opened THEN "connect" ELSE "read"
  BY DEF Sends, Opened
<1>2. Quiet /\ Wire /\ chan \in Seq(Reply) /\ Len(chan) \in Nat
  BY <1>1, TypeFacts DEF Scene, StepInv, Shape
<1>3. chan = <<>>
  <2>1. \A i \in 1..Len(chan) : i >= 1 /\ chan[i].of = "none" /\ chan[i].of # "none"
    BY <1>1, <1>2 DEF Quiet, NoneFrom, Wire
  <2>2. Len(chan) = 0
    BY <1>2, <2>1
  <2>3. QED  BY <1>2, <2>2
<1>4. chan' = <<>> /\ Old(inbox) = <<>>
  BY <1>1, <1>2, <1>3, OldEmpty DEF Quiet
<1>5. serving' = NoCommand
  BY <1>1, <1>2 DEF Quiet, NoCommand
<1>6. [cmd |-> Head(todo), fresh |-> TRUE] \in Command
  <2>1. todo # <<>> /\ todo \in Seq(Commands)
    BY <1>1 DEF Scene, TypeInv, TypeOK
  <2>2. QED  BY <2>1, HeadTailProperties DEF Command
<1>7. inbox' # <<>> /\ inbox'[1] = [cmd |-> Head(todo), fresh |-> TRUE]
  <2>1. <<>> \in Seq(Command)
    BY EmptySeq
  <2>2. QED  BY <1>1, <1>4, <1>6, <2>1, LongEnough
<1>8. QED  BY <1>1, <1>4, <1>5, <1>7

(* The server answers the command the client waits on. *)
LEMMA ServedNow ==
  ASSUME Scene, Sent, ~behind, pc \notin {"closed", "wild"}, NEW class \in 1..5,
         inbox # <<>>, Head(inbox).cmd \in Commands, inbox' = <<>> \/ inbox' = Tail(inbox),
         chan' = Append(chan, ReplyTo(Head(inbox), class))
  PROVE  /\ inbox' = <<>> /\ Len(chan') = 1 /\ chan' # <<>> /\ chan'[1].class = class
         /\ chan = <<>> /\ serving = NoCommand
         /\ Head(inbox).cmd = Head(todo) /\ Head(inbox).fresh
         /\ \/ pc = "read" /\ Head(todo) \notin Opened
            \/ pc \in {"connect", "answer"} /\ Head(todo) \in Opened
<1>1. \/ pc = "read" /\ Asked(Commands \ Opened)
      \/ pc \in {"connect", "answer"} /\ Asked(Opened)
  BY ServedShape DEF Scene, StepInv
<1>2. PICK cmds \in {Commands \ Opened, Opened} : Asked(cmds)
  BY <1>1
<1>3. Head(inbox) = inbox[1]
  BY TypeFacts, TailFacts DEF Scene
<1>4. inbox' = <<>> /\ Len(chan') = 1 /\ chan' # <<>> /\ chan'[1].class = class
  BY <1>2, AskedAnswered DEF Scene
<1>5. Head(inbox).cmd = Head(todo)
  BY <1>1, <1>3 DEF Sent
<1>6. QED  BY <1>1, <1>2, <1>3, <1>4, <1>5 DEF Asked

(* How a transfer's script goes on. *)
LEMMA ReadsOn ==
  ASSUME Scene, Reads, pc' = "send", call.name \in Transfers
  PROVE  /\ todo' = Tail(todo) /\ Head(todo) \in {"CWD", Type, "PASV", "REST"}
         /\ Head(todo) = "CWD" => Head(todo') = Type
         /\ Head(todo) = Type => Head(todo') = "PASV"
         /\ Head(todo) = "PASV" => Head(todo') = IF offset = 0 THEN Verb ELSE "REST"
         /\ Head(todo) = "REST" => Head(todo') = Verb
         /\ Head(todo) # "CWD" => chan # <<>> /\ Good(Head(todo), chan[1])
         /\ Verb \in Opened /\ Type \in {"TYPE A", "TYPE I"} /\ chan \in Seq(Reply)
<1>1. /\ pc = "read" /\ (Succeeds \/ Fails) /\ UNCHANGED <<call, offset>>
      /\ chan \in Seq(Reply) /\ todo \in TransferScripts /\ todo # <<>>
  BY TypeFacts DEF Reads, Scene, ScriptInv, Scripted, TypeInv, TypeOK
<1>2. /\ Head(todo) \in {"CWD", Type, "PASV", "REST", Verb}
      /\ Head(todo) = "CWD" => Head(Tail(todo)) = Type
      /\ Head(todo) = Type => Head(Tail(todo)) = "PASV"
      /\ Head(todo) = "PASV" => Head(Tail(todo)) = IF offset = 0 THEN Verb ELSE "REST"
      /\ Head(todo) = "REST" => Head(Tail(todo)) = Verb
      /\ Verb \in Opened /\ Type \in {"TYPE A", "TYPE I"}
  BY <1>1, TransferTails
<1>3. todo' = Tail(todo)
  BY <1>1, Ends DEF Scene
<1>4. Head(todo) \notin Opened
  BY <1>1 DEF Scene, ScriptInv, Placed
<1>5. ASSUME Head(todo) # "CWD"  PROVE chan # <<>> /\ Good(Head(todo), chan[1])
  <2>1. ~Fails
    BY <1>2, <1>4, <1>5 DEF Fails, Goes, Returns
  <2>2. Takes /\ Good(Head(todo), Head(chan))
    BY <2>1 DEF Reads
  <2>3. QED  BY <1>1, <2>2, TailFacts DEF Takes
<1>6. QED  BY <1>1, <1>2, <1>3, <1>4, <1>5

LEMMA SentStep ==
  ASSUME Scene, SettingInv, [Next]_vars
  PROVE  Sent'
<1> USE DEF result, client, control, login, transfer, data
<1>0. Sent
  BY DEF SettingInv
<1>1. CASE Connects
  <2>1. CASE Closes(0)
    BY <2>1 DEF Closes, Sent
  <2>2. CASE ~Closes(0)
    <3>1. todo' = <<"HELLO", "USER", "PASS">> /\ inbox' = <<[cmd |-> "HELLO", fresh |-> TRUE]>>
      BY <1>1, <2>2, Zenon DEF Connects
    <3>2. Head(todo') = "HELLO" /\ inbox'[1].cmd = "HELLO"
      BY <3>1, ShortTails
    <3>3. QED  BY <3>2 DEF Sent
  <2>3. QED  BY <2>1, <2>2
<1>2. CASE \E c \in Calls : Begins(c)
  BY <1>2 DEF Begins, Sent
<1>3. CASE Sends
  <2>1. UNCHANGED <<behind, todo>>
    BY <1>3 DEF Sends
  <2>2. ~behind => inbox'[1].cmd = Head(todo)
    BY <1>3, SendsShape
  <2>3. QED  BY <2>1, <2>2 DEF Sent
<1>4. CASE SendFails \/ Reads
  <2>1. (pc = "send" /\ Fails) \/ (pc = "read" /\ (Succeeds \/ Fails))
    BY <1>4 DEF SendFails, Reads
  <2>2. UNCHANGED <<call, offset>>
    BY <1>4 DEF SendFails, Reads
  <2>3. pc' \notin {"read", "connect", "answer"}
    BY <2>1, <2>2, Ends DEF Scene
  <2>4. QED  BY <2>3 DEF Sent
<1>5. CASE Opens
  BY <1>0, <1>5 DEF Opens, Sent
<1>6. CASE \/ SocketFails \/ OpenFails \/ Answered \/ NotOpened \/ Gets \/ Puts \/ PutBreaks \/ DataEnds
           \/ Shuts \/ Last
  <2>1. pc' \notin {"read", "connect", "answer"}
    BY <1>6 DEF SocketFails, OpenFails, Answered, NotOpened, Gets, Puts, PutBreaks, DataEnds, Shuts, Last, Closed,
                Returns
  <2>2. QED  BY <2>1 DEF Sent
<1>7. CASE ServesLogin \/ Does \/ Refuses \/ OpensTransfer \/ RefusesTransfer \/ Waited
  <2>1. inbox # <<>> /\ inbox' = Tail(inbox) /\ UNCHANGED <<pc, todo, behind>>
    BY <1>7 DEF ServesLogin, Does, Refuses, OpensTransfer, RefusesTransfer, Waited, Serves, Answers
  <2>2. SUFFICES ASSUME ~behind, pc \in {"read", "connect", "answer"}  PROVE inbox' = <<>>
    BY <2>1 DEF Sent
  <2>3. Asked(Commands \ Opened) \/ Asked(Opened)
    BY <2>1, <2>2, ServedShape DEF Scene, StepInv
  <2>4. Len(inbox) = 1 /\ inbox \in Seq(Command)
    BY <2>3, TypeFacts DEF Asked, Scene
  <2>5. Len(Tail(inbox)) = 0 /\ Tail(inbox) \in Seq(Command)
    BY <2>1, <2>4, TailFacts
  <2>6. QED  BY <2>1, <2>5, EmptySeq
<1>8. CASE ServesQuit \/ Drops
  BY <1>8 DEF ServesQuit, Drops, Sent
<1>9. CASE Streams \/ Completes \/ Aborts
  <2>1. UNCHANGED <<pc, todo, behind, inbox>>
    BY <1>9 DEF Streams, Completes, Aborts, Finishes
  <2>2. QED  BY <1>0, <2>1 DEF Sent
<1>10. CASE UNCHANGED vars
  BY <1>0, <1>10 DEF vars, Sent
<1>11. QED
  BY <1>1, <1>2, <1>3, <1>4, <1>5, <1>6, <1>7, <1>8, <1>9, <1>10 DEF Next, ClientStep, ServerStep

(* The server is busy with a transfer only while the client waits on one. *)
LEMMA ServingNow ==
  ASSUME Scene, ~behind, pc \notin {"closed", "wild"}, serving # NoCommand
  PROVE  \/ pc = "answer" /\ Started
         \/ pc \in {"data", "shut", "last"} /\ Running
<1>1. Shape /\ pc \in {"closed", "idle", "send", "read", "connect", "answer", "data", "shut", "last", "wild"}
  BY DEF Scene, StepInv, TypeInv, TypeOK
<1>2. QED  BY <1>1 DEF Shape, Quiet, Asked, Replied, Refused

LEMMA TypeSetStep ==
  ASSUME Scene, SettingInv, [Next]_vars
  PROVE  TypeSet'
<1> USE DEF result, client, control, login, transfer, data
<1>0. TypeSet /\ Sent /\ chan \in Seq(Reply) /\ (pc \in Underway => todo # <<>>) /\ Scripted
  BY TypeFacts DEF SettingInv, Scene, TypeInv, TypeOK, Underway, ScriptInv
<1>k. ASSUME UNCHANGED <<call, todo, mode, up, behind>>, pc \in Underway,
             pc' # "read" \/ (pc' = pc /\ chan' = chan)
      PROVE  TypeSet'
  BY <1>0, <1>k DEF TypeSet, Letter, Type, Verb, First
<1>1. CASE Connects
  <2>1. call' = Connect
    BY <1>1 DEF Connects
  <2>2. QED  BY <2>1 DEF TypeSet, Connect, Transfers, Readers
<1>2. ASSUME NEW c \in Calls, Begins(c)  PROVE TypeSet'
  <2>1. call' = c /\ offset' = Offset(c) /\ todo' = Script(c, offset') /\ pc' = "send"
    BY <1>2 DEF Begins
  <2>2. c.name = "ListDir" => offset' = 0
    BY <2>1 DEF Offset
  <2>3. Head(todo') \notin Opened /\ (c.name \in Transfers => Head(todo') \in {"CWD", Type'})
    BY <2>1, <2>2, ScriptForms
  <2>4. Type' \in {"TYPE A", "TYPE I"} /\ Verb' \in Opened
    BY DEF Type, Verb, Opened
  <2>5. QED  BY <2>1, <2>3, <2>4 DEF TypeSet
<1>3. CASE Sends
  <2>1. pc = "send" /\ UNCHANGED <<call, todo, mode, up, behind>>
    BY <1>3 DEF Sends
  <2>2. ~behind => chan' = <<>>
    BY <1>3, SendsShape
  <2>3. QED  BY <1>0, <2>1, <2>2 DEF TypeSet, Letter, Type, Verb, First, Underway
<1>4. CASE SendFails
  BY <1>4 DEF SendFails, TypeSet
<1>5. CASE Reads
  <2>1. pc = "read" /\ UNCHANGED <<call, offset, mode, behind>> /\ (Succeeds \/ Fails)
        /\ (Takes \/ Ended) /\ up' = up
    BY <1>5 DEF Reads, Takes, Ended
  <2>2. pc' \in {"closed", "idle", "send", "wild"}
    BY <2>1, Ends DEF Scene
  <2>3. SUFFICES ASSUME pc' = "send", call.name \in Transfers, ~behind, up, Head(todo') \in {"PASV", "REST", Verb}
                 PROVE  mode = Letter
    BY <2>1, <2>2 DEF TypeSet, Letter, Type, Verb, Underway
  <2>4. Head(todo) \in {Type, "PASV", "REST"} /\ chan # <<>> /\ Good(Head(todo), chan[1])
        /\ Type \in {"TYPE A", "TYPE I"}
    BY <1>5, <2>3, ReadsOn DEF Opened
  <2>5. CASE Head(todo) = Type
    <3>1. chan[1].class = 2
      BY <2>4, <2>5 DEF Good, Expects
    <3>2. QED  BY <1>0, <2>1, <2>3, <2>4, <2>5, <3>1 DEF TypeSet, First, Underway
  <2>6. CASE Head(todo) # Type
    BY <1>0, <2>1, <2>3, <2>4, <2>6 DEF TypeSet, Underway
  <2>7. QED  BY <2>5, <2>6
<1>6. CASE Opens
  BY <1>k, <1>6 DEF Opens, Underway
<1>7. CASE OpenFails \/ NotOpened \/ SocketFails \/ Last
  <2>1. pc' = "idle"
    BY <1>7 DEF OpenFails, NotOpened, SocketFails, Last, Closed, Returns
  <2>2. QED  BY <2>1 DEF TypeSet, Underway
<1>8. CASE Answered
  <2>1. CASE Returns(0)
    BY <2>1 DEF Returns, TypeSet, Underway
  <2>2. CASE ~Returns(0)
    <3>1. pc = "answer" /\ pc' = "data" /\ UNCHANGED <<call, todo, mode, up, behind>>
      BY <1>8, <2>2 DEF Answered, Takes
    <3>2. QED  BY <1>k, <3>1 DEF Underway
  <2>3. QED  BY <2>1, <2>2
<1>9. CASE Gets \/ Puts \/ PutBreaks \/ DataEnds \/ Shuts
  <2>1. pc \in {"data", "shut"} /\ pc' # "read" /\ UNCHANGED <<call, todo, mode, up, behind>>
    BY <1>9 DEF Gets, Puts, PutBreaks, DataEnds, Shuts
  <2>2. QED  BY <1>k, <2>1 DEF Underway
<1>10. ASSUME NEW class \in 1..5, inbox # <<>>, Head(inbox).cmd \in Commands, inbox' = Tail(inbox),
              chan' = Append(chan, ReplyTo(Head(inbox), class)), UNCHANGED <<client, up>>,
              mode' = CASE Head(inbox).cmd = "TYPE I" -> "I" [] Head(inbox).cmd = "TYPE A" -> "A" [] OTHER -> mode
       PROVE  TypeSet'
  <2>1. SUFFICES ASSUME ~behind, up, pc \in Underway, call.name \in Transfers
                 PROVE  /\ Head(todo) \in {"PASV", "REST", Verb} => mode' = Letter
                        /\ pc = "read" /\ Head(todo) = Type /\ First(2)' => mode' = Letter
    BY <1>10 DEF TypeSet, Letter, Type, Verb
  <2>2. Head(inbox).cmd = Head(todo)
    BY <1>0, <1>10, <2>1, ServedNow DEF Underway
  <2>3. Verb \in Opened
    BY DEF Verb, Opened
  <2>4. Head(todo) \in {"PASV", "REST", Verb} => mode' = mode /\ mode = Letter
    BY <1>0, <1>10, <2>1, <2>2, <2>3 DEF TypeSet, Opened
  <2>5. Head(todo) = Type => mode' = Letter
    BY <1>10, <2>2 DEF Type, Letter
  <2>6. QED  BY <2>4, <2>5
<1>11. ASSUME NEW class \in {1, 2, 3, 5}, inbox # <<>>, Head(inbox).cmd \in Commands, inbox' = Tail(inbox),
              chan' = Append(chan, ReplyTo(Head(inbox), class)), UNCHANGED <<client, up, mode>>,
              class = 2 => Head(inbox).cmd \notin {"TYPE A", "TYPE I"}
       PROVE  TypeSet'
  <2>1. SUFFICES ASSUME ~behind, up, pc \in Underway, call.name \in Transfers
                 PROVE  /\ Head(todo) \in {"PASV", "REST", Verb} => mode = Letter
                        /\ pc = "read" /\ Head(todo) = Type /\ First(2)' => mode = Letter
    BY <1>11 DEF TypeSet, Letter, Type, Verb
  <2>2. Head(inbox).cmd = Head(todo) /\ chan'[1].class = class
    <3>1. class \in 1..5 /\ pc \notin {"closed", "wild"}
      BY <2>1 DEF Underway
    <3>2. QED  BY <1>0, <1>11, <2>1, <3>1, ServedNow
  <2>3. Type \in {"TYPE A", "TYPE I"}
    BY DEF Type
  <2>4. QED  BY <1>0, <1>11, <2>1, <2>2, <2>3 DEF TypeSet, First
<1>12. CASE ServesLogin
  <2>1. PICK class \in {2, 3} : Answers(class)
    BY <1>12 DEF ServesLogin
  <2>2. inbox # <<>> /\ Head(inbox).cmd \in {"HELLO", "USER", "PASS"} /\ UNCHANGED <<client, mode>>
    BY <1>12 DEF ServesLogin, Serves
  <2>3. QED  BY <1>11, <2>1, <2>2 DEF Answers, Commands
<1>13. CASE Does
  <2>1. PICK class \in {2, 3} : Answers(class)
    BY <1>13 DEF Does
  <2>2. inbox # <<>> /\ Head(inbox).cmd \in Commands /\ UNCHANGED client
    BY <1>13 DEF Does, Serves, Commands, Orders
  <2>3. mode' = CASE Head(inbox).cmd = "TYPE I" -> "I" [] Head(inbox).cmd = "TYPE A" -> "A" [] OTHER -> mode
    BY <1>13 DEF Does
  <2>4. class \in 1..5
    OBVIOUS
  <2>5. QED  BY <1>10, <2>1, <2>2, <2>3, <2>4 DEF Answers
<1>14. CASE Refuses \/ RefusesTransfer \/ OpensTransfer
  <2>1. PICK class \in {1, 5} : Answers(class)
    BY <1>14 DEF Refuses, RefusesTransfer, OpensTransfer
  <2>2. inbox # <<>> /\ Head(inbox).cmd \in Commands /\ UNCHANGED <<client, mode>>
    BY <1>14 DEF Refuses, RefusesTransfer, OpensTransfer, Serves, Commands
  <2>3. class \in {1, 2, 3, 5} /\ class # 2
    OBVIOUS
  <2>4. QED  BY <1>11, <2>1, <2>2, <2>3 DEF Answers
<1>15. CASE ServesQuit \/ Drops
  BY <1>15 DEF ServesQuit, Drops, TypeSet
<1>16. CASE Waited \/ Streams \/ Completes \/ Aborts
  <2>1. UNCHANGED <<client, mode, up>>
    BY <1>16 DEF Waited, Streams, Completes, Aborts, Finishes
  <2>2. SUFFICES ASSUME ~behind, pc = "read", pc \in Underway  PROVE chan' = chan
    BY <1>0, <2>1 DEF TypeSet, Letter, Type, Verb, First
  <2>3. CASE Streams
    BY <2>3 DEF Streams
  <2>4. CASE Waited
    <3>1. inbox # <<>> /\ Head(inbox).cmd \in Opened
      BY <2>4 DEF Waited, Serves, Opened
    <3>2. Asked(Commands \ Opened) /\ Head(inbox) = inbox[1]
      BY <2>2, <3>1, ServedShape DEF Scene, StepInv
    <3>3. QED  BY <3>1, <3>2 DEF Asked
  <2>5. CASE Completes \/ Aborts
    <3>1. serving # NoCommand
      BY <2>5 DEF Completes, Aborts, NoCommand
    <3>2. QED  BY <2>2, <3>1, ServingNow
  <2>6. QED  BY <1>16, <2>3, <2>4, <2>5
<1>17. CASE UNCHANGED vars
  BY <1>0, <1>17 DEF vars, TypeSet, Letter, Type, Verb, First
<1>18. QED
  BY <1>1, <1>2, <1>3, <1>4, <1>5, <1>6, <1>7, <1>8, <1>9, <1>12, <1>13, <1>14, <1>15, <1>16, <1>17
     DEF Next, ClientStep, ServerStep

LEMMA MarkedStep ==
  ASSUME Scene, SettingInv, [Next]_vars
  PROVE  Marked'
<1> USE DEF result, client, control, login, transfer, data
<1>0. /\ Marked /\ Sent /\ chan \in Seq(Reply) /\ (pc \in Underway => todo # <<>>) /\ Scripted /\ Placed
      /\ pc \in {"closed", "idle", "send", "read", "connect", "answer", "data", "shut", "last", "wild"}
  BY TypeFacts DEF SettingInv, Scene, TypeInv, TypeOK, Underway, ScriptInv
<1>k. ASSUME UNCHANGED <<marker, up, behind, stale>>, pc' \in Underway => pc \in Underway /\ ~Pending /\ ~Pending'
      PROVE  Marked'
  BY <1>0, <1>k DEF Marked
<1>1. CASE Connects
  <2>1. CASE Closes(0)
    BY <2>1 DEF Closes, Marked, Underway
  <2>2. CASE ~Closes(0)
    <3>1. pc' = "read" /\ todo' = <<"HELLO", "USER", "PASS">> /\ marker' = 0
      BY <1>1, <2>2, Zenon DEF Connects
    <3>2. Head(todo') = "HELLO"
      BY <3>1, ShortTails
    <3>3. QED  BY <3>1, <3>2 DEF Marked, Pending
  <2>3. QED  BY <2>1, <2>2
<1>2. ASSUME NEW c \in Calls, Begins(c)  PROVE Marked'
  <2>1. /\ call' = c /\ offset' = Offset(c) /\ todo' = Script(c, offset') /\ pc' = "send" /\ pc = "idle"
        /\ UNCHANGED <<marker, up, behind>> /\ stale' = (marker # 0)
    BY <1>2 DEF Begins
  <2>2. c.name = "ListDir" => offset' = 0
    BY <2>1 DEF Offset
  <2>3. Head(todo') \notin Opened
    BY <2>1, <2>2, ScriptForms
  <2>4. ~Pending'
    BY <2>1, <2>3 DEF Pending
  <2>5. marker' = 0 \/ stale'
    BY <2>1
  <2>6. QED  BY <2>4, <2>5 DEF Marked
<1>3. CASE Sends
  <2>1. pc = "send" /\ UNCHANGED <<marker, up, behind, todo, offset, stale>>
    BY <1>3 DEF Sends
  <2>2. SUFFICES ASSUME ~behind  PROVE Marked'
    BY <2>1 DEF Marked
  <2>3. chan' = <<>> /\ inbox' # <<>> /\ pc' = IF Head(todo) \in Opened THEN "connect" ELSE "read"
    BY <1>3, <2>2, SendsShape
  <2>4. Pending' <=> Pending
    BY <2>1, <2>3 DEF Pending, First
  <2>5. QED  BY <1>0, <2>1, <2>4 DEF Marked, Underway
<1>4. CASE SendFails
  BY <1>4 DEF SendFails, Marked
<1>5. CASE Reads
  <2>1. pc = "read" /\ UNCHANGED <<call, offset, marker, behind, stale>> /\ (Succeeds \/ Fails)
        /\ (Takes \/ (Ended /\ ~up)) /\ up' = up
    BY <1>5 DEF Reads, Takes, Ended
  <2>2. pc' \in {"closed", "idle", "send", "wild"} /\ (pc' = "send" => todo' # <<>>) /\ Scripted'
    BY <2>1, Ends DEF Scene
  <2>3. SUFFICES ASSUME ~behind, up, pc' = "send"
                 PROVE  /\ Pending' /\ offset # 0 => marker = offset
                        /\ ~(Pending' /\ offset # 0) => marker = 0 \/ stale
    BY <2>1, <2>2 DEF Marked, Underway
  <2>4. Takes /\ chan # <<>> /\ Head(chan) = chan[1]
    BY <1>0, <2>1, <2>3, TailFacts DEF Takes
  <2>5. CASE Pending
    <3>1. Head(todo) = "REST" /\ chan[1].class = 3
      BY <2>1, <2>5 DEF Pending, First
    <3>2. call.name \in Transfers /\ todo \in TransferScripts /\ todo # <<>>
      <4>1. todo # <<>>
        BY <1>0, <2>1 DEF Underway
      <4>2. call.name \notin Ordering
        BY <1>0, <3>1, <4>1, OrderTails DEF Scripted, Orders
      <4>3. ~(call.name \notin Transfers \cup Ordering)
        BY <1>0, <3>1, <4>1, OtherTails DEF Scripted
      <4>4. QED  BY <1>0, <4>1, <4>2, <4>3 DEF Scripted
    <3>3. Good(Head(todo), Head(chan))
      BY <2>4, <3>1 DEF Good, Expects
    <3>5. Head(todo') = Verb /\ Verb \in Opened
      BY <1>5, <2>3, <3>1, <3>2, ReadsOn
    <3>6. Pending'
      BY <2>3, <3>5 DEF Pending
    <3>7. QED  BY <1>0, <2>1, <2>3, <2>5, <3>6 DEF Marked, Underway
  <2>6. CASE ~Pending
    <3>1. marker = 0 \/ stale
      BY <1>0, <2>1, <2>3, <2>6 DEF Marked, Underway
    <3>2. SUFFICES ASSUME Pending'  PROVE offset = 0
      BY <3>1
    <3>3. pc' = "send" /\ Head(todo') \in Opened
      BY <2>3, <3>2 DEF Pending
    <3>4. call.name \in Transfers
      <4>1. call'.name \notin Ordering
        <5>1. SUFFICES ASSUME call.name \in Ordering  PROVE FALSE
          BY <2>1
        <5>2. todo' \in OrderScripts /\ todo' # <<>>
          BY <2>1, <2>2, <3>3, <5>1 DEF Scripted
        <5>3. \A s \in OrderScripts : s # <<>> => Head(s) \notin Opened
          <6>1. /\ Head(<<"MKD">>) = "MKD" /\ Head(<<"DELE">>) = "DELE" /\ Head(<<"RMD">>) = "RMD"
                /\ Head(<<"RNFR", "RNTO">>) = "RNFR" /\ Head(<<"TYPE I", "SIZE">>) = "TYPE I"
                /\ Head(<<"RNTO">>) = "RNTO" /\ Head(<<"SIZE">>) = "SIZE"
            BY ShortTails
          <6>2. QED  BY <6>1 DEF OrderScripts, Opened
        <5>4. QED  BY <3>3, <5>2, <5>3
      <4>2. ~(call'.name \notin Transfers \cup Ordering)
        <5>1. SUFFICES ASSUME call.name \notin Transfers \cup Ordering  PROVE FALSE
          BY <2>1
        <5>2. todo' \in OtherScripts /\ todo' # <<>>
          BY <2>1, <2>2, <3>3, <5>1 DEF Scripted
        <5>3. \A s \in OtherScripts : s # <<>> => Head(s) \notin Opened
          <6>1. /\ Head(<<"HELLO", "USER", "PASS">>) = "HELLO" /\ Head(<<"USER", "PASS">>) = "USER"
                /\ Head(<<"PASS">>) = "PASS" /\ Head(<<"NOOP">>) = "NOOP" /\ Head(<<"QUIT">>) = "QUIT"
            BY ShortTails
          <6>2. QED  BY <6>1 DEF OtherScripts, Opened
        <5>4. QED  BY <3>3, <5>2, <5>3
      <4>3. QED  BY <2>1, <4>1, <4>2
    <3>5. /\ Head(todo) \in {"CWD", Type, "PASV", "REST"} /\ Type \in {"TYPE A", "TYPE I"}
          /\ Head(todo) = "CWD" => Head(todo') = Type
          /\ Head(todo) = Type => Head(todo') = "PASV"
          /\ Head(todo) = "PASV" => Head(todo') = IF offset = 0 THEN Verb ELSE "REST"
          /\ Head(todo) # "CWD" => Good(Head(todo), chan[1])
      BY <1>5, <3>3, <3>4, ReadsOn
    <3>6. Head(todo) # "REST"
      BY <2>1, <2>4, <2>6, <3>5 DEF Pending, First, Good, Expects
    <3>7. QED  BY <3>3, <3>5, <3>6 DEF Opened
  <2>7. QED  BY <2>5, <2>6
<1>6. CASE Opens
  <2>1. pc = "connect" /\ pc' = "answer" /\ UNCHANGED <<marker, up, behind, offset, inbox, stale>>
    BY <1>6 DEF Opens
  <2>2. QED  BY <1>0, <2>1 DEF Marked, Pending, Underway
<1>7. CASE OpenFails \/ NotOpened \/ SocketFails
  <2>1. pc' = "idle"
    BY <1>7 DEF OpenFails, NotOpened, SocketFails, Returns
  <2>2. QED  BY <2>1 DEF Marked, Underway
<1>8. CASE Answered
  <2>1. pc = "answer" /\ pc' \in {"data", "idle"} /\ UNCHANGED <<marker, up, behind, stale>>
    BY <1>8 DEF Answered, Takes, Ended, Returns
  <2>2. SUFFICES ASSUME ~behind, up  PROVE Marked'
    BY <2>1 DEF Marked
  <2>3. inbox = <<>>
    <3>1. chan # <<>>
      BY <1>8, <2>2 DEF Answered, Takes, Ended
    <3>2. QED  BY <2>1, <2>2, <3>1 DEF Scene, StepInv, Shape, Asked, Refused, Replied, Started
  <2>4. QED  BY <1>k, <2>1, <2>3 DEF Pending, Underway
<1>9. CASE Gets \/ Puts \/ PutBreaks \/ DataEnds \/ Shuts \/ Last
  <2>1. /\ pc \in {"data", "shut", "last"} /\ pc' \in {"data", "shut", "last", "idle"}
        /\ UNCHANGED <<marker, up, behind, stale>>
    BY <1>9 DEF Gets, Puts, PutBreaks, DataEnds, Shuts, Last, Closed, Returns, Takes, Ended
  <2>2. QED  BY <1>k, <2>1 DEF Pending, Underway
<1>10. ASSUME NEW class \in {2, 3, 5}, inbox # <<>>, Head(inbox).cmd \in Commands \ Opened, inbox' = Tail(inbox),
              chan' = Append(chan, ReplyTo(Head(inbox), class)), UNCHANGED <<client, up>>,
              marker' = IF class = 3 /\ Head(inbox).cmd = "REST" THEN offset ELSE marker
       PROVE  Marked'
  <2>1. SUFFICES ASSUME ~behind, up, pc \in Underway
                 PROVE  /\ Pending' /\ offset # 0 => marker' = offset
                        /\ ~(Pending' /\ offset # 0) => marker' = 0 \/ stale
    BY <1>10 DEF Marked
  <2>2. /\ Head(inbox).cmd = Head(todo) /\ chan'[1].class = class /\ chan' # <<>> /\ chan = <<>>
        /\ pc = "read"
    <3>1. class \in 1..5 /\ pc \notin {"closed", "wild"}
      BY <2>1 DEF Underway
    <3>2. QED  BY <1>0, <1>10, <2>1, <3>1, ServedNow
  <2>3. marker = 0 \/ stale
    BY <1>0, <2>1, <2>2 DEF Marked, Pending, First
  <2>4. Pending' <=> Head(todo) = "REST" /\ class = 3
    BY <1>10, <2>2 DEF Pending, First
  <2>5. QED  BY <1>10, <2>2, <2>3, <2>4
<1>11. CASE ServesLogin
  <2>1. PICK class \in {2, 3} : Answers(class)
    BY <1>11 DEF ServesLogin
  <2>2. inbox # <<>> /\ Head(inbox).cmd \in {"HELLO", "USER", "PASS"} /\ UNCHANGED <<client, marker>>
    BY <1>11 DEF ServesLogin, Serves
  <2>3. QED  BY <1>10, <2>1, <2>2 DEF Answers, Commands, Opened
<1>12. CASE Does
  <2>1. PICK class \in {2, 3} : Answers(class) /\ (Head(inbox).cmd = "REST" <=> (class = 3 /\ Head(inbox).cmd = "REST"))
    BY <1>12 DEF Does, Serves, Orders
  <2>2. inbox # <<>> /\ Head(inbox).cmd \in Commands \ Opened /\ UNCHANGED client
    BY <1>12 DEF Does, Serves, Commands, Orders, Opened
  <2>3. marker' = IF Head(inbox).cmd = "REST" THEN offset ELSE marker
    BY <1>12 DEF Does
  <2>4. QED  BY <1>10, <2>1, <2>2, <2>3 DEF Answers
<1>13. CASE Refuses
  <2>1. inbox # <<>> /\ Head(inbox).cmd \in Commands \ Opened /\ UNCHANGED <<client, marker>> /\ Answers(5)
    BY <1>13 DEF Refuses, Serves, Opened
  <2>2. QED  BY <1>10, <2>1 DEF Answers
<1>14. CASE OpensTransfer \/ RefusesTransfer \/ Waited
  <2>1. /\ inbox # <<>> /\ Head(inbox).cmd \in Opened /\ UNCHANGED client /\ marker' = 0
        /\ inbox' = Tail(inbox)
    BY <1>14 DEF OpensTransfer, RefusesTransfer, Waited, Serves, Answers, Opened
  <2>2. SUFFICES ASSUME ~behind, pc \in Underway  PROVE ~Pending'
    BY <2>1 DEF Marked
  <2>3. pc \in {"connect", "answer"} /\ Asked(Opened)
    <3>1. Head(inbox) = inbox[1]
      BY <2>1, TypeFacts, TailFacts DEF Scene
    <3>2. QED  BY <2>1, <2>2, <3>1, ServedShape DEF Scene, StepInv, Asked, Underway
  <2>4. inbox' = <<>>
    <3>1. Len(inbox) = 1 /\ inbox \in Seq(Command)
      BY <2>3, TypeFacts DEF Asked, Scene
    <3>2. Len(Tail(inbox)) = 0 /\ Tail(inbox) \in Seq(Command)
      BY <2>1, <3>1, TailFacts
    <3>3. QED  BY <2>1, <3>2, EmptySeq
  <2>5. QED  BY <2>1, <2>3, <2>4 DEF Pending
<1>15. CASE ServesQuit \/ Drops
  BY <1>15 DEF ServesQuit, Drops, Marked
<1>16. CASE Streams
  BY <1>0, <1>16 DEF Streams, Marked, Pending, First
<1>17. CASE Completes \/ Aborts
  <2>1. serving # NoCommand
    BY <1>17 DEF Completes, Aborts, NoCommand
  <2>2. UNCHANGED <<client, marker, up, inbox>>
    BY <1>17 DEF Completes, Aborts, Finishes
  <2>3. SUFFICES ASSUME ~behind, pc \in Underway  PROVE Pending' <=> Pending
    BY <1>0, <2>2 DEF Marked
  <2>4. pc \in {"answer", "data", "shut", "last"}
    BY <2>1, <2>3, ServingNow DEF Underway
  <2>5. QED  BY <2>2, <2>4 DEF Pending
<1>18. CASE UNCHANGED vars
  BY <1>0, <1>18 DEF vars, Marked, Pending, First
<1>19. QED
  BY <1>1, <1>2, <1>3, <1>4, <1>5, <1>6, <1>7, <1>8, <1>9, <1>11, <1>12, <1>13, <1>14, <1>15, <1>16, <1>17, <1>18
     DEF Next, ClientStep, ServerStep

LEMMA BegunStep ==
  ASSUME Scene, SettingInv, [Next]_vars
  PROVE  Begun'
<1> USE DEF result, client, control, login, transfer, data
<1>0. /\ Begun /\ Marked /\ Sent /\ chan \in Seq(Reply) /\ Scripted /\ Placed /\ DataOpen
      /\ (pc \in Underway => todo # <<>>) /\ (~behind => Shape)
  BY TypeFacts DEF SettingInv, Scene, TypeInv, TypeOK, Underway, ScriptInv, StepInv
<1>k. ASSUME UNCHANGED <<call, offset, from, behind, stale>>, ~behind' => pc' \notin {"answer", "data"} \/
               (dconn' = dconn /\ (pc' = pc \/ pc' = "data") /\ (First(1)' /\ pc' = "answer" => First(1))
                 /\ (pc = "answer" /\ pc' = "data" => First(1)) /\ pc \in {"answer", "data"})
      PROVE  Begun'
  BY <1>0, <1>k DEF Begun, Misled
<1>1. CASE Connects
  BY <1>1 DEF Connects, Begun
<1>2. CASE \E c \in Calls : Begins(c)
  BY <1>2 DEF Begins, Begun
<1>3. CASE Sends
  BY <1>3 DEF Sends, Begun
<1>4. CASE SendFails \/ Reads
  <2>1. (pc = "send" /\ Fails) \/ (pc = "read" /\ (Succeeds \/ Fails))
    BY <1>4 DEF SendFails, Reads
  <2>2. UNCHANGED <<call, offset>>
    BY <1>4 DEF SendFails, Reads
  <2>3. pc' \notin {"answer", "data"}
    BY <2>1, <2>2, Ends DEF Scene
  <2>4. QED  BY <2>3 DEF Begun
<1>5. CASE Opens
  <2>1. pc = "connect" /\ pc' = "answer" /\ UNCHANGED <<behind, chan>>
    BY <1>5 DEF Opens
  <2>2. ~behind => ~First(1)
    BY <1>0, <2>1 DEF Shape, Asked, Refused, First
  <2>3. QED  BY <2>1, <2>2 DEF Begun, First
<1>6. CASE OpenFails \/ NotOpened \/ SocketFails
  <2>1. pc' = "idle"
    BY <1>6 DEF OpenFails, NotOpened, SocketFails, Returns
  <2>2. QED  BY <2>1 DEF Begun
<1>7. CASE Answered
  <2>1. /\ pc = "answer" /\ UNCHANGED <<call, offset, from, behind, stale>>
        /\ \/ pc' = "data" /\ dconn' = dconn /\ First(1)
           \/ pc' = "idle"
    BY <1>0, <1>7, TailFacts DEF Answered, Takes, Returns, First
  <2>2. QED  BY <1>k, <2>1
<1>8. CASE Gets \/ Puts \/ PutBreaks \/ DataEnds \/ Shuts \/ Last
  <2>1. \/ pc = "data" /\ pc' = "data" /\ UNCHANGED <<call, offset, from, behind, dconn, stale>>
        \/ pc' \notin {"answer", "data"}
    BY <1>8 DEF Gets, Puts, PutBreaks, DataEnds, Shuts, Last, Closed, Returns
  <2>2. QED  BY <1>0, <2>1 DEF Begun, Misled
<1>9. CASE ServesLogin \/ Does \/ Refuses \/ RefusesTransfer
  <2>1. PICK class \in {2, 3, 5} : Answers(class)
    BY <1>9 DEF ServesLogin, Does, Refuses, RefusesTransfer
  <2>2. /\ inbox # <<>> /\ Head(inbox).cmd \in Commands /\ UNCHANGED <<client, from, dconn>>
    BY <1>9 DEF ServesLogin, Does, Refuses, RefusesTransfer, Serves, Commands, Orders
  <2>3. ASSUME ~behind, pc \in {"answer", "data"}  PROVE pc = "answer" /\ ~First(1)'
    <3>1. class \in 1..5
      OBVIOUS
    <3>2. chan'[1].class = class /\ pc \notin {"data"}
      BY <1>0, <2>1, <2>2, <2>3, <3>1, ServedNow DEF Answers
    <3>3. QED  BY <2>3, <3>2 DEF First
  <2>4. QED  BY <1>k, <2>2, <2>3
<1>10. CASE ServesQuit
  <2>1. inbox # <<>> /\ Head(inbox).cmd = "QUIT" /\ UNCHANGED client
    BY <1>10 DEF ServesQuit, Serves
  <2>2. SUFFICES ASSUME ~behind, pc \in {"answer", "data"}  PROVE FALSE
    BY <2>1 DEF Begun
  <2>3. pc \in {"connect", "answer"} /\ Asked(Opened) /\ Head(inbox) = inbox[1]
    BY <2>1, <2>2, ServedShape DEF Scene, StepInv
  <2>4. QED  BY <2>1, <2>3 DEF Asked, Opened
<1>11. CASE OpensTransfer
  <2>1. /\ inbox # <<>> /\ Head(inbox).cmd \in Opened /\ UNCHANGED client /\ Answers(1) /\ dconn = "open"
        /\ from' = (IF Head(inbox).cmd = "LIST" THEN 0 ELSE marker) /\ UNCHANGED dconn /\ up
    BY <1>11 DEF OpensTransfer, Serves, Opened
  <2>2. SUFFICES ASSUME ~behind, pc \in {"answer", "data"}  PROVE from' = offset \/ Misled
    BY <2>1 DEF Begun, Misled
  <2>3. Head(inbox).cmd = Head(todo) /\ pc = "answer"
    <3>1. 1 \in 1..5 /\ Head(inbox).cmd \in Commands
      <4>1. Opened \subseteq Commands
        BY DEF Opened, Commands
      <4>2. QED  BY <2>1, <4>1
    <3>2. QED  BY <1>0, <2>1, <2>2, <3>1, ServedNow DEF Answers
  <2>4. marker = offset \/ (stale /\ offset = 0)
    BY <1>0, <2>1, <2>2, <2>3 DEF Marked, Pending, Underway
  <2>5. call.name \in Transfers /\ todo \in TransferScripts /\ todo # <<>>
    <3>1. todo # <<>>
      BY <1>0, <2>3 DEF Underway
    <3>2. call.name \notin Ordering
      BY <1>0, <2>1, <2>3, <3>1, OrderTails DEF Scripted, Orders, Opened
    <3>3. ~(call.name \notin Transfers \cup Ordering)
      BY <1>0, <2>1, <2>3, <3>1, OtherTails DEF Scripted, Opened
    <3>4. QED  BY <1>0, <3>1, <3>2, <3>3 DEF Scripted
  <2>6. Head(todo) = Verb
    <3>1. Head(todo) \in {"CWD", Type, "PASV", "REST", Verb} /\ Type \in {"TYPE A", "TYPE I"}
      BY <2>5, TransferTails
    <3>2. QED  BY <2>1, <2>3, <3>1 DEF Opened
  <2>7. call.name = "ListDir" <=> Head(inbox).cmd = "LIST"
    BY <2>3, <2>6 DEF Verb
  <2>8. call.name = "ListDir" => offset = 0
    BY <2>3 DEF Scene, ScriptInv, Aimed, Underway
  <2>9. QED  BY <2>1, <2>4, <2>7, <2>8 DEF Misled
<1>12. CASE Waited
  <2>1. UNCHANGED <<client, from, dconn>> /\ dconn # "open"
    BY <1>12 DEF Waited
  <2>2. QED  BY <2>1 DEF Begun
<1>13. CASE Streams
  <2>1. UNCHANGED <<client, from, dconn, chan>>
    BY <1>13 DEF Streams
  <2>2. QED  BY <1>0, <2>1 DEF Begun, Misled, First
<1>14. CASE Completes \/ Aborts
  <2>1. UNCHANGED <<client, from, dconn>> /\ serving # NoCommand
    BY <1>14 DEF Completes, Aborts, Finishes, NoCommand
  <2>2. ASSUME ~behind, pc = "answer"  PROVE First(1)
    BY <2>1, <2>2, ServingNow DEF Started, First
  <2>3. QED  BY <1>k, <2>1, <2>2
<1>15. CASE Drops
  <2>1. UNCHANGED <<client, from, dconn>> /\ chan' \in {chan, Append(chan, [of |-> "none", class |-> 4, fresh |-> FALSE])}
    BY <1>15 DEF Drops
  <2>2. First(1)' => First(1)
    <3>1. ASSUME chan' = Append(chan, [of |-> "none", class |-> 4, fresh |-> FALSE]), First(1)'  PROVE First(1)
      <4>1. [of |-> "none", class |-> 4, fresh |-> FALSE] \in Reply
        BY DEF Reply
      <4>2. CASE chan = <<>>
        <5>1. <<>> \in Seq(Reply) /\ Len(<<>>) = 0
          BY EmptySeq
        <5>2. chan'[1].class = 4
          BY <3>1, <4>1, <4>2, <5>1, AppendProperties
        <5>3. QED  BY <3>1, <5>2 DEF First
      <4>3. CASE chan # <<>>
        <5>1. chan'[1] = chan[1]
          BY <1>0, <3>1, <4>1, <4>3, TailFacts, AppendProperties
        <5>2. QED  BY <3>1, <4>3, <5>1 DEF First
      <4>4. QED  BY <4>2, <4>3
    <3>2. QED  BY <2>1, <3>1 DEF First
  <2>3. QED  BY <1>k, <2>1, <2>2
<1>16. CASE UNCHANGED vars
  BY <1>0, <1>16 DEF vars, Begun, Misled, First
<1>17. QED
  BY <1>1, <1>2, <1>3, <1>4, <1>5, <1>6, <1>7, <1>8, <1>9, <1>10, <1>11, <1>12, <1>13, <1>14, <1>15, <1>16
     DEF Next, ClientStep, ServerStep

LEMMA SettingStep ==
  ASSUME Scene, SettingInv, [Next]_vars
  PROVE  SettingInv'
BY SentStep, TypeSetStep, MarkedStep, BegunStep DEF SettingInv

LEMMA SettingInit == Init => SettingInv
BY DEF Init, SettingInv, Sent, TypeSet, Marked, Begun, Underway

(* The client waits on a transfer only in a call that makes one. *)
LEMMA MovingVerb ==
  ASSUME TypeInv, ScriptInv, pc \in Moving
  PROVE  call.name \in Transfers /\ Head(todo) = Verb /\ Verb \in Opened /\ todo # <<>>
<1>1. todo # <<>> /\ Scripted /\ Head(todo) \in Opened
  BY DEF TypeInv, TypeOK, Moving, ScriptInv, Placed
<1>2. call.name \notin Ordering
  BY <1>1, OrderTails DEF Scripted, Orders, Opened
<1>3. ~(call.name \notin Transfers \cup Ordering)
  BY <1>1, OtherTails DEF Scripted, Opened
<1>4. Head(todo) \in {"CWD", Type, "PASV", "REST", Verb} /\ Type \in {"TYPE A", "TYPE I"} /\ Verb \in Opened
  BY <1>1, <1>2, <1>3, TransferTails DEF Scripted
<1>5. QED  BY <1>1, <1>2, <1>3, <1>4 DEF Opened

LEMMA ScenesAlways == Spec => [](Scene /\ SettingInv)
<1>1. Init => Scene /\ SettingInv
  BY InitTypes, StepInvInit, ScriptInit, LateInit, SettingInit DEF Scene
<1>2. Scene /\ SettingInv /\ [Next]_vars => (Scene /\ SettingInv)'
  BY TypesStep, StepInvStep, ScriptStep, LateStep, SettingStep DEF Scene
<1>3. QED  BY <1>1, <1>2, PTL DEF Spec

(* Data moves only on a connection in step, in the TYPE the call needs and from    *)
(* where the call asked, for any calls and any failures before: FtpOpenPasv and    *)
(* FtpAccess (ftpclient.cpp) after a failed connect or allocation, a failed REST   *)
(* or an old reply.  The position is that of an earlier call only where            *)
(* TransferRight says so: a call for the beginning of a file, which sends no REST, *)
(* after one that had its REST accepted and then no socket.                        *)
THEOREM RightTransfers == Spec => []TransferRight
<1>1. Scene /\ SettingInv => TransferRight
  <2> SUFFICES ASSUME Scene, SettingInv, pc = "data", dconn = "open" \/ moved # 0
               PROVE  /\ ~behind
                      /\ up => mode = IF call.name = "ListDir" THEN "A" ELSE "I"
                      /\ \/ from = call.at
                         \/ call.name = "Head" /\ offset # 0
                         \/ stale /\ offset = 0 /\ call.name # "ListDir"
    BY DEF TransferRight
  <2>1. dconn = "open" /\ ~behind
    BY DEF Scene, LateInv, Dead, Linked
  <2>2. call.name \in Transfers /\ Head(todo) = Verb
    BY MovingVerb DEF Scene, Moving
  <2>3. up => mode = Letter
    BY <2>1, <2>2 DEF SettingInv, TypeSet, Underway
  <2>4. from = offset \/ Misled
    BY <2>1 DEF SettingInv, Begun
  <2>5. /\ call.name \in {"Get", "Put", "GetRange"} => offset = call.at
        /\ call.name = "ListDir" => offset = 0
    BY DEF Scene, ScriptInv, Aimed, Underway
  <2>6. call.name # "GetRange" => call.at = 0
    BY FtpControlAssumption DEF Scene, TypeInv, TypeOK, Connect
  <2>7. \/ from = call.at
        \/ call.name = "Head" /\ offset # 0
        \/ stale /\ offset = 0 /\ call.name # "ListDir"
    BY <2>2, <2>4, <2>5, <2>6 DEF Misled, Transfers, Readers
  <2>8. QED  BY <2>1, <2>3, <2>7 DEF Letter
<1>2. QED  BY <1>1, ScenesAlways, PTL

-----------------------------------------------------------------------------
(***************************************************************************)
(* Counts.  While the client and its server are in step, every block that  *)
(* one has sent and the other not yet taken is in the data connection, and *)
(* the last reply says what has become of all of them.                     *)
(***************************************************************************)
Counted ==
  ~behind /\ pc \in Moving /\ serving # NoCommand =>
    /\ serving.cmd = Verb /\ dend = "open"
    /\ call.name \in Readers /\ pc \in {"answer", "data"} => moved + dpipe + from = pos
    /\ call.name = "Put" =>
         /\ pos + dpipe = moved
         /\ pc \in {"shut", "last"} => moved = Blocks \/ broke
         /\ from = 0 \/ stale

Empty == ~behind /\ pc = "answer" /\ inbox # <<>> => dpipe = 0 /\ (dconn = "open" => dend = "open")

(* The reply that says the transfer is complete has come. *)
Final ==
  \/ pc \in {"data", "shut", "last"} /\ First(2)
  \/ pc = "answer" /\ First(1) /\ Len(chan) >= 2 /\ chan[2].class = 2
Confirmed == ~behind /\ Final => IF call.name = "Put" THEN done \/ broke \/ stale ELSE dend = "eof"

Drained ==
  ~behind /\ call.name \in Readers /\ dconn = "open" /\ pc \in {"answer", "data"} /\ dend = "eof" =>
    moved + dpipe + from = Blocks
GotAll ==
  ~behind /\ call.name = "Get" /\ ~broke /\ ~stale /\ pc \in {"shut", "last"} =>
    dend # "open" /\ (dend = "eof" => moved = Blocks)

(* A command other than a transfer, answered with 2, has been carried out. *)
Carried == ~behind /\ pc = "read" /\ Head(todo) \in Orders /\ First(2) => done

CountInv == Counted /\ Empty /\ Confirmed /\ Drained /\ GotAll /\ Carried

Setting == Scene /\ SettingInv /\ CountInv

(* While the client waits on a transfer the server serves no other command. *)
LEMMA NoOther ==
  ASSUME Scene, ~behind, inbox # <<>>, Head(inbox).cmd \notin Opened, pc \in Moving
  PROVE  FALSE
<1>1. Asked(Opened) /\ Head(inbox) = inbox[1]
  BY ServedShape DEF Scene, StepInv, Moving
<1>2. QED  BY <1>1 DEF Asked

(* A last word of the server is none of the replies that say all went well. *)
LEMMA LastWord ==
  ASSUME chan \in Seq(Reply), chan' \in {chan, Append(chan, [of |-> "none", class |-> 4, fresh |-> FALSE])}
  PROVE  /\ First(1)' => First(1)
         /\ First(2)' => First(2)
         /\ Len(chan') >= 2 /\ chan'[2].class = 2 => Len(chan) >= 2 /\ chan[2].class = 2
<1> DEFINE word == [of |-> "none", class |-> 4, fresh |-> FALSE]
<1>1. CASE chan' = chan
  BY <1>1 DEF First
<1>2. CASE chan' = Append(chan, word)
  <2>1. word \in Reply
    BY DEF Reply
  <2>2. Len(chan) \in Nat /\ Len(chan') = Len(chan) + 1 /\ chan'[Len(chan) + 1] = word
        /\ \A i \in 1..Len(chan) : chan'[i] = chan[i]
    BY <1>2, <2>1, AppendProperties
  <2>3. word.class # 1 /\ word.class # 2
    OBVIOUS
  <2> HIDE DEF word
  <2>4. chan # <<>> => Len(chan) >= 1
    BY <2>2, EmptySeq
  <2>5. chan = <<>> => Len(chan) = 0
    BY EmptySeq
  <2>6. QED  BY <2>2, <2>3, <2>4, <2>5 DEF First
<1>3. QED  BY <1>1, <1>2 DEF First

(* The next reply, and the one behind it. *)
LEMMA Second ==
  ASSUME chan \in Seq(Reply), chan # <<>>, chan' = Tail(chan)
  PROVE  /\ Head(chan) = chan[1]
         /\ First(2)' => Len(chan) >= 2 /\ chan[2].class = 2
<1>1. /\ Tail(chan) \in Seq(Reply) /\ Len(chan) \in Nat \ {0} /\ Len(Tail(chan)) = Len(chan) - 1
      /\ \A i \in 1..Len(Tail(chan)) : Tail(chan)[i] = chan[i + 1] /\ i + 1 \in 1..Len(chan)
      /\ Head(chan) = chan[1]
  BY TailFacts
<1>2. ASSUME First(2)'  PROVE Len(chan) >= 2 /\ chan[2].class = 2
  <2>1. Tail(chan) # <<>> /\ Tail(chan)[1].class = 2
    BY <1>2 DEF First
  <2>2. Len(Tail(chan)) >= 1
    <3>1. Len(Tail(chan)) # 0
      BY <1>1, <2>1, EmptySeq
    <3>2. QED  BY <1>1, <3>1
  <2>3. 1 \in 1..Len(Tail(chan)) /\ 1 + 1 = 2
    BY <1>1, <2>2
  <2>4. Tail(chan)[1] = chan[2]
    BY <1>1, <2>3
  <2>5. QED  BY <1>1, <2>1, <2>2, <2>4
<1>3. QED  BY <1>1, <1>2

LEMMA EmptyStep ==
  ASSUME Setting, [Next]_vars
  PROVE  Empty'
<1> USE DEF result, client, control, login, transfer, data
<1>0. Empty /\ Scene
  BY DEF Setting, CountInv
<1>1. CASE Opens
  BY <1>1 DEF Opens, Empty
<1>2. CASE ServesLogin \/ Does \/ Refuses \/ ServesQuit \/ OpensTransfer \/ RefusesTransfer \/ Waited \/ Drops
  <2>1. (inbox' # <<>> => inbox # <<>> /\ UNCHANGED data) /\ UNCHANGED client
    BY <1>2 DEF ServesLogin, Does, Refuses, ServesQuit, OpensTransfer, RefusesTransfer, Waited, Drops, Serves
  <2>2. QED  BY <1>0, <2>1 DEF Empty
<1>3. CASE Streams \/ Completes \/ Aborts
  <2>1. serving # NoCommand /\ UNCHANGED <<client, inbox>>
    BY <1>3 DEF Streams, Completes, Aborts, Finishes, NoCommand
  <2>2. ~behind /\ pc = "answer" => inbox = <<>>
    BY <1>0, <2>1, ServingNow DEF Started
  <2>3. QED  BY <2>1, <2>2 DEF Empty
<1>4. CASE SendFails \/ Reads
  <2>1. (pc = "send" /\ Fails) \/ (pc = "read" /\ (Succeeds \/ Fails))
    BY <1>4 DEF SendFails, Reads
  <2>2. UNCHANGED <<call, offset>>
    BY <1>4 DEF SendFails, Reads
  <2>3. pc' # "answer"
    BY <1>0, <2>1, <2>2, Ends DEF Scene
  <2>4. QED  BY <2>3 DEF Empty
<1>5. CASE \/ Connects \/ (\E c \in Calls : Begins(c)) \/ Sends \/ SocketFails \/ OpenFails \/ Answered
           \/ NotOpened \/ Gets \/ Puts \/ PutBreaks \/ DataEnds \/ Shuts \/ Last
  <2>1. pc' # "answer"
    <3>1. CASE Connects
      BY <3>1, Zenon DEF Connects, Closes
    <3>2. CASE ~Connects
      BY <1>5, <3>2 DEF Begins, Sends, SocketFails, OpenFails, Answered, NotOpened, Gets, Puts, PutBreaks,
                        DataEnds, Shuts, Last, Closed, Returns
    <3>3. QED  BY <3>1, <3>2
  <2>2. QED  BY <2>1 DEF Empty
<1>6. CASE UNCHANGED vars
  BY <1>0, <1>6 DEF vars, Empty
<1>7. QED
  BY <1>1, <1>2, <1>3, <1>4, <1>5, <1>6 DEF Next, ClientStep, ServerStep

(* The values a count may have. *)
LEMMA CountTypes ==
  ASSUME Scene
  PROVE  /\ moved \in Nat /\ dpipe \in Nat /\ from \in Nat /\ pos \in Nat /\ Blocks \in Nat /\ offset \in Nat
         /\ Wants \in Nat /\ behind \in BOOLEAN
         /\ pc \in {"closed", "idle", "send", "read", "connect", "answer", "data", "shut", "last", "wild"}
         /\ dconn \in {"none", "open", "dead", "shut"} /\ dend \in {"open", "eof", "cut"}
BY FtpControlAssumption DEF Scene, TypeInv, TypeOK, Wants

LEMMA CountedStep ==
  ASSUME Setting, [Next]_vars
  PROVE  Counted'
<1> USE DEF result, client, control, login, transfer, data
<1>0. /\ Counted /\ Empty /\ Scene /\ Linked /\ Sent /\ Marked /\ DataOpen /\ (~behind => Shape)
      /\ moved \in Nat /\ dpipe \in Nat /\ from \in Nat /\ pos \in Nat /\ Blocks \in Nat
  BY CountTypes DEF Setting, CountInv, Scene, LateInv, SettingInv, StepInv
<1>k. pc \in Moving => call.name \in Transfers /\ Head(todo) = Verb /\ Verb \in Opened
                       /\ (call.name = "Put" <=> Verb = "STOR")
  BY <1>0, MovingVerb DEF Scene, Verb
<1>t. serving # NoCommand /\ ~behind /\ pc \in Moving => (pc = "answer" /\ Started) \/ pc \in {"data", "shut", "last"}
  BY <1>0, ServingNow DEF Moving
<1>1. CASE Connects
  BY <1>1 DEF Connects, Counted
<1>2. CASE \E c \in Calls : Begins(c)
  BY <1>2 DEF Begins, Counted, Moving
<1>3. CASE Sends
  <2>1. UNCHANGED behind
    BY <1>3 DEF Sends
  <2>2. ~behind => serving' = NoCommand
    BY <1>0, <1>3, SendsShape
  <2>3. QED  BY <2>1, <2>2 DEF Counted
<1>4. CASE SendFails \/ Reads
  <2>1. (pc = "send" /\ Fails) \/ (pc = "read" /\ (Succeeds \/ Fails))
    BY <1>4 DEF SendFails, Reads
  <2>2. UNCHANGED <<call, offset>>
    BY <1>4 DEF SendFails, Reads
  <2>3. pc' \notin Moving
    BY <1>0, <2>1, <2>2, Ends DEF Scene, Moving
  <2>4. QED  BY <2>3 DEF Counted
<1>5. CASE Opens
  <2>1. pc = "connect" /\ UNCHANGED <<serving, behind>>
    BY <1>5 DEF Opens
  <2>2. ~behind => serving = NoCommand
    BY <1>0, <2>1 DEF Shape, Asked, Refused, Replied
  <2>3. QED  BY <2>1, <2>2 DEF Counted
<1>6. CASE SocketFails \/ OpenFails \/ NotOpened \/ Last
  <2>1. pc' \notin Moving
    BY <1>6 DEF SocketFails, OpenFails, NotOpened, Last, Closed, Returns, Moving
  <2>2. QED  BY <2>1 DEF Counted
<1>7. CASE Answered
  <2>1. /\ pc = "answer" /\ UNCHANGED <<call, stale, moved, behind, transfer, dpipe, dend>>
        /\ pc' \in {"data", "idle"}
    BY <1>7 DEF Answered, Returns
  <2>2. QED  BY <1>0, <2>1 DEF Counted, Verb, Moving
<1>8. CASE Gets
  <2>1. /\ pc = "data" /\ pc' \in {"data", "shut"} /\ UNCHANGED <<call, stale, behind, transfer, dend>>
        /\ dpipe' = dpipe - 1 /\ moved' = moved + 1 /\ call.name # "Put"
    BY <1>8 DEF Gets, Readers
  <2>2. QED  BY <1>0, <2>1 DEF Counted, Verb, Moving
<1>9. CASE Puts
  <2>1. /\ pc = "data" /\ pc' = "data" /\ UNCHANGED <<call, stale, behind, transfer, dend>>
        /\ dpipe' = dpipe + 1 /\ moved' = moved + 1 /\ call.name \notin Readers
    BY <1>9 DEF Puts, Readers
  <2>2. QED  BY <1>0, <2>1 DEF Counted, Verb, Moving
<1>10. CASE DataEnds \/ PutBreaks
  <2>1. /\ pc = "data" /\ pc' = "shut" /\ UNCHANGED <<call, stale, behind, moved, transfer, dpipe, dend>>
        /\ call.name = "Put" => moved = Blocks \/ dend # "open" \/ broke'
    BY <1>10 DEF DataEnds, PutBreaks, Wants, Readers
  <2>2. QED  BY <1>0, <2>1 DEF Counted, Verb, Moving
<1>11. CASE Shuts
  BY <1>0, <1>11 DEF Shuts, Counted, Verb, Moving
<1>12. CASE ServesLogin \/ Does \/ Refuses \/ ServesQuit \/ RefusesTransfer \/ Waited
  <2>1. UNCHANGED <<client, transfer, data>>
    BY <1>12 DEF ServesLogin, Does, Refuses, ServesQuit, RefusesTransfer, Waited
  <2>2. QED  BY <1>0, <2>1 DEF Counted, Verb
<1>13. CASE OpensTransfer
  <2>1. /\ inbox # <<>> /\ Head(inbox).cmd \in Opened /\ UNCHANGED <<client, data>> /\ dconn = "open"
        /\ serving' = Head(inbox) /\ Answers(1) /\ up
        /\ Head(inbox).cmd # "STOR" => pos' = from'
        /\ Head(inbox).cmd = "STOR" => pos' = 0 /\ from' = marker
    BY <1>13 DEF OpensTransfer, Serves, Opened
  <2>2. from' \in Nat
    BY <1>0, <1>13 DEF OpensTransfer, Scene, TypeInv, TypeOK
  <2>3. SUFFICES ASSUME ~behind, pc \in Moving
        PROVE  /\ Head(inbox).cmd = Verb /\ dend = "open"
               /\ call.name \in Readers /\ pc \in {"answer", "data"} => moved + dpipe + from' = pos'
               /\ call.name = "Put" =>
                    /\ pos' + dpipe = moved
                    /\ pc \in {"shut", "last"} => moved = Blocks \/ broke
                    /\ from' = 0 \/ stale
    BY <2>1 DEF Counted, Verb
  <2>4. pc = "answer" /\ Head(inbox).cmd = Verb
    <3>1. Opened \subseteq Commands /\ Moving \cap {"closed", "wild"} = {}
      BY DEF Opened, Commands, Moving
    <3>2. pc \in {"read", "connect", "answer"} /\ Head(inbox).cmd = Head(todo)
      BY <1>0, <2>1, <2>3, <3>1, ServedNow DEF Answers
    <3>3. QED  BY <1>0, <1>k, <2>1, <2>3, <3>2 DEF DataOpen, Moving
  <2>5. dpipe = 0 /\ dend = "open" /\ moved = 0
    BY <1>0, <2>1, <2>3, <2>4 DEF Empty, Scene, ScriptInv, Aimed, Underway
  <2>6. call.name = "Put" => pos' = 0 /\ (from' = 0 \/ stale)
    <3>1. SUFFICES ASSUME call.name = "Put"  PROVE pos' = 0 /\ (from' = 0 \/ stale)
      OBVIOUS
    <3>2. pos' = 0 /\ from' = marker
      BY <1>k, <2>1, <2>3, <2>4, <3>1
    <3>3. offset = 0
      <4>1. offset = call.at
        BY <2>3, <2>4, <3>1, <1>0 DEF Scene, ScriptInv, Aimed, Underway
      <4>2. call.at = 0
        BY <1>0, <3>1, FtpControlAssumption DEF Scene, TypeInv, TypeOK, Connect
      <4>3. QED  BY <4>1, <4>2
    <3>4. marker = 0 \/ stale
      BY <1>0, <2>1, <2>3, <2>4, <3>3 DEF Marked, Pending, Underway
    <3>5. QED  BY <3>2, <3>4
  <2>7. /\ call.name \in Readers => moved + dpipe + from' = pos'
        /\ call.name = "Put" => pos' + dpipe = moved
    <3>1. call.name \in Readers => pos' = from'
      <4>1. call.name \in Readers => Verb # "STOR"
        BY DEF Readers, Verb
      <4>2. QED  BY <2>1, <2>4, <4>1
    <3>2. moved + dpipe + from' = from'
      <4>1. moved = 0 /\ dpipe = 0
        BY <2>5
      <4>2. \A n \in Nat : 0 + 0 + n = n
        OBVIOUS
      <4>3. QED  BY <2>2, <4>1, <4>2, Zenon
    <3>3. 0 + dpipe = moved
      BY <2>5
    <3>4. QED  BY <2>6, <3>1, <3>2, <3>3
  <2>8. QED  BY <2>4, <2>5, <2>6, <2>7
<1>14. CASE Streams
  <2>1. SUFFICES ASSUME ~behind, pc \in Moving  PROVE Counted'
    BY <1>14 DEF Streams, Counted
  <2>2. serving # NoCommand /\ UNCHANGED <<client, serving, from, dend>> /\ pos' = pos + 1
    BY <1>14 DEF Streams, NoCommand
  <2>3. serving.cmd = Verb
    BY <1>0, <2>1, <2>2 DEF Counted
  <2>4. \/ call.name # "Put" /\ dpipe' = dpipe + 1
        \/ call.name = "Put" /\ dpipe' = dpipe - 1
    BY <1>14, <1>k, <2>1, <2>3 DEF Streams
  <2>5. call.name = "Put" => call.name \notin Readers
    BY DEF Readers
  <2>6. QED  BY <1>0, <2>1, <2>2, <2>4, <2>5 DEF Counted, Verb
<1>15. CASE Completes \/ Aborts \/ Drops
  <2>1. serving' = NoCommand
    BY <1>15 DEF Completes, Aborts, Drops, Finishes
  <2>2. QED  BY <2>1 DEF Counted
<1>16. CASE UNCHANGED vars
  BY <1>0, <1>16 DEF vars, Counted, Verb
<1>17. QED
  BY <1>1, <1>2, <1>3, <1>4, <1>5, <1>6, <1>7, <1>8, <1>9, <1>10, <1>11, <1>12, <1>13, <1>14, <1>15, <1>16
     DEF Next, ClientStep, ServerStep

LEMMA ConfirmedStep ==
  ASSUME Setting, [Next]_vars
  PROVE  Confirmed'
<1> USE DEF result, client, control, login, transfer, data
<1>0. /\ Confirmed /\ Counted /\ Scene /\ Linked /\ Sent /\ DataOpen /\ (~behind => Shape)
      /\ moved \in Nat /\ dpipe \in Nat /\ pos \in Nat /\ Blocks \in Nat /\ chan \in Seq(Reply)
      /\ pc \in {"closed", "idle", "send", "read", "connect", "answer", "data", "shut", "last", "wild"}
  BY CountTypes, TypeFacts DEF Setting, CountInv, Scene, LateInv, SettingInv, StepInv
<1>k. ASSUME UNCHANGED <<call, stale, behind, done, dend>>, broke => broke', Final' => Final  PROVE Confirmed'
  BY <1>0, <1>k DEF Confirmed
<1>f. ASSUME pc' \notin {"answer", "data", "shut", "last"}  PROVE Confirmed'
  BY <1>f DEF Confirmed, Final
<1>1. CASE SendFails \/ Reads
  <2>1. (pc = "send" /\ Fails) \/ (pc = "read" /\ (Succeeds \/ Fails))
    BY <1>1 DEF SendFails, Reads
  <2>2. UNCHANGED <<call, offset>>
    BY <1>1 DEF SendFails, Reads
  <2>3. pc' \notin {"answer", "data", "shut", "last"}
    BY <1>0, <2>1, <2>2, Ends DEF Scene
  <2>4. QED  BY <1>f, <2>3
<1>2. CASE Connects \/ (\E c \in Calls : Begins(c)) \/ Sends \/ SocketFails \/ OpenFails \/ NotOpened \/ Last
  <2>1. pc' \notin {"answer", "data", "shut", "last"}
    <3>1. CASE Connects
      BY <3>1, Zenon DEF Connects, Closes
    <3>2. CASE ~Connects
      BY <1>2, <3>2 DEF Begins, Sends, SocketFails, OpenFails, NotOpened, Last, Closed, Returns
    <3>3. QED  BY <3>1, <3>2
  <2>2. QED  BY <1>f, <2>1
<1>3. CASE Opens
  <2>1. pc = "connect" /\ pc' = "answer" /\ UNCHANGED <<behind, chan>>
    BY <1>3 DEF Opens
  <2>2. ~behind => ~First(1)
    BY <1>0, <2>1 DEF Shape, Asked, Refused, First
  <2>3. QED  BY <2>1, <2>2 DEF Confirmed, Final, First
<1>4. CASE Answered
  <2>1. /\ pc = "answer" /\ UNCHANGED <<call, stale, broke, behind, done, dend>>
        /\ \/ pc' = "data" /\ Takes /\ Head(chan).class = 1
           \/ pc' = "idle"
    BY <1>4 DEF Answered, Returns
  <2>2. ASSUME pc' = "data", Final'  PROVE Final
    <3>1. chan # <<>> /\ chan' = Tail(chan) /\ Head(chan).class = 1 /\ First(2)'
      BY <2>1, <2>2 DEF Takes, Final
    <3>2. QED  BY <1>0, <2>1, <3>1, Second DEF Final, First
  <2>3. QED  BY <1>f, <1>k, <2>1, <2>2
<1>5. CASE Gets \/ Puts \/ PutBreaks \/ DataEnds \/ Shuts
  <2>1. /\ UNCHANGED <<call, stale, behind, done, dend, chan>> /\ pc \in {"data", "shut"}
        /\ pc' \in {"data", "shut", "last"} /\ (broke' = broke \/ broke')
    BY <1>5 DEF Gets, Puts, PutBreaks, DataEnds, Shuts
  <2>2. Final' => Final
    BY <2>1 DEF Final, First
  <2>3. QED  BY <1>k, <2>1, <2>2
<1>6. CASE ServesLogin \/ Does \/ Refuses \/ ServesQuit
  <2>1. inbox # <<>> /\ Head(inbox).cmd \notin Opened /\ UNCHANGED client
    BY <1>6 DEF ServesLogin, Does, Refuses, ServesQuit, Serves, Orders, Opened
  <2>2. ~behind => pc \notin Moving
    BY <1>0, <2>1, NoOther
  <2>3. QED  BY <2>1, <2>2 DEF Confirmed, Final, Moving
<1>7. CASE OpensTransfer \/ RefusesTransfer
  <2>1. PICK class \in {1, 5} : Answers(class)
    BY <1>7 DEF OpensTransfer, RefusesTransfer
  <2>2. inbox # <<>> /\ Head(inbox).cmd \in Commands /\ UNCHANGED client
    BY <1>7 DEF OpensTransfer, RefusesTransfer, Serves, Commands
  <2>3. ASSUME ~behind, pc \in {"answer", "data", "shut", "last"}  PROVE ~Final'
    <3>1. class \in 1..5 /\ pc \notin {"closed", "wild"}
      BY <2>3
    <3>2. pc = "answer" /\ Len(chan') = 1
      BY <1>0, <2>1, <2>2, <2>3, <3>1, ServedNow DEF Answers
    <3>3. QED  BY <2>2, <3>2 DEF Final
  <2>4. QED  BY <2>2, <2>3 DEF Confirmed, Final
<1>8. CASE Waited
  <2>1. inbox # <<>> /\ Head(inbox).cmd \in Opened /\ UNCHANGED client
    BY <1>8 DEF Waited, Serves, Opened
  <2>2. PICK first \in {<<>>, <<ReplyTo(Head(inbox), 1)>>} : chan' = chan \o first \o <<ReplyTo(Head(inbox), 4)>>
    BY <1>8 DEF Waited
  <2>3. ASSUME ~behind, pc \in {"answer", "data", "shut", "last"}  PROVE ~Final'
    <3>1. pc = "answer" /\ chan = <<>>
      BY <1>0, <2>1, <2>3, ServedShape DEF Scene, StepInv, Asked
    <3>2. CASE first = <<>>
      <4>1. chan' = <<ReplyTo(Head(inbox), 4)>>
        BY <2>2, <3>1, <3>2
      <4>2. Len(chan') = 1
        BY <4>1
      <4>3. QED  BY <2>1, <3>1, <4>2 DEF Final
    <3>3. CASE first = <<ReplyTo(Head(inbox), 1)>>
      <4>1. chan' = <<ReplyTo(Head(inbox), 1), ReplyTo(Head(inbox), 4)>>
        <5>1. <<>> \o <<ReplyTo(Head(inbox), 1)>> \o <<ReplyTo(Head(inbox), 4)>>
                = <<ReplyTo(Head(inbox), 1), ReplyTo(Head(inbox), 4)>>
          BY JoinOne
        <5>2. QED  BY <2>2, <3>1, <3>3, <5>1, Zenon
      <4>2. chan'[2] = ReplyTo(Head(inbox), 4)
        BY <4>1
      <4>3. chan'[2].class = 4
        BY <4>2 DEF ReplyTo
      <4>4. QED  BY <2>1, <3>1, <4>3 DEF Final
    <3>4. QED  BY <2>2, <3>2, <3>3
  <2>4. QED  BY <2>1, <2>3 DEF Confirmed, Final
<1>9. CASE Streams
  <2>1. UNCHANGED <<client, chan, done, dend>>
    BY <1>9 DEF Streams
  <2>2. QED  BY <1>k, <2>1 DEF Final, First
<1>10. CASE Aborts
  <2>1. serving # NoCommand /\ UNCHANGED client /\ chan' = Append(chan, ReplyTo(serving, 4))
    BY <1>10 DEF Aborts, Finishes
  <2>2. ASSUME ~behind, pc \in {"answer", "data", "shut", "last"}  PROVE ~Final'
    <3>1. ReplyTo(serving, 4) \in Reply /\ ReplyTo(serving, 4).class = 4
      BY <1>0, TypeFacts DEF Scene, ReplyTo, Reply, Command
    <3>2. /\ Len(chan) \in Nat /\ Len(chan') = Len(chan) + 1 /\ chan'[Len(chan) + 1].class = 4
      BY <1>0, <2>1, <3>1, AppendProperties
    <3>3. \/ pc = "answer" /\ Len(chan) = 1
          \/ pc # "answer" /\ Len(chan) = 0
      <4>1. \/ pc = "answer" /\ Started
            \/ pc \in {"data", "shut", "last"} /\ Running
        BY <1>0, <2>1, <2>2, ServingNow
      <4>2. QED  BY <2>1, <4>1, EmptySeq DEF Started, Running
    <3>4. CASE pc = "answer"
      <4>1. chan'[2].class = 4
        <5>1. Len(chan) = 1
          BY <3>3, <3>4, Zenon
        <5>2. 1 + 1 = 2
          OBVIOUS
        <5>3. QED  BY <3>2, <5>1, <5>2, Zenon
      <4>2. QED  BY <2>1, <3>4, <4>1 DEF Final
    <3>5. CASE pc # "answer"
      <4>1. chan'[1].class = 4
        BY <3>2, <3>3, <3>5
      <4>2. QED  BY <2>1, <3>5, <4>1 DEF Final, First
    <3>6. QED  BY <3>4, <3>5
  <2>3. QED  BY <2>1, <2>2 DEF Confirmed, Final
<1>11. CASE Completes
  <2>1. serving # NoCommand /\ UNCHANGED client /\ (dconn # "dead" => dend' = "eof")
    BY <1>11 DEF Completes, Finishes, NoCommand
  <2>d. ~behind /\ pc \in {"answer", "data", "shut", "last"} => dconn # "dead"
    BY <1>0, <2>1 DEF Linked
  <2>2. SUFFICES ASSUME ~behind, pc \in {"answer", "data", "shut", "last"}, call.name = "Put", ~broke, ~stale
                 PROVE  done'
    BY <2>1, <2>d DEF Confirmed, Final
  <2>3. /\ serving.cmd = "STOR" /\ pos + dpipe = moved /\ (pc \in {"shut", "last"} => moved = Blocks)
        /\ from = 0
    BY <1>0, <2>1, <2>2 DEF Counted, Moving, Verb
  <2>4. dconn = "shut" /\ dpipe = 0 /\ done' = (done \/ (serving.fresh /\ from = 0 /\ pos = Blocks))
    BY <1>11, <2>3 DEF Completes
  <2>5. serving.fresh
    BY <1>0, <2>1, <2>2, ServingNow DEF Started, Running
  <2>6. pc = "last"
    BY <1>0, <2>1, <2>2, <2>4 DEF Linked
  <2>7. pos = Blocks
    BY <1>0, <2>3, <2>4, <2>6
  <2>8. QED  BY <2>3, <2>4, <2>5, <2>7, Zenon
<1>12. CASE Drops
  <2>1. /\ UNCHANGED <<client, done>> /\ (dend = "eof" => dend' = "eof")
        /\ chan' \in {chan, Append(chan, [of |-> "none", class |-> 4, fresh |-> FALSE])}
    BY <1>12 DEF Drops
  <2>2. Final' => Final
    BY <1>0, <2>1, LastWord DEF Final
  <2>3. QED  BY <1>0, <2>1, <2>2 DEF Confirmed
<1>13. CASE UNCHANGED vars
  <2>1. UNCHANGED <<client, chan, done, dend>>
    BY <1>13 DEF vars
  <2>2. QED  BY <1>k, <2>1 DEF Final, First
<1>14. QED
  BY <1>1, <1>2, <1>3, <1>4, <1>5, <1>6, <1>7, <1>8, <1>9, <1>10, <1>11, <1>12, <1>13
     DEF Next, ClientStep, ServerStep

LEMMA DrainedStep ==
  ASSUME Setting, [Next]_vars
  PROVE  Drained'
<1> USE DEF result, client, control, login, transfer, data
<1>0. /\ Drained /\ Counted /\ Empty /\ Scene /\ Linked /\ Sent /\ DataOpen
      /\ moved \in Nat /\ dpipe \in Nat /\ from \in Nat /\ pos \in Nat /\ Blocks \in Nat
  BY CountTypes DEF Setting, CountInv, Scene, LateInv, SettingInv, StepInv
<1>f. ASSUME ~behind' => pc' \notin {"answer", "data"} \/ dconn' # "open" \/ dend' # "eof" \/ call'.name \notin Readers
      PROVE  Drained'
  BY <1>f DEF Drained
<1>1. CASE SendFails \/ Reads
  <2>1. (pc = "send" /\ Fails) \/ (pc = "read" /\ (Succeeds \/ Fails))
    BY <1>1 DEF SendFails, Reads
  <2>2. UNCHANGED <<call, offset>>
    BY <1>1 DEF SendFails, Reads
  <2>3. pc' \notin {"answer", "data"}
    BY <1>0, <2>1, <2>2, Ends DEF Scene
  <2>4. QED  BY <1>f, <2>3
<1>2. CASE Connects
  BY <1>2 DEF Connects, Drained
<1>3. CASE \/ (\E c \in Calls : Begins(c)) \/ Sends \/ SocketFails \/ OpenFails \/ NotOpened \/ PutBreaks
           \/ DataEnds \/ Shuts \/ Last
  <2>1. pc' \notin {"answer", "data"}
    BY <1>3 DEF Begins, Sends, SocketFails, OpenFails, NotOpened, PutBreaks, DataEnds, Shuts, Last, Closed, Returns
  <2>2. QED  BY <1>f, <2>1
<1>4. CASE Opens
  <2>1. dconn' = "open" => dend' = "open"
    BY <1>4 DEF Opens
  <2>2. QED  BY <1>f, <2>1
<1>5. CASE Answered
  <2>1. /\ pc = "answer" /\ UNCHANGED <<call, behind, moved, dpipe, from, dend>>
        /\ \/ pc' = "data" /\ dconn' = dconn
           \/ pc' = "idle"
    BY <1>5 DEF Answered, Returns
  <2>2. QED  BY <1>0, <2>1 DEF Drained
<1>6. CASE Gets
  <2>1. /\ pc = "data" /\ UNCHANGED <<call, behind, from, dend, dconn>>
        /\ moved' = moved + 1 /\ dpipe' = dpipe - 1
    BY <1>6 DEF Gets
  <2>2. QED  BY <1>0, <2>1 DEF Drained
<1>7. CASE Puts
  <2>1. call'.name \notin Readers
    BY <1>7 DEF Puts, Readers
  <2>2. QED  BY <1>f, <2>1
<1>8. CASE ServesLogin \/ Does \/ Refuses \/ ServesQuit \/ RefusesTransfer \/ Waited
  <2>1. UNCHANGED <<client, transfer, data>>
    BY <1>8 DEF ServesLogin, Does, Refuses, ServesQuit, RefusesTransfer, Waited
  <2>2. QED  BY <1>0, <2>1 DEF Drained
<1>9. CASE OpensTransfer
  <2>1. inbox # <<>> /\ dconn = "open" /\ UNCHANGED <<client, data>> /\ Head(inbox).cmd \in Opened /\ Answers(1)
    BY <1>9 DEF OpensTransfer, Serves, Opened
  <2>2. ASSUME ~behind, pc \in {"answer", "data"}  PROVE dend = "open"
    <3>1. Opened \subseteq Commands /\ pc \notin {"closed", "wild"}
      BY <2>2 DEF Opened, Commands
    <3>2. pc \in {"read", "connect", "answer"}
      BY <1>0, <2>1, <2>2, <3>1, ServedNow DEF Answers
    <3>3. QED  BY <1>0, <2>1, <2>2, <3>2 DEF Empty
  <2>3. QED  BY <1>f, <2>1, <2>2
<1>10. CASE Streams \/ Aborts
  <2>1. /\ UNCHANGED client /\ serving # NoCommand
        /\ dend' = dend \/ dend' = "cut"
    BY <1>10 DEF Streams, Aborts, Finishes, NoCommand
  <2>2. ~behind /\ pc \in {"answer", "data"} => dend = "open"
    BY <1>0, <2>1 DEF Counted, Moving
  <2>3. QED  BY <1>f, <2>1, <2>2
<1>11. CASE Completes
  <2>1. /\ UNCHANGED <<client, from, dpipe, dconn>> /\ serving # NoCommand
        /\ serving.cmd # "STOR" => pos = Blocks
    <3>1. UNCHANGED <<client, from, dconn, dpipe>>
      BY <1>11, Zenon DEF Completes, Finishes
    <3>2. serving # NoCommand /\ (serving.cmd # "STOR" => pos = Blocks)
      BY <1>11 DEF Completes, NoCommand
    <3>3. QED  BY <3>1, <3>2
  <2>2. ASSUME ~behind, pc \in {"answer", "data"}, call.name \in Readers  PROVE moved + dpipe + from = Blocks
    <3>1. serving.cmd = Verb /\ moved + dpipe + from = pos
      BY <1>0, <2>1, <2>2 DEF Counted, Moving
    <3>2. Verb # "STOR"
      BY <2>2 DEF Verb, Readers
    <3>3. QED  BY <2>1, <3>1, <3>2
  <2>3. QED  BY <2>1, <2>2 DEF Drained
<1>12. CASE Drops
  <2>1. /\ UNCHANGED <<client, from, dconn>>
        /\ \/ UNCHANGED <<dpipe, dend>>
           \/ dend' = "cut"
    BY <1>12 DEF Drops
  <2>2. QED  BY <1>0, <2>1 DEF Drained
<1>13. CASE UNCHANGED vars
  BY <1>0, <1>13 DEF vars, Drained
<1>14. QED
  BY <1>1, <1>2, <1>3, <1>4, <1>5, <1>6, <1>7, <1>8, <1>9, <1>10, <1>11, <1>12, <1>13
     DEF Next, ClientStep, ServerStep

LEMMA GotAllStep ==
  ASSUME Setting, [Next]_vars
  PROVE  GotAll'
<1> USE DEF result, client, control, login, transfer, data
<1>0. /\ GotAll /\ Drained /\ Counted /\ Begun /\ Scene /\ Dead
      /\ moved \in Nat /\ dpipe \in Nat /\ Blocks \in Nat /\ dend \in {"open", "eof", "cut"}
  BY CountTypes DEF Setting, CountInv, Scene, LateInv, SettingInv
<1>f. ASSUME pc' \notin {"shut", "last"}  PROVE GotAll'
  BY <1>f DEF GotAll
<1>1. CASE SendFails \/ Reads
  <2>1. (pc = "send" /\ Fails) \/ (pc = "read" /\ (Succeeds \/ Fails))
    BY <1>1 DEF SendFails, Reads
  <2>2. UNCHANGED <<call, offset>>
    BY <1>1 DEF SendFails, Reads
  <2>3. pc' \notin {"shut", "last"}
    BY <1>0, <2>1, <2>2, Ends DEF Scene
  <2>4. QED  BY <1>f, <2>3
<1>2. CASE Connects
  BY <1>2 DEF Connects, Connect, GotAll
<1>3. CASE \/ (\E c \in Calls : Begins(c)) \/ Sends \/ SocketFails \/ Opens \/ OpenFails \/ Answered
           \/ NotOpened \/ Puts \/ Last
  <2>1. pc' \notin {"shut", "last"}
    BY <1>3 DEF Begins, Sends, SocketFails, Opens, OpenFails, Answered, NotOpened, Puts, Last, Closed, Returns
  <2>2. QED  BY <1>f, <2>1
<1>4. CASE Gets \/ PutBreaks
  <2>1. pc' = "data" \/ (pc' = "shut" /\ broke' = TRUE)
    BY <1>4 DEF Gets, PutBreaks
  <2>2. QED  BY <2>1 DEF GotAll
<1>5. CASE DataEnds
  <2>1. /\ pc = "data" /\ UNCHANGED <<call, stale, broke, moved, dend, behind>>
        /\ call.name = "Get" => dpipe = 0 /\ dend # "open"
    BY <1>5 DEF DataEnds
  <2>2. SUFFICES ASSUME ~behind, call.name = "Get", dend = "eof", ~stale  PROVE moved = Blocks
    BY <2>1 DEF GotAll
  <2>3. dconn = "open"
    BY <1>0, <2>1, <2>2 DEF Dead
  <2>4. moved + dpipe + from = Blocks
    BY <1>0, <2>1, <2>2, <2>3 DEF Drained, Readers
  <2>5. from = 0
    <3>1. from = offset /\ offset = call.at
      BY <1>0, <2>1, <2>2, <2>3 DEF Begun, Misled, Scene, ScriptInv, Aimed, Underway
    <3>2. call.at = 0
      BY <1>0, <2>2, FtpControlAssumption DEF Scene, TypeInv, TypeOK, Connect
    <3>3. QED  BY <3>1, <3>2
  <2>6. QED  BY <1>0, <2>1, <2>2, <2>4, <2>5
<1>6. CASE Shuts
  BY <1>0, <1>6 DEF Shuts, GotAll
<1>7. CASE ServesLogin \/ Does \/ Refuses \/ ServesQuit \/ RefusesTransfer \/ Waited \/ OpensTransfer \/ Streams
  <2>1. UNCHANGED <<client, dend>>
    BY <1>7 DEF ServesLogin, Does, Refuses, ServesQuit, RefusesTransfer, Waited, OpensTransfer, Streams
  <2>2. QED  BY <1>0, <2>1 DEF GotAll
<1>8. CASE Completes \/ Aborts
  <2>1. UNCHANGED client /\ serving # NoCommand
    BY <1>8 DEF Completes, Aborts, Finishes, NoCommand
  <2>2. ~behind /\ pc \in {"shut", "last"} => dend = "open"
    BY <1>0, <2>1 DEF Counted, Moving
  <2>3. QED  BY <1>0, <2>1, <2>2 DEF GotAll
<1>9. CASE Drops
  <2>1. UNCHANGED client /\ (dend' = dend \/ dend' = "cut")
    BY <1>9 DEF Drops
  <2>2. QED  BY <1>0, <2>1 DEF GotAll
<1>10. CASE UNCHANGED vars
  BY <1>0, <1>10 DEF vars, GotAll
<1>11. QED
  BY <1>1, <1>2, <1>3, <1>4, <1>5, <1>6, <1>7, <1>8, <1>9, <1>10 DEF Next, ClientStep, ServerStep

LEMMA CarriedStep ==
  ASSUME Setting, [Next]_vars
  PROVE  Carried'
<1> USE DEF result, client, control, login, transfer, data
<1>0. Carried /\ Scene /\ Sent /\ chan \in Seq(Reply)
  BY TypeFacts DEF Setting, CountInv, Scene, SettingInv
<1>1. CASE Connects
  <2>1. CASE Closes(0)
    BY <2>1 DEF Closes, Carried
  <2>2. CASE ~Closes(0)
    <3>1. chan' = <<>>
      BY <1>1, <2>2, Zenon DEF Connects
    <3>2. QED  BY <3>1 DEF Carried, First
  <2>3. QED  BY <2>1, <2>2
<1>2. CASE Sends
  <2>1. UNCHANGED behind /\ (~behind => chan' = <<>>)
    <3>1. UNCHANGED behind
      BY <1>2 DEF Sends
    <3>2. QED  BY <1>0, <1>2, <3>1, SendsShape
  <2>2. QED  BY <2>1 DEF Carried, First
<1>3. CASE SendFails \/ Reads
  <2>1. (pc = "send" /\ Fails) \/ (pc = "read" /\ (Succeeds \/ Fails))
    BY <1>3 DEF SendFails, Reads
  <2>2. UNCHANGED <<call, offset>>
    BY <1>3 DEF SendFails, Reads
  <2>3. pc' # "read"
    BY <1>0, <2>1, <2>2, Ends DEF Scene
  <2>4. QED  BY <2>3 DEF Carried
<1>4. CASE \/ (\E c \in Calls : Begins(c)) \/ SocketFails \/ Opens \/ OpenFails \/ Answered \/ NotOpened
           \/ Gets \/ Puts \/ PutBreaks \/ DataEnds \/ Shuts \/ Last
  <2>1. pc' # "read"
    BY <1>4 DEF Begins, SocketFails, Opens, OpenFails, Answered, NotOpened, Gets, Puts, PutBreaks, DataEnds, Shuts,
                Last, Closed, Returns
  <2>2. QED  BY <2>1 DEF Carried
<1>5. CASE Does
  <2>1. PICK class \in {2, 3} : Answers(class)
    BY <1>5 DEF Does
  <2>2. /\ inbox # <<>> /\ Head(inbox).cmd \in Commands /\ UNCHANGED client
        /\ done' = (done \/ (~behind /\ Head(inbox).fresh /\ Head(inbox).cmd \in Orders))
    BY <1>5 DEF Does, Serves, Commands, Orders
  <2>3. SUFFICES ASSUME ~behind, pc = "read", Head(todo) \in Orders  PROVE done'
    BY <2>2 DEF Carried
  <2>4. Head(inbox).cmd = Head(todo) /\ Head(inbox).fresh
    <3>1. class \in 1..5 /\ pc \notin {"closed", "wild"}
      BY <2>3
    <3>2. QED  BY <1>0, <2>1, <2>2, <2>3, <3>1, ServedNow DEF Answers
  <2>5. QED  BY <2>2, <2>3, <2>4, Zenon
<1>6. CASE ServesLogin \/ Refuses \/ ServesQuit \/ OpensTransfer \/ RefusesTransfer
  <2>1. PICK class \in {1, 2, 3, 5} :
             /\ inbox' = <<>> \/ inbox' = Tail(inbox)
             /\ chan' = Append(chan, ReplyTo(Head(inbox), class))
             /\ class = 2 => Head(inbox).cmd \notin Orders
    <3>1. CASE ServesLogin
      <4>1. PICK class \in {2, 3} : Answers(class)
        BY <3>1 DEF ServesLogin
      <4>2. Head(inbox).cmd \notin Orders
        BY <3>1 DEF ServesLogin, Serves, Orders
      <4>3. class \in {1, 2, 3, 5}
        OBVIOUS
      <4>4. QED  BY <4>1, <4>2, <4>3 DEF Answers
    <3>2. CASE Refuses \/ OpensTransfer \/ RefusesTransfer
      <4>1. PICK class \in {1, 5} : Answers(class)
        BY <3>2 DEF Refuses, OpensTransfer, RefusesTransfer
      <4>2. class \in {1, 2, 3, 5} /\ class # 2
        OBVIOUS
      <4>3. QED  BY <4>1, <4>2 DEF Answers
    <3>3. CASE ServesQuit
      <4>1. inbox' = <<>> /\ chan' = Append(chan, ReplyTo(Head(inbox), 2))
        BY <3>3 DEF ServesQuit
      <4>2. Head(inbox).cmd \notin Orders
        BY <3>3 DEF ServesQuit, Serves, Orders
      <4>3. 2 \in {1, 2, 3, 5}
        OBVIOUS
      <4>4. QED  BY <4>1, <4>2, <4>3, Zenon
    <3>4. QED  BY <1>6, <3>1, <3>2, <3>3
  <2>2. inbox # <<>> /\ Head(inbox).cmd \in Commands /\ UNCHANGED client
    BY <1>6 DEF ServesLogin, Refuses, ServesQuit, OpensTransfer, RefusesTransfer, Serves, Commands
  <2>3. SUFFICES ASSUME ~behind, pc = "read", Head(todo) \in Orders, First(2)'  PROVE FALSE
    BY <2>2 DEF Carried
  <2>4. Head(inbox).cmd = Head(todo) /\ chan'[1].class = class
    <3>1. class \in 1..5 /\ pc \notin {"closed", "wild"}
      BY <2>3
    <3>2. QED  BY <1>0, <2>1, <2>2, <2>3, <3>1, ServedNow
  <2>5. QED  BY <2>1, <2>3, <2>4 DEF First
<1>7. CASE Waited \/ Streams \/ Completes \/ Aborts
  <2>1. UNCHANGED client
    BY <1>7 DEF Waited, Streams, Completes, Aborts, Finishes
  <2>2. SUFFICES ASSUME ~behind, pc = "read"  PROVE UNCHANGED <<chan, done>>
    BY <1>0, <2>1 DEF Carried, First
  <2>3. CASE Streams
    BY <2>3 DEF Streams
  <2>4. CASE Waited
    <3>1. inbox # <<>> /\ Head(inbox).cmd \in Opened
      BY <2>4 DEF Waited, Serves, Opened
    <3>2. Asked(Commands \ Opened) /\ Head(inbox) = inbox[1]
      BY <1>0, <2>2, <3>1, ServedShape DEF Scene, StepInv
    <3>3. QED  BY <3>1, <3>2 DEF Asked
  <2>5. CASE Completes \/ Aborts
    <3>1. serving # NoCommand
      BY <2>5 DEF Completes, Aborts, NoCommand
    <3>2. QED  BY <1>0, <2>2, <3>1, ServingNow
  <2>6. QED  BY <1>7, <2>3, <2>4, <2>5
<1>8. CASE Drops
  <2>1. /\ UNCHANGED <<client, done>>
        /\ chan' \in {chan, Append(chan, [of |-> "none", class |-> 4, fresh |-> FALSE])}
    BY <1>8 DEF Drops
  <2>2. QED  BY <1>0, <2>1, LastWord DEF Carried
<1>9. CASE UNCHANGED vars
  BY <1>0, <1>9 DEF vars, Carried, First
<1>10. QED
  BY <1>1, <1>2, <1>3, <1>4, <1>5, <1>6, <1>7, <1>8, <1>9 DEF Next, ClientStep, ServerStep

LEMMA CountStep ==
  ASSUME Setting, [Next]_vars
  PROVE  CountInv'
BY CountedStep, EmptyStep, ConfirmedStep, DrainedStep, GotAllStep, CarriedStep DEF CountInv

LEMMA CountInit == Init => CountInv
BY DEF Init, CountInv, Counted, Empty, Confirmed, Final, Drained, GotAll, Carried, Moving

-----------------------------------------------------------------------------
(* What the last reply lets the call return. *)
LEMMA LastHonest ==
  ASSUME Setting, Last
  PROVE  Honest'
<1> USE DEF result, client, control, login, transfer, data
<1>1. /\ pc = "last" /\ UNCHANGED <<call, stale, moved, broke, behind, done>>
      /\ chan \in Seq(Reply) /\ call.name \in Transfers /\ behind \in BOOLEAN
  BY TypeFacts, MovingVerb DEF Last, Setting, Scene, Moving
<1>2. call.name \in {"Get", "Put"} /\ ret' = 1 => First(2)
  <2>1. SUFFICES ASSUME call.name \in {"Get", "Put"}, ret' = 1  PROVE First(2)
    OBVIOUS
  <2>2. Takes /\ Head(chan).class = 2
    BY <2>1 DEF Last, Closed, Returns
  <2>3. QED  BY <1>1, <2>2, TailFacts DEF Takes, First
<1>3. First(2) => ~behind
  BY <1>1 DEF Setting, Scene, LateInv, Backlog, First
<1>4. First(2) => IF call.name = "Put" THEN done \/ broke \/ stale ELSE dend = "eof"
  BY <1>1, <1>3 DEF Setting, CountInv, Confirmed, Final
<1>5. First(2) /\ call.name = "Get" /\ ~broke /\ ~stale => moved = Blocks
  BY <1>1, <1>3, <1>4 DEF Setting, CountInv, GotAll
<1>6. call.name \notin {"Mkdir", "Delete", "Rmdir", "Rename", "Size"}
  BY <1>1 DEF Transfers, Readers
<1>7. QED  BY <1>1, <1>2, <1>4, <1>5, <1>6 DEF Honest

(* What any other command lets its call return. *)
LEMMA EndsHonest ==
  ASSUME Setting, SendFails \/ Reads
  PROVE  Honest'
<1> USE DEF result, client, control, login, transfer, data
<1>1. /\ (pc = "send" /\ Fails) \/ (pc = "read" /\ (Succeeds \/ Fails))
      /\ UNCHANGED <<call, stale, offset, moved, broke, behind, done>>
  BY DEF SendFails, Reads
<1>2. /\ call.name \in Transfers => (pc' = "idle" => ret' = 0)
      /\ call.name \in Ordering => (pc' = "idle" /\ ret' = 1 => Succeeds /\ Head(todo) \in Orders)
  BY <1>1, Ends DEF Setting, Scene
<1>3. ASSUME call.name \in Ordering, pc' = "idle", ret' = 1, ~behind  PROVE done
  <2>1. Head(todo) \in Orders
    BY <1>2, <1>3
  <2>2. ~Fails
    BY <1>3, <2>1 DEF Fails, Goes, Closes, Returns, LogsIn, Orders
  <2>3. pc = "read" /\ Takes /\ Good(Head(todo), Head(chan))
    BY <2>2 DEF SendFails, Reads
  <2>4. Head(chan).class = 2
    BY <2>1, <2>3 DEF Good, Expects, Orders
  <2>5. First(2)
    <3>1. chan \in Seq(Reply)
      BY TypeFacts DEF Setting, Scene
    <3>2. QED  BY <2>3, <2>4, <3>1, TailFacts DEF Takes, First
  <2>6. QED  BY <1>3, <2>1, <2>3, <2>5 DEF Setting, CountInv, Carried
<1>4. Ordering = {"Mkdir", "Delete", "Rmdir", "Rename", "Size"} /\ {"Get", "Put"} \subseteq Transfers
  BY DEF Ordering, Transfers, Readers
<1>5. QED  BY <1>1, <1>2, <1>3, <1>4 DEF Honest

LEMMA HonestStep ==
  ASSUME Setting, Honest, [Next]_vars
  PROVE  Honest'
<1> USE DEF result, client, control, login, transfer, data
<1>1. CASE Connects
  <2>1. pc' # "idle"
    BY <1>1, Zenon DEF Connects, Closes
  <2>2. QED  BY <2>1 DEF Honest
<1>2. CASE (\E c \in Calls : Begins(c)) \/ Sends \/ Opens \/ Gets \/ Puts \/ PutBreaks \/ DataEnds \/ Shuts
  <2>1. pc' # "idle"
    BY <1>2 DEF Begins, Sends, Opens, Gets, Puts, PutBreaks, DataEnds, Shuts
  <2>2. QED  BY <2>1 DEF Honest
<1>3. CASE SendFails \/ Reads
  BY <1>3, EndsHonest
<1>4. CASE SocketFails \/ OpenFails \/ Answered \/ NotOpened
  <2>1. pc' = "idle" => ret' = 0
    BY <1>4 DEF SocketFails, OpenFails, Answered, NotOpened, Returns
  <2>2. QED  BY <2>1 DEF Honest
<1>5. CASE Last
  BY <1>5, LastHonest
<1>6. CASE ServerStep \/ Drops
  <2>1. UNCHANGED client
    BY <1>6 DEF ServerStep, ServesLogin, Does, Refuses, ServesQuit, OpensTransfer, RefusesTransfer, Waited,
                Streams, Completes, Aborts, Finishes, Drops
  <2>2. done => done'
    <3>1. CASE Does \/ Completes
      BY <3>1, Zenon DEF Does, Completes
    <3>2. CASE ~(Does \/ Completes)
      <4>1. done' = done
        BY <1>6, <3>2 DEF ServerStep, ServesLogin, Refuses, ServesQuit, OpensTransfer, RefusesTransfer, Waited,
                         Streams, Aborts, Drops
      <4>2. QED  BY <4>1, Zenon
    <3>3. QED  BY <3>1, <3>2
  <2>3. QED  BY <2>1, <2>2 DEF Honest
<1>7. CASE UNCHANGED vars
  BY <1>7 DEF vars, Honest
<1>8. QED
  BY <1>1, <1>2, <1>3, <1>4, <1>5, <1>6, <1>7 DEF Next, ClientStep

(* A call that reports success has been carried out by the server, unless a transfer *)
(* had been given up before its last reply, a Put also unless its local read failed; *)
(* and a Get that reports success has the whole file, whatever was given up before,  *)
(* unless its own write failed; both unless they began at the position of an earlier *)
(* call: FtpSendCmd and FtpClose look at nothing but the class of the next reply,    *)
(* FtpXfer at nothing but its own counts.                                            *)
THEOREM HonestCalls == Spec => []Honest
<1>1. Init => CountInv /\ Honest
  BY CountInit DEF Init, Honest
<1>2. Scene /\ SettingInv /\ CountInv /\ Honest /\ [Next]_vars => (CountInv /\ Honest)'
  BY CountStep, HonestStep DEF Setting
<1>3. QED  BY <1>1, <1>2, ScenesAlways, PTL DEF Spec
=============================================================================
