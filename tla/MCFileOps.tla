------------------------------ MODULE MCFileOps ------------------------------
(* FileOps for TLC: two devices, A and B, each with a directory x. *)
EXTENDS FileOps, TLC

CONSTANTS worker, h1, h2

MCWorker == {worker}
MCHttp == {h1}
MCData == {"f1", "g1", "f2"}
MCSize == [d \in MCData |-> CASE d = "f1" -> 2 [] d = "g1" -> 0 [] OTHER -> 1]

Job(kind, items, dest, overwrite) ==
  [kind |-> kind, items |-> items, dest |-> dest, overwrite |-> overwrite]

(* /A/x/f, /A/x/y/g and an empty /A/z; on B nothing, or an x with an f. *)
Bare == <<"A">> :> Dir @@ <<"B">> :> Dir @@ <<"A", "z">> :> Dir @@
        <<"A", "x">> :> Dir @@ <<"A", "x", "f">> :> Whole("f1") @@
        <<"A", "x", "y">> :> Dir @@ <<"A", "x", "y", "g">> :> Whole("g1")
Clash == Bare @@ <<"B", "x">> :> Dir @@ <<"B", "x", "f">> :> Whole("f2")
MCTrees == {Bare, Clash}

WorkerJobs ==
  {Job("move", {<<"A", "x">>}, <<"B">>, "PROMPT"),
   Job("move", {<<"A", "x">>, <<"A", "z">>}, <<"A", "z">>, "NONE"),
   Job("move", {<<"A", "x", "f">>}, <<"B", "x">>, "ALL"),
   Job("copy", {<<"A", "x">>}, <<"B">>, "NONE"),
   Job("remove", {<<"A", "x">>}, <<>>, "ALL")}
RequestJobs ==
  {Job("remove", {<<"A", "x", "y">>}, <<>>, "ALL"),
   Job("move", {<<"A", "x", "f">>}, <<"A", "z">>, "ALL")}
TreeMove == Job("move", {<<"A", "x">>}, <<"A", "z">>, "ALL")
AcrossJobs == {Job(kind, {<<"A", "x">>}, <<"B">>, "ALL") : kind \in {"move", "copy"}}

Given(js, ks) == [t \in {worker, h1} |-> IF t = worker THEN js ELSE ks]

(* A job of each; two of the worker; the server's walks across devices alone. *)
MCJobs ==
  {Given({j}, {k}) : j \in WorkerJobs, k \in RequestJobs}
  \cup {Given({Job("copy", {<<"A", "x">>}, <<"B">>, "NONE")}, {TreeMove})}
  \cup {Given({i, j}, {}) : i \in WorkerJobs, j \in WorkerJobs}
  \cup {Given({}, {k}) : k \in AcrossJobs}

MCFaults == [t \in {worker, h1} |->
               IF t = worker THEN {"rename", "list", "mkdir", "remove", "full", "read"}
               ELSE {"full", "read"}]

(* Two requests at once, each across devices, and nothing fails. *)
MCTwoHttp == {h1, h2}
MCTwoJobs == {[t \in MCTwoHttp |->
                 {Job("move", {IF t = h1 THEN <<"A", "x", "f">> ELSE <<"A", "x", "y">>},
                      <<"B">>, "ALL")}]}
MCNoFaults == [t \in MCTwoHttp |-> {}]
=============================================================================
