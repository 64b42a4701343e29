------------------------------ MODULE MCActivity ------------------------------
(* Activity for TLC: two entries of a listing, one of them a directory. *)
EXTENDS Activity

CONSTANTS file1, file2, w1, w2, h1

MCFiles == {file1, file2}
MCDirs == {file2}
MCWorkers == {w1, w2}
MCRequests == {h1}
=============================================================================
