----------------------------- MODULE MCSession -----------------------------
(* Instances of Session for TLC.                                           *)
EXTENDS Session

\* A reader and a writer at each end, and a second reader at the responder.
MCReaders == {<<"I", "r">>, <<"R", "r">>, <<"R", "s">>}
MCWriters == {<<"I", "w">>, <<"R", "w">>}
=============================================================================
