--------------------------- MODULE MCServiceSetup ---------------------------
(***************************************************************************)
(* Values for the constants of ServiceSetup, for model checking.           *)
(***************************************************************************)
EXTENDS ServiceSetup, TLC

\* A question that is asked of one worker again and again, and beside it one
\* request after the other, of any kind, at either worker or as a tool.
SomeHomes == "question" :> {"w1"} @@ "other" :> {"w1", "w2"}

SomeKinds == "question" :> {"question"} @@ "other" :> KindNames

=============================================================================
