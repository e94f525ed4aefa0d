------------------------------ MODULE MCWindow ------------------------------
(* The window of match_time_test.go on a real clock. *)
EXTENDS TimeWindow

OnlyFullDay == {FullDay}

=============================================================================
